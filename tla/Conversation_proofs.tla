------------------------ MODULE Conversation_proofs ------------------------
(***************************************************************************)
(* The theorems of the two specifications of a session's conversation, for *)
(* any number of messages, calls and kinds of content: what the model is   *)
(* sent of a stored conversation (StoredConversation), and what the        *)
(* replies of a session keep of what was said (ReplyLoop).                 *)
(***************************************************************************)
EXTENDS StoredConversation, ReplyLoop, FixConversation_proofs, FiniteSetTheorems

StoredMessage == [role : {"user", "assistant"}, visible : BOOLEAN, items : Seq(Content)]

LEMMA StoredMessages == IsMessages(StoredMessage)
PROOF
  <1> SUFFICES ASSUME NEW m \in StoredMessage
               PROVE  /\ m.role \in {"user", "assistant"} /\ m.items \in Seq(Content)
                      /\ \A its \in Seq(Content) : WithItemsAgrees(StoredMessage, m, its)
    BY DEF IsMessages
  <1>1. ASSUME NEW its \in Seq(Content) PROVE WithItemsAgrees(StoredMessage, m, its)
    <2>1. PICK w : w = WithItems(m, its) OBVIOUS
    <2>2. w = [role |-> m.role, visible |-> m.visible, items |-> its] BY <2>1 DEF WithItems, StoredMessage
    <2> HIDE DEF WithItems
    <2>3. w \in StoredMessage /\ w.role = m.role /\ w.visible = m.visible /\ w.items = its
      BY <2>2 DEF StoredMessage
    <2> QED BY <2>1, <2>3 DEF WithItemsAgrees
  <1> QED BY <1>1 DEF StoredMessage

Conversed == conv \in Seq(StoredMessage)

LEMMA StoredMsg ==
  ASSUME NEW role \in {"user", "assistant"}, NEW its \in Seq(Content) PROVE Msg(role, its) \in StoredMessage
PROOF BY DEF Msg, StoredMessage

\* A conversation is a sequence of messages, whoever says or hides what
THEOREM StoredType == StoredSpec => []Conversed
PROOF
  <1>1. StoredInit => Conversed BY DEF StoredInit, Conversed
  <1>2. Conversed /\ [StoredNext]_conv => Conversed'
    <2> SUFFICES ASSUME Conversed, [StoredNext]_conv PROVE Conversed' OBVIOUS
    <2>0. conv \in Seq(StoredMessage) BY DEF Conversed
    <2>1. ASSUME NEW said \in Said, Say("user", said) PROVE Conversed'
      <3>1. Msg("user", said) \in StoredMessage BY ConversationConstants, StoredMsg
      <3> QED BY <2>0, <2>1, <3>1 DEF Say, Conversed
    <2>2. ASSUME NEW said \in Told, Say("assistant", said) PROVE Conversed'
      <3>1. Msg("assistant", said) \in StoredMessage BY ConversationConstants, StoredMsg
      <3> QED BY <2>0, <2>2, <3>1 DEF Say, Conversed
    <2>3. ASSUME NEW i \in Calls, NEW said \in {<<>>, <<Text("text")>>}, Ask(i, said) PROVE Conversed'
      <3>1. Request(i) \in Content BY ConversationConstants DEF Content, Kinds, Request
      <3>2. Text("text") \in Content BY DEF Content, Kinds, Texts, Text, NoId
      <3>3. Append(said, Request(i)) \in Seq(Content)
        <4>1. PICK r \in Content : r = Request(i) BY <3>1
        <4>2. PICK s \in Seq(Content) : s = said
          <5>1. <<>> \in Seq(Content) /\ <<Text("text")>> \in Seq(Content) BY <3>2
          <5> QED BY <5>1
        <4> QED BY <4>1, <4>2
      <3>4. Msg("assistant", Append(said, Request(i))) \in StoredMessage BY <3>3, StoredMsg
      <3> QED BY <2>0, <2>3, <3>4 DEF Ask, Conversed
    <2>4. ASSUME NEW n \in DOMAIN conv, Hide(n) PROVE Conversed'
      <3>1. PICK m \in StoredMessage : m = conv[n] BY <2>0
      <3>2. PICK w : w = [m EXCEPT !.visible = FALSE] OBVIOUS
      <3>3. w \in StoredMessage BY <3>2 DEF StoredMessage
      <3>4. conv' = [conv EXCEPT ![n] = w] BY <2>4, <3>1, <3>2 DEF Hide
      <3> QED BY <2>0, <3>3, <3>4 DEF Conversed
    <2>5. CASE UNCHANGED conv BY <2>5 DEF Conversed
    <2> QED BY <2>1, <2>2, <2>3, <2>4, <2>5 DEF StoredNext
  <1> QED BY <1>1, <1>2, PTL DEF StoredSpec

\* "the first and last messages should always be from the user", and roles
\* alternate, whatever is stored
THEOREM UserEnds == StoredSpec => []UserAtBothEnds
PROOF
  <1>1. Conversed => UserAtBothEnds
    <2> SUFFICES ASSUME Conversed, StartsWithUser
                 PROVE  /\ Sent # <<>> /\ Head(Sent).role = "user" /\ Last(Sent).role = "user"
                        /\ \A n \in 1 .. Len(Sent) - 1 : EffectiveRole(Sent[n]) # EffectiveRole(Sent[n + 1])
      BY DEF UserAtBothEnds
    <2>1. Visible(conv) # <<>> BY DEF StartsWithUser
    <2>2. EndsWithUser(Sent) /\ Alternate(Sent)
      BY <2>1, StoredMessages, FixedVisible DEF Conversed, Sent
    <2> QED BY <2>2 DEF EndsWithUser, Alternate
  <1> QED BY <1>1, StoredType, PTL

-----------------------------------------------------------------------------
\* A call's request is in one place of the conversation
AskedInv == \A i \in Nat : AskedOnce(conv, i)

LEMMA AskedOnceAppend ==
  ASSUME NEW M, NEW s \in Seq(M), NEW m \in M, NEW i, AskedOnce(s, i),
         m.role = "assistant" => Once(m.items, Request(i)),
         m.role = "assistant" /\ Has(m.items, Request(i)) =>
           \A n \in DOMAIN s : ~Has(s[n].items, Request(i))
  PROVE  AskedOnce(Append(s, m), i)
PROOF
  <1>1. PICK r \in Seq(M) : Longer(r, s, m) BY Appended
  <1>2. /\ DOMAIN s = 1 .. Len(s) /\ DOMAIN r = 1 .. Len(s) + 1 /\ Len(s) \in Nat
        /\ r[Len(s) + 1] = m /\ \A j \in 1 .. Len(s) : r[j] = s[j]
    BY <1>1 DEF Longer
  <1>3. \A j \in DOMAIN r : (j \in DOMAIN s /\ r[j] = s[j]) \/ (j = Len(s) + 1 /\ r[j] = m) BY <1>2
  <1>4. AskedOnce(r, i) BY <1>3 DEF AskedOnce
  <1> QED BY <1>1, <1>4 DEF Longer

\* An id is asked for once: Ask takes an id of no message
THEOREM AskedSafe == StoredSpec => []AskedInv
PROOF
  <1>1. StoredInit => AskedInv BY DEF StoredInit, AskedInv, AskedOnce
  <1>2. Conversed /\ AskedInv /\ [StoredNext]_conv => AskedInv'
    <2> SUFFICES ASSUME Conversed, AskedInv, [StoredNext]_conv, NEW i \in Nat PROVE AskedOnce(conv', i)
      BY DEF AskedInv
    <2>0. conv \in Seq(StoredMessage) /\ AskedOnce(conv, i) BY DEF Conversed, AskedInv
    <2>1. ASSUME NEW said \in Said, Say("user", said) PROVE AskedOnce(conv', i)
      <3>1. PICK m \in StoredMessage : m = Msg("user", said) BY ConversationConstants, StoredMsg
      <3>2. m.role = "user" BY <3>1 DEF Msg
      <3> QED BY <2>0, <2>1, <3>1, <3>2, AskedOnceAppend DEF Say
    <2>2. ASSUME NEW said \in Told, Say("assistant", said) PROVE AskedOnce(conv', i)
      <3>1. PICK m \in StoredMessage : m = Msg("assistant", said) BY ConversationConstants, StoredMsg
      <3>2. m.items = said BY <3>1 DEF Msg
      <3>3. ~Has(said, Request(i)) BY ConversationConstants DEF Has, Request
      <3>4. Once(said, Request(i)) BY <3>3 DEF Has, Once
      <3> QED BY <2>0, <2>2, <3>1, <3>2, <3>3, <3>4, AskedOnceAppend DEF Say
    <2>3. ASSUME NEW j \in Calls, NEW said \in {<<>>, <<Text("text")>>}, Ask(j, said)
          PROVE  AskedOnce(conv', i)
      <3>1. Request(j) \in Content BY ConversationConstants DEF Content, Kinds, Request
      <3>2. Text("text") \in Content BY DEF Content, Kinds, Texts, Text, NoId
      <3>3. PICK t \in Seq(Content) : t = said
        <4>1. <<>> \in Seq(Content) /\ <<Text("text")>> \in Seq(Content) BY <3>2
        <4> QED BY <4>1
      <3>4. PICK y \in Content : y = Request(j) BY <3>1
      <3>5. PICK u \in Seq(Content) : Longer(u, t, y) BY Appended
      <3>6. PICK m \in StoredMessage : m = Msg("assistant", u) BY StoredMsg
      <3>7. m.items = u BY <3>6 DEF Msg
      <3>8. conv' = Append(conv, m) BY <2>3, <3>3, <3>4, <3>5, <3>6 DEF Ask, Longer
      <3>9. ~Has(t, Request(i))
        <4>1. Text("text") # Request(i) BY DEF Text, Request
        <4> QED BY <3>3, <4>1 DEF Has
      <3>10. Once(t, Request(i)) BY <3>9 DEF Has, Once
      <3>11. /\ Has(u, Request(i)) <=> Has(t, Request(i)) \/ y = Request(i)
             /\ Once(u, Request(i))
        <4>1. /\ Has(Append(t, y), Request(i)) <=> Has(t, Request(i)) \/ y = Request(i)
              /\ Once(Append(t, y), Request(i))
          BY <3>9, <3>10, AppendHas
        <4> QED BY <3>5, <4>1 DEF Longer
      <3>12. Has(u, Request(i)) => i = j BY <3>4, <3>9, <3>11 DEF Request
      <3>13. ASSUME i = j, NEW n \in DOMAIN conv PROVE ~Has(conv[n].items, Request(i))
        <4> SUFFICES ASSUME NEW k \in DOMAIN conv[n].items, conv[n].items[k] = Request(i) PROVE FALSE
          BY DEF Has
        <4>1. i \in Asked(conv[n]) BY DEF Asked, Request
        <4>2. i \in IdsAsked BY <4>1 DEF IdsAsked
        <4> QED BY <2>3, <3>13, <4>2 DEF Ask
      <3> QED BY <2>0, <3>7, <3>8, <3>11, <3>12, <3>13, AskedOnceAppend
    <2>4. ASSUME NEW n \in DOMAIN conv, Hide(n) PROVE AskedOnce(conv', i)
      <3>1. PICK m \in StoredMessage : m = conv[n] BY <2>0
      <3>2. PICK w : w = [m EXCEPT !.visible = FALSE] OBVIOUS
      <3>3. w.role = m.role /\ w.items = m.items BY <3>2 DEF StoredMessage
      <3>4. conv' = [conv EXCEPT ![n] = w] BY <2>4, <3>1, <3>2 DEF Hide
      <3>5. DOMAIN conv' = DOMAIN conv BY <3>4
      <3>6. \A k \in DOMAIN conv : conv'[k].role = conv[k].role /\ conv'[k].items = conv[k].items
        BY <3>1, <3>3, <3>4
      <3> QED BY <2>0, <3>5, <3>6 DEF AskedOnce
    <2>5. CASE UNCHANGED conv BY <2>0, <2>5
    <2> QED BY <2>1, <2>2, <2>3, <2>4, <2>5 DEF StoredNext
  <1> QED BY <1>1, <1>2, StoredType, PTL DEF StoredSpec
-----------------------------------------------------------------------------
LEMMA OccurrencesIn ==
  ASSUME NEW s, NEW x, NEW p
  PROVE  p \in Occurrences(s, x) <=>
           \E m \in DOMAIN s : \E k \in DOMAIN s[m].items : s[m].items[k] = x /\ p = <<m, k>>
PROOF BY DEF Occurrences

\* A pairing is one request and, after it, one response
LEMMA PairedOccurrences ==
  ASSUME NEW s, NEW i, WellPaired(s, i)
  PROVE  \/ Occurrences(s, Request(i)) = {} /\ Occurrences(s, Response(i)) = {}
         \/ \E m, n \in DOMAIN s :
              \E k \in DOMAIN s[m].items, l \in DOMAIN s[n].items :
                /\ m < n
                /\ Occurrences(s, Request(i)) = {<<m, k>>} /\ Occurrences(s, Response(i)) = {<<n, l>>}
PROOF
  <1>1. ASSUME NEW x, OnceIn(s, x), NEW m, In(s, x, m)
        PROVE  \E k \in DOMAIN s[m].items : Occurrences(s, x) = {<<m, k>>}
    <2>1. m \in DOMAIN s BY <1>1 DEF In
    <2>2. PICK k \in DOMAIN s[m].items : s[m].items[k] = x BY <1>1 DEF In, Has
    <2>3. <<m, k>> \in Occurrences(s, x) BY <2>1, <2>2, OccurrencesIn
    <2>4. ASSUME NEW p \in Occurrences(s, x) PROVE p = <<m, k>>
      <3>1. PICK a \in DOMAIN s : \E l \in DOMAIN s[a].items : s[a].items[l] = x /\ p = <<a, l>>
        BY <2>4, OccurrencesIn
      <3>2. PICK l \in DOMAIN s[a].items : s[a].items[l] = x /\ p = <<a, l>> BY <3>1
      <3>3. In(s, x, a) BY <3>2 DEF In, Has
      <3>4. a = m BY <1>1, <3>3 DEF OnceIn
      <3>5. l = k BY <1>1, <2>1, <2>2, <3>2, <3>4 DEF OnceIn, Once
      <3> QED BY <3>2, <3>4, <3>5
    <2> QED BY <2>3, <2>4
  <1>2. ASSUME NEW x, \A m : ~In(s, x, m) PROVE Occurrences(s, x) = {}
    <2> SUFFICES ASSUME NEW p \in Occurrences(s, x) PROVE FALSE OBVIOUS
    <2>1. PICK a \in DOMAIN s : \E l \in DOMAIN s[a].items : s[a].items[l] = x /\ p = <<a, l>>
      BY OccurrencesIn
    <2>2. In(s, x, a) BY <2>1 DEF In, Has
    <2> QED BY <1>2, <2>2
  <1>3. CASE \E m : In(s, Request(i), m)
    <2>1. PICK m : In(s, Request(i), m) BY <1>3
    <2>2. PICK n : In(s, Response(i), n) /\ m < n BY <2>1 DEF WellPaired
    <2>3. PICK k \in DOMAIN s[m].items : Occurrences(s, Request(i)) = {<<m, k>>}
      BY <1>1, <2>1 DEF WellPaired
    <2>4. PICK l \in DOMAIN s[n].items : Occurrences(s, Response(i)) = {<<n, l>>}
      BY <1>1, <2>2 DEF WellPaired
    <2>5. m \in DOMAIN s /\ n \in DOMAIN s BY <2>1, <2>2 DEF In
    <2> QED BY <2>2, <2>3, <2>4, <2>5
  <1>4. CASE ~\E m : In(s, Request(i), m)
    <2>1. \A n : ~In(s, Response(i), n) BY <1>4 DEF WellPaired
    <2> QED BY <1>2, <1>4, <2>1
  <1> QED BY <1>3, <1>4

LEMMA SeenBegins ==
  ASSUME conv \in Seq(StoredMessage), StartsWithUser PROVE BeginsWithWords(Visible(conv))
PROOF
  <1>1. PICK seen \in Seq(StoredMessage) : seen = Visible(conv) BY VisibleType
  <1>2. seen # <<>> /\ Head(seen) = seen[1] /\ seen[1].role = "user" BY <1>1 DEF StartsWithUser
  <1>3. PICK n \in DOMAIN seen[1].items : IsWords(seen[1].items[n]) BY <1>1, <1>2 DEF StartsWithUser
  <1>4. HasWords(seen[1].items) BY <1>3 DEF HasWords, Has, IsWords
  <1> QED BY <1>1, <1>2, <1>4 DEF BeginsWithWords

\* The model never sees a call without its one result or a result without its
\* call before it, whatever was cut, cancelled, hidden or said twice
THEOREM CallsArePaired == StoredSpec => []CallsPaired
PROOF
  <1>1. Conversed /\ AskedInv => CallsPaired
    <2> SUFFICES ASSUME Conversed, AskedInv, StartsWithUser, NEW i \in Calls
                 PROVE  \/ Occurrences(Sent, Request(i)) = {} /\ Occurrences(Sent, Response(i)) = {}
                        \/ \E m, n \in DOMAIN Sent :
                             \E k \in DOMAIN Sent[m].items, l \in DOMAIN Sent[n].items :
                               /\ m < n
                               /\ Occurrences(Sent, Request(i)) = {<<m, k>>}
                               /\ Occurrences(Sent, Response(i)) = {<<n, l>>}
      BY DEF CallsPaired
    <2>1. i \in Nat /\ conv \in Seq(StoredMessage) /\ AskedOnce(conv, i)
      BY ConversationConstants DEF Conversed, AskedInv
    <2>2. PICK seen \in Seq(StoredMessage) : seen = Visible(conv) BY <2>1, VisibleType
    <2>3. AskedOnce(seen, i) BY <2>1, <2>2, PickedAskedOnce DEF Visible, Keep
    <2>4. BeginsWithWords(seen) BY <2>1, <2>2, SeenBegins
    <2>5. WellPaired(FixMessages(seen), i) BY <2>1, <2>3, <2>4, StoredMessages, FixMessagesPaired
    <2>6. Visible(conv) # <<>> BY DEF StartsWithUser
    <2>7. Sent = FixMessages(seen) BY <2>1, <2>2, <2>6, StoredMessages, FixedVisible DEF Sent
    <2>8. WellPaired(Sent, i) BY <2>5, <2>7
    <2> QED BY <2>8, PairedOccurrences
  <1> QED BY <1>1, StoredType, AskedSafe, PTL

\* A conversation that was fixed needs no further fixing, whatever the store
\* held, save that the texts of joined messages are joined by the second fix
THEOREM FixingTwice == StoredSpec => []FixedOnce
PROOF
  <1>1. Exact(StoredMessage)
    <2> SUFFICES ASSUME NEW m \in StoredMessage PROVE WithItems(m, m.items) = m BY DEF Exact
    <2>1. m = [role |-> m.role, visible |-> m.visible, items |-> m.items] BY DEF StoredMessage
    <2> QED BY <2>1 DEF WithItems
  <1>2. Start \in StoredMessage
    <2>1. <<Text("text")>> \in Seq(Content) BY DEF Content, Kinds, Texts, Text, NoId
    <2> QED BY <2>1, StoredMsg DEF Start
  <1>3. Conversed /\ AskedInv => FixedOnce
    <2> SUFFICES ASSUME Conversed, AskedInv, StartsWithUser
                 PROVE  Fixed(Fixed(conv)) = [n \in DOMAIN Fixed(conv) |->
                          IF Fixed(conv)[n].visible THEN MergeTextContent(Fixed(conv)[n]) ELSE Fixed(conv)[n]]
      BY DEF FixedOnce, MapSeq
    <2>1. conv \in Seq(StoredMessage) BY DEF Conversed
    <2>2. \A i \in Nat : AskedOnce(Visible(conv), i) BY <2>1, PickedAskedOnce DEF AskedInv, Visible, Keep
    <2> QED BY <1>1, <1>2, <2>1, <2>2, SeenBegins, StoredMessages, FixedAgain
  <1> QED BY <1>3, StoredType, AskedSafe, PTL
-----------------------------------------------------------------------------
(***************************************************************************)
(* The numbers of new messages: a maximum of the numbers in use is one of  *)
(* them.                                                                   *)
(***************************************************************************)
LEMMA BoundExists ==
  ASSUME NEW M, \A m \in M : m.mid \in Nat, NEW s \in Seq(M)
  PROVE  \E b \in Nat : \A x \in Mids(s) : x <= b
PROOF
  <1> DEFINE n == Len(s)
             T == {k \in 0 .. n : \E b \in Nat : \A j \in 1 .. k : s[j].mid <= b}
  <1>1. n \in Nat /\ n \in 0 .. n /\ DOMAIN s = 1 .. n OBVIOUS
  <1>2. 0 \in T
    <2>1. \A j \in 1 .. 0 : s[j].mid <= 0 OBVIOUS
    <2> QED BY <1>1, <2>1
  <1>3. ASSUME NEW k \in 0 .. n, k # n, k \in T PROVE k + 1 \in T
    <2>1. k + 1 \in 1 .. n /\ k + 1 \in 0 .. n /\ k \in Nat BY <1>3
    <2>2. PICK b \in Nat : \A j \in 1 .. k : s[j].mid <= b BY <1>3
    <2>3. PICK c \in Nat : c = s[k + 1].mid BY <2>1
    <2>4. PICK d \in Nat : b <= d /\ c <= d
      <3>1. b + c \in Nat /\ b <= b + c /\ c <= b + c OBVIOUS
      <3> QED BY <3>1
    <2>5. \A j \in 1 .. (k + 1) : s[j].mid <= d
      <3> SUFFICES ASSUME NEW j \in 1 .. (k + 1) PROVE s[j].mid <= d OBVIOUS
      <3>1. CASE j = k + 1 BY <2>3, <2>4, <3>1
      <3>2. CASE j # k + 1
        <4>1. j \in 1 .. k /\ j \in 1 .. n BY <2>1, <3>2
        <4>2. PICK e \in Nat : e = s[j].mid BY <4>1
        <4>3. e <= b BY <2>2, <4>1, <4>2
        <4>4. e <= d BY <2>4, <4>3
        <4> QED BY <4>2, <4>4
      <3> QED BY <3>1, <3>2
    <2> QED BY <2>1, <2>5
  <1>4. \A k \in 0 .. n : k \in T
    <2> HIDE DEF T
    <2> QED BY <1>1, <1>2, <1>3, InductionTo
  <1>5. PICK b \in Nat : \A j \in 1 .. n : s[j].mid <= b BY <1>1, <1>4
  <1> QED BY <1>1, <1>5 DEF Mids

LEMMA MaxNat ==
  ASSUME NEW S \in SUBSET Nat, S # {}, NEW b \in Nat, \A x \in S : x <= b
  PROVE  Max(S) \in Nat /\ \A x \in S : x <= Max(S)
PROOF
  <1> DEFINE T == {b - x : x \in S}
  <1>0. \A x \in S : x \in Nat /\ b - x \in Nat OBVIOUS
  <1>1. T \in SUBSET Nat /\ T # {} BY <1>0
  <1>2. PICK m \in T : \A k \in T : m <= k
    <2> HIDE DEF T
    <2> QED BY <1>1, LeastMember
  <1>3. PICK x \in S : m = b - x BY <1>2
  <1>4. \A y \in S : x >= y
    <2> SUFFICES ASSUME NEW y \in S PROVE x >= y OBVIOUS
    <2>1. b - y \in T OBVIOUS
    <2>2. x \in Nat /\ y \in Nat BY <1>0
    <2> QED BY <1>2, <1>3, <2>1, <2>2
  <1>5. Max(S) \in S /\ \A y \in S : Max(S) >= y BY <1>4 DEF Max
  <1>6. PICK u \in Nat : u = Max(S) BY <1>5
  <1>7. \A y \in S : y <= u
    <2> SUFFICES ASSUME NEW y \in S PROVE y <= u OBVIOUS
    <2>1. y \in Nat /\ u >= y BY <1>5, <1>6
    <2> QED BY <1>6, <2>1
  <1> QED BY <1>6, <1>7

-----------------------------------------------------------------------------
(***************************************************************************)
(* Rows: messages of the session, of which the store or the memory has a   *)
(* row with one of the given ids.                                          *)
(***************************************************************************)
Rows(I) == {m \in Messages : m.mid \in I}

LEMMA RowsMessages == \A I : IsMessages(Rows(I))
PROOF
  <1> SUFFICES ASSUME NEW I, NEW m \in Rows(I)
               PROVE  /\ m.role \in {"user", "assistant"} /\ m.items \in Seq(Content)
                      /\ \A its \in Seq(Content) : WithItemsAgrees(Rows(I), m, its)
    BY DEF IsMessages
  <1>0. m \in Messages /\ m.mid \in I BY DEF Rows
  <1>1. ASSUME NEW its \in Seq(Content) PROVE WithItemsAgrees(Rows(I), m, its)
    <2>1. PICK w : w = WithItems(m, its) OBVIOUS
    <2>2. w = [role |-> m.role, visible |-> m.visible, items |-> its, created |-> m.created, mid |-> m.mid]
      BY <1>0, <2>1 DEF WithItems, Messages
    <2>3. /\ w \in Messages /\ w.role = m.role /\ w.visible = m.visible /\ w.items = its
          /\ w.mid = m.mid
      BY <1>0, <2>2 DEF Messages
    <2> QED BY <1>0, <2>1, <2>3 DEF WithItemsAgrees, Rows
  <1> QED BY <1>0, <1>1 DEF Messages

LEMMA MessagesRows == ASSUME NEW s \in Seq(Messages) PROVE s \in Seq(Rows(Mids(s)))
PROOF BY DEF Rows, Mids

LEMMA RowsMids ==
  ASSUME NEW I, NEW s \in Seq(Rows(I)) PROVE s \in Seq(Messages) /\ Mids(s) \subseteq I
PROOF BY DEF Rows, Mids

\* r holds what the user says in s
IsWord(x) == x.kind \in {"text", "blank"}

Carries(r, s) == \A x : IsWord(x) /\ UserHas(s, x) => UserHas(r, x)

\* The messages of r are those of s
SameMessages(r, s) ==
  /\ \A j \in DOMAIN r : Has(s, r[j])
  /\ \A n \in DOMAIN s : Has(r, s[n])

LEMMA SameCarries ==
  ASSUME NEW r, NEW s, SameMessages(r, s)
  PROVE  Carries(r, s) /\ Mids(r) = Mids(s)
PROOF
  <1>1. ASSUME NEW x, NEW n, UserSays(s, x, n) PROVE UserHas(r, x)
    <2>1. PICK k \in DOMAIN r : r[k] = s[n] BY <1>1 DEF SameMessages, UserSays, Has
    <2>2. UserSays(r, x, k) BY <1>1, <2>1 DEF UserSays
    <2> QED BY <2>2 DEF UserHas
  <1>2. ASSUME NEW j \in DOMAIN r PROVE \E n \in DOMAIN s : s[n].mid = r[j].mid
    <2>1. PICK n \in DOMAIN s : s[n] = r[j] BY <1>2 DEF SameMessages, Has
    <2> QED BY <2>1
  <1>3. ASSUME NEW n \in DOMAIN s PROVE \E j \in DOMAIN r : s[n].mid = r[j].mid
    <2>1. PICK j \in DOMAIN r : s[n] = r[j] BY <1>3 DEF SameMessages, Has
    <2> QED BY <2>1
  <1> QED BY <1>1, <1>2, <1>3 DEF Carries, UserHas, Mids

\* A reload changes the order only: every message was created in a second that
\* it goes through
LEMMA Reloaded ==
  ASSUME NEW s \in Seq(Messages) PROVE \E r \in Seq(Messages) : r = Reload(s) /\ SameMessages(r, s)
PROOF
  <1> DEFINE K(t) == {n \in DOMAIN s : s[n].created = t}
             F == [t \in 1 .. MaxClock |-> Picked(s, K(t))]
  <1>1. MaxClock \in Nat BY Bounds
  <1>2. \A t \in 1 .. MaxClock : F[t] \in Seq(Messages)
    <2> HIDE DEF K
    <2> QED BY PickedPlaces
  <1>3. F \in [1 .. MaxClock -> Seq(Messages)] BY <1>2
  <1>4. Reload(s) = FlattenSeq(F) BY DEF Reload, Keep
  <1>5. \A t \in 1 .. MaxClock : \A x : Has(F[t], x) <=> \E k \in DOMAIN s : k \in K(t) /\ s[k] = x
    <2> HIDE DEF K
    <2> QED BY PickedHas
  <1> HIDE DEF F
  <1>6. PICK r \in Seq(Messages) : Flat(r, F, MaxClock) BY <1>1, <1>3, Flattened
  <1>7. ASSUME NEW j \in DOMAIN r PROVE Has(s, r[j])
    <2>1. PICK t \in 1 .. MaxClock : Has(F[t], r[j]) BY <1>6 DEF Flat
    <2> QED BY <1>5, <2>1 DEF Has
  <1>8. ASSUME NEW n \in DOMAIN s PROVE Has(r, s[n])
    <2>0. s[n] \in Messages OBVIOUS
    <2>1. s[n].created \in 1 .. MaxClock BY <2>0 DEF Messages
    <2>2. n \in K(s[n].created) OBVIOUS
    <2>3. Has(F[s[n].created], s[n]) BY <1>5, <2>1, <2>2
    <2> QED BY <1>6, <2>1, <2>3 DEF Flat
  <1> QED BY <1>4, <1>6, <1>7, <1>8 DEF Flat, SameMessages

\* A message in which the model sees words of the user's
Speaks(m) == m.visible /\ m.role = "user" /\ \E x : IsWord(x) /\ Has(m.items, x)

LEMMA FixedRows ==
  ASSUME NEW s \in Seq(Messages), NEW n \in DOMAIN s, Speaks(s[n])
  PROVE  Fixed(s) \in Seq(Messages) /\ Mids(Fixed(s)) \subseteq Mids(s) /\ Carries(Fixed(s), s)
PROOF
  <1>1. PICK M : M = Rows(Mids(s)) OBVIOUS
  <1>2. IsMessages(M) /\ s \in Seq(M) BY <1>1, RowsMessages, MessagesRows
  <1>3. PICK x : IsWord(x) /\ Has(s[n].items, x) BY DEF Speaks
  <1>4. PICK k \in DOMAIN Visible(s) : Visible(s)[k] = s[n] BY <1>2, VisiblePlaces DEF Speaks
  <1>5. UserSays(Visible(s), x, k) BY <1>3, <1>4 DEF UserSays, Speaks
  <1>6. \E y : y.kind \in {"text", "blank"} /\ UserHas(Visible(s), y)
    BY <1>3, <1>5 DEF UserHas, IsWord
  <1>7. /\ Fixed(s) \in Seq(M)
        /\ \A y : y.kind \in {"text", "blank"} /\ UserHas(s, y) => UserHas(Fixed(s), y)
    BY <1>2, <1>6, FixedUser
  <1> QED BY <1>1, <1>7, RowsMids DEF Carries, IsWord

-----------------------------------------------------------------------------
(***************************************************************************)
(* What the steps make of a conversation.                                  *)
(***************************************************************************)
Message(m, role, its, created) ==
  m \in Messages /\ m.role = role /\ m.visible /\ m.items = its /\ m.created = created

LEMMA NewMessage ==
  ASSUME NEW role \in {"user", "assistant"}, NEW its \in Seq(Content), NEW created \in 1 .. MaxClock
  PROVE  \E m \in Messages : m = New(role, its, created) /\ Message(m, role, its, created)
PROOF
  <1>1. PICK m : m = New(role, its, created) OBVIOUS
  <1>2. m = [role |-> role, visible |-> TRUE, items |-> its, created |-> created, mid |-> NoId]
    BY <1>1 DEF New
  <1>3. m \in Messages BY <1>2 DEF Messages, NoId
  <1>4. Message(m, role, its, created) BY <1>2, <1>3 DEF Message
  <1> QED BY <1>1, <1>3, <1>4

LEMMA ItemTypes ==
  ASSUME NEW i \in Nat
  PROVE  {Request(i), Response(i), Prompt(i), Elicitation, Thinking, Text("text")} \subseteq Content
PROOF BY DEF Request, Response, Prompt, Elicitation, Thinking, Text, Content, Kinds, Texts, NoId

LEMMA OneItem == ASSUME NEW x \in Content PROVE <<x>> \in Seq(Content) /\ Has(<<x>>, x)
PROOF
  <1>1. PICK s : s = <<x>> OBVIOUS
  <1>2. s \in Seq(Content) /\ 1 \in DOMAIN s /\ s[1] = x BY <1>1
  <1> QED BY <1>1, <1>2 DEF Has

\* The types of the conversations
Talks == memory \in Seq(Messages) /\ stored \in Seq(Messages) /\ adding \in Seq(Messages)

\* The ids of t are its own, and no two of them are the same
Distinct(t) == \A m, n \in DOMAIN t : t[m].mid = t[n].mid => m = n

NewIds(t) ==
  Distinct(t) /\ \A n \in DOMAIN t : t[n].mid \notin Mids(stored) \cup Mids(memory) \cup Mids(adding)

\* r is s with numbers
IsNumbered(r, s) ==
  /\ r = Numbered(s) /\ Len(r) = Len(s) /\ NewIds(r)
  /\ \A n \in 1 .. Len(s) : Message(r[n], s[n].role, s[n].items, s[n].created)

LEMMA Numbering ==
  ASSUME Talks, NEW s \in Seq(Messages), \A n \in 1 .. Len(s) : s[n].visible
  PROVE  \E r \in Seq(Messages) : IsNumbered(r, s)
PROOF
  <1> DEFINE S == {NoId} \cup Mids(stored) \cup Mids(memory) \cup Mids(adding)
  <1>0. \A m \in Messages : m.mid \in Nat BY DEF Messages
  <1>1. PICK a \in Nat : \A x \in Mids(stored) : x <= a BY <1>0, BoundExists DEF Talks
  <1>2. PICK b \in Nat : \A x \in Mids(memory) : x <= b BY <1>0, BoundExists DEF Talks
  <1>3. PICK c \in Nat : \A x \in Mids(adding) : x <= c BY <1>0, BoundExists DEF Talks
  <1>4. \A t \in Seq(Messages) : Mids(t) \subseteq Nat BY <1>0 DEF Mids
  <1>5. S \in SUBSET Nat /\ S # {} BY <1>4 DEF Talks, NoId
  <1>6. a + b + c \in Nat /\ \A x \in S : x <= a + b + c
    <2>1. a + b + c \in Nat OBVIOUS
    <2> SUFFICES ASSUME NEW x \in S PROVE x <= a + b + c BY <2>1
    <2>2. x \in Nat BY <1>5
    <2>3. x = 0 \/ x <= a \/ x <= b \/ x <= c BY <1>1, <1>2, <1>3 DEF NoId
    <2> HIDE DEF S
    <2> QED BY <2>2, <2>3
  <1>7. PICK used \in Nat : used = Max(S) /\ \A x \in S : x <= used
    <2> HIDE DEF S
    <2> QED BY <1>5, <1>6, MaxNat
  <1>8. Numbered(s) = [n \in DOMAIN s |-> [s[n] EXCEPT !.mid = used + n]] BY <1>7 DEF Numbered
  <1> HIDE DEF S
  <1>9. ASSUME NEW n \in 1 .. Len(s)
        PROVE  /\ Message([s[n] EXCEPT !.mid = used + n], s[n].role, s[n].items, s[n].created)
               /\ [s[n] EXCEPT !.mid = used + n].mid = used + n
    <2>1. PICK m \in Messages : m = s[n] BY <1>9
    <2>2. PICK w : w = [m EXCEPT !.mid = used + n] OBVIOUS
    <2>3. m.visible BY <1>9, <2>1
    <2>4. w = [role |-> m.role, visible |-> m.visible, items |-> m.items, created |-> m.created,
              mid |-> used + n]
      BY <2>2 DEF Messages
    <2>5. used + n \in Nat OBVIOUS
    <2>6. Message(w, m.role, m.items, m.created) /\ w.mid = used + n
      BY <2>3, <2>4, <2>5 DEF Messages, Message
    <2> QED BY <2>1, <2>2, <2>6
  <1>10. PICK r : r = Numbered(s) OBVIOUS
  <1>11. DOMAIN s = 1 .. Len(s) /\ Len(s) \in Nat OBVIOUS
  <1>12. \A n \in 1 .. Len(s) : r[n] = [s[n] EXCEPT !.mid = used + n] BY <1>8, <1>10, <1>11
  <1>13. \A n \in 1 .. Len(s) : r[n] \in Messages BY <1>9, <1>12 DEF Message
  <1>14. r \in Seq(Messages) /\ Len(r) = Len(s)
    <2>1. DOMAIN r = 1 .. Len(s) BY <1>8, <1>10, <1>11
    <2>2. r = [n \in 1 .. Len(s) |-> r[n]] BY <1>8, <1>10, <1>11
    <2> QED BY <1>11, <1>13, <2>2
  <1>15. NewIds(r)
    <2>1. \A n \in DOMAIN r : n \in Nat \ {0} /\ n \in 1 .. Len(s) BY <1>14
    <2>2. \A n \in DOMAIN r : r[n].mid = used + n BY <1>9, <1>12, <2>1
    <2>3. Distinct(r) BY <2>1, <2>2 DEF Distinct
    <2>4. ASSUME NEW n \in DOMAIN r, used + n \in S PROVE FALSE
      <3>1. used + n <= used BY <1>7, <2>4
      <3> QED BY <2>1, <3>1
    <2>5. Mids(stored) \cup Mids(memory) \cup Mids(adding) \subseteq S BY DEF S
    <2> QED BY <2>2, <2>3, <2>4, <2>5 DEF NewIds
  <1> QED BY <1>9, <1>10, <1>12, <1>14, <1>15 DEF IsNumbered

\* r is s followed by t
Joins(r, s, t) ==
  /\ r = s \o t
  /\ Mids(r) = Mids(s) \cup Mids(t)
  /\ Carries(r, s) /\ Carries(r, t)
  /\ \A n \in DOMAIN t : Has(r, t[n])
  /\ \A j \in DOMAIN r : Has(s, r[j]) \/ Has(t, r[j])

LEMMA Joining ==
  ASSUME NEW M, NEW s \in Seq(M), NEW t \in Seq(M) PROVE \E r \in Seq(M) : Joins(r, s, t)
PROOF
  <1>1. s \o t \in Seq(M) BY ConcatPlaces
  <1>2. PICK r \in Seq(M) : r = s \o t BY <1>1
  <1>3. \A x : Has(r, x) <=> Has(s, x) \/ Has(t, x) BY <1>2, ConcatHas
  <1>4. \A u : \A n \in DOMAIN u : Has(u, u[n]) BY DEF Has
  <1>5. /\ \A n \in DOMAIN s : Has(r, s[n])
        /\ \A n \in DOMAIN t : Has(r, t[n])
        /\ \A n \in DOMAIN r : Has(s, r[n]) \/ Has(t, r[n])
    BY <1>3, <1>4
  <1>6. \A u : (\A n \in DOMAIN u : Has(r, u[n])) => Carries(r, u) /\ Mids(u) \subseteq Mids(r)
    <2> SUFFICES ASSUME NEW u, \A n \in DOMAIN u : Has(r, u[n])
                 PROVE  Carries(r, u) /\ Mids(u) \subseteq Mids(r)
      OBVIOUS
    <2>1. ASSUME NEW x, NEW n, UserSays(u, x, n) PROVE UserHas(r, x)
      <3>1. PICK k \in DOMAIN r : r[k] = u[n] BY <2>1 DEF UserSays, Has
      <3>2. UserSays(r, x, k) BY <2>1, <3>1 DEF UserSays
      <3> QED BY <3>2 DEF UserHas
    <2>2. ASSUME NEW n \in DOMAIN u PROVE \E k \in DOMAIN r : u[n].mid = r[k].mid
      <3>1. PICK k \in DOMAIN r : r[k] = u[n] BY DEF Has
      <3> QED BY <3>1
    <2> QED BY <2>1, <2>2 DEF Carries, UserHas, Mids
  <1>7. Mids(r) \subseteq Mids(s) \cup Mids(t)
    <2> SUFFICES ASSUME NEW n \in DOMAIN r PROVE r[n].mid \in Mids(s) \cup Mids(t) BY DEF Mids
    <2>1. CASE Has(s, r[n])
      <3>1. PICK k \in DOMAIN s : s[k] = r[n] BY <2>1 DEF Has
      <3> QED BY <3>1 DEF Mids
    <2>2. CASE Has(t, r[n])
      <3>1. PICK k \in DOMAIN t : t[k] = r[n] BY <2>2 DEF Has
      <3> QED BY <3>1 DEF Mids
    <2> QED BY <1>5, <2>1, <2>2
  <1>8. Mids(r) = Mids(s) \cup Mids(t) BY <1>5, <1>6, <1>7
  <1> QED BY <1>2, <1>5, <1>6, <1>8 DEF Joins

\* r is s, of which the model sees some messages no longer
Hides(r, s) ==
  /\ DOMAIN r = DOMAIN s
  /\ \A n \in DOMAIN s : r[n].role = s[n].role /\ r[n].items = s[n].items /\ r[n].mid = s[n].mid

LEMMA HidingKeeps ==
  ASSUME NEW r, NEW s, Hides(r, s) PROVE Carries(r, s) /\ Mids(r) = Mids(s)
PROOF
  <1>1. \A x, n : UserSays(s, x, n) => UserSays(r, x, n) BY DEF Hides, UserSays
  <1>2. Mids(r) = Mids(s) BY DEF Hides, Mids
  <1> QED BY <1>1, <1>2 DEF Carries, UserHas

LEMMA Hiding ==
  ASSUME NEW s \in Seq(Messages), NEW K
  PROVE  \E r \in Seq(Messages) :
           r = [n \in DOMAIN s |-> IF n \in K THEN Hidden(s[n]) ELSE s[n]] /\ Hides(r, s)
PROOF
  <1>1. PICK r : r = [n \in DOMAIN s |-> IF n \in K THEN Hidden(s[n]) ELSE s[n]] OBVIOUS
  <1>2. ASSUME NEW n \in DOMAIN s
        PROVE  /\ r[n] \in Messages
               /\ r[n].role = s[n].role /\ r[n].items = s[n].items /\ r[n].mid = s[n].mid
    <2>1. PICK m \in Messages : m = s[n] OBVIOUS
    <2>2. PICK w : w = Hidden(m) OBVIOUS
    <2>3. w = [role |-> m.role, visible |-> FALSE, items |-> m.items, created |-> m.created, mid |-> m.mid]
      BY <2>2 DEF Hidden, Messages
    <2>4. w \in Messages /\ w.role = m.role /\ w.items = m.items /\ w.mid = m.mid
      BY <2>3 DEF Messages
    <2>5. r[n] = w \/ r[n] = m BY <1>1, <2>1, <2>2
    <2> QED BY <2>1, <2>4, <2>5
  <1>3. r \in Seq(Messages)
    <2>1. DOMAIN s = 1 .. Len(s) /\ Len(s) \in Nat OBVIOUS
    <2>2. r = [n \in 1 .. Len(s) |-> r[n]] BY <1>1, <2>1
    <2> QED BY <1>2, <2>1, <2>2
  <1>4. Hides(r, s) BY <1>1, <1>2 DEF Hides
  <1> QED BY <1>1, <1>3, <1>4

LEMMA NumberedOne ==
  ASSUME Talks, NEW role \in {"user", "assistant"}, NEW its \in Seq(Content), NEW created \in 1 .. MaxClock
  PROVE  \E t \in Seq(Messages) :
           /\ t = Numbered(<<New(role, its, created)>>) /\ NewIds(t)
           /\ 1 \in DOMAIN t /\ Len(t) = 1 /\ Message(t[1], role, its, created)
PROOF
  <1>1. PICK m \in Messages : m = New(role, its, created) /\ Message(m, role, its, created)
    BY NewMessage
  <1>2. PICK s : s = <<m>> OBVIOUS
  <1>3. s \in Seq(Messages) /\ Len(s) = 1 /\ s[1] = m /\ 1 .. Len(s) = {1} BY <1>2
  <1>4. \A n \in 1 .. Len(s) : s[n].visible BY <1>1, <1>3 DEF Message
  <1>5. PICK t \in Seq(Messages) : IsNumbered(t, s) BY <1>3, <1>4, Numbering
  <1>6. Message(t[1], m.role, m.items, m.created) /\ Len(t) = 1 BY <1>3, <1>5 DEF IsNumbered
  <1>7. Message(t[1], role, its, created) BY <1>1, <1>6 DEF Message
  <1>8. 1 \in DOMAIN t BY <1>6
  <1> QED BY <1>1, <1>2, <1>5, <1>6, <1>7, <1>8 DEF IsNumbered

LEMMA SeqWithin ==
  ASSUME NEW R, NEW S, NEW u \in Seq(R), \A n \in 1 .. Len(u) : u[n] \in S PROVE u \in Seq(S)
PROOF OBVIOUS

\* New messages of a compaction, the first of them the user's
SummaryRows == {m \in Messages : m.visible /\ m.items = <<Text("text")>> /\ m.created = clock}

SummaryOf(r, s, t) ==
  /\ t \in Seq(SummaryRows) /\ NewIds(t) /\ 1 \in DOMAIN t /\ t[1].role = "user"
  /\ r = Kept(s) \o t

\* A compaction hides what there is, and ends with words of the user's
Compacts(r, s) ==
  /\ r = Compacted(s) /\ Carries(r, s) /\ \E n \in DOMAIN r : Speaks(r[n])
  /\ \E t : SummaryOf(r, s, t)

LEMMA Compacting ==
  ASSUME Talks, clock \in 1 .. MaxClock, NEW s \in Seq(Messages)
  PROVE  \E r \in Seq(Messages) : Compacts(r, s)
PROOF
  <1> DEFINE its == <<Text("text")>>
             N(role) == New(role, its, clock)
             copy == IF \E n \in DOMAIN s : UserWords(s[n]) THEN <<N("user")>> ELSE <<>>
             V == SummaryRows
  <1>0. its \in Seq(Content) /\ Has(its, Text("text"))
    <2>1. 0 \in Nat OBVIOUS
    <2>2. Text("text") \in Content BY <2>1, ItemTypes
    <2> QED BY <2>2, OneItem
  <1> HIDE DEF its
  <1>1. PICK a \in V : a = N("user") /\ Message(a, "user", its, clock)
    <2>1. PICK m \in Messages : m = N("user") /\ Message(m, "user", its, clock) BY <1>0, NewMessage
    <2> QED BY <2>1 DEF SummaryRows, Message, its
  <1>2. PICK b \in V : b = N("assistant")
    <2>1. PICK m \in Messages : m = N("assistant") /\ Message(m, "assistant", its, clock)
      BY <1>0, NewMessage
    <2> QED BY <2>1 DEF SummaryRows, Message, its
  <1>3. PICK c \in Seq(V) : c = copy
    <2>1. <<a>> \in Seq(V) /\ <<>> \in Seq(V) OBVIOUS
    <2>2. copy = <<a>> \/ copy = <<>> BY <1>1
    <2> QED BY <2>1, <2>2
  <1>4. PICK d \in Seq(V) : d = <<a, b>> /\ Len(d) = 2 /\ d[1] = a
    <2>1. <<a, b>> \in Seq(V) /\ Len(<<a, b>>) = 2 /\ <<a, b>>[1] = a OBVIOUS
    <2> QED BY <2>1
  <1>5. PICK e \in Seq(V) : e = d \o c /\ Len(e) \in Nat /\ 1 \in 1 .. Len(e) /\ e[1] = a
    <2>1. /\ d \o c \in Seq(V) /\ Len(d \o c) = Len(d) + Len(c)
          /\ \A k \in 1 .. Len(d) : k \in 1 .. Len(d \o c) /\ (d \o c)[k] = d[k]
      BY ConcatPlaces
    <2>2. 1 \in 1 .. Len(d) /\ Len(d \o c) \in Nat BY <1>4, <2>1
    <2> QED BY <1>4, <2>1, <2>2
  <1>6. e \in Seq(Messages) /\ \A n \in 1 .. Len(e) : e[n].visible
    <2>1. \A n \in 1 .. Len(e) : e[n] \in V OBVIOUS
    <2> QED BY <2>1 DEF SummaryRows
  <1>7. PICK t \in Seq(Messages) : IsNumbered(t, e) BY <1>6, Numbering
  <1>8. PICK q \in Seq(Messages) : q = Kept(s) /\ Hides(q, s)
    <2>1. PICK q \in Seq(Messages) :
            q = [n \in DOMAIN s |-> IF n \in DOMAIN s THEN Hidden(s[n]) ELSE s[n]] /\ Hides(q, s)
      BY Hiding
    <2>2. q = Kept(s) BY <2>1 DEF Kept, MapSeq
    <2> QED BY <2>1, <2>2
  <1>9. PICK r \in Seq(Messages) : Joins(r, q, t) BY Joining
  <1>10. r = Compacted(s)
    <2>1. Compacted(s) = Kept(s) \o Numbered(<<N("user"), N("assistant")>> \o copy)
      BY DEF Compacted, its
    <2> HIDE DEF N, copy
    <2> QED BY <1>1, <1>2, <1>3, <1>4, <1>5, <1>7, <1>8, <1>9, <2>1 DEF IsNumbered, Joins
  <1>11. Carries(r, s) BY <1>8, <1>9, HidingKeeps DEF Joins, Carries
  <1>12. Speaks(t[1]) /\ 1 \in DOMAIN t
    <2>1. Message(t[1], e[1].role, e[1].items, e[1].created) /\ 1 \in DOMAIN t
      BY <1>5, <1>7 DEF IsNumbered
    <2>2. IsWord(Text("text")) BY DEF IsWord, Text
    <2> QED BY <1>0, <1>1, <1>5, <2>1, <2>2 DEF Speaks, Message
  <1>13. PICK n \in DOMAIN r : r[n] = t[1] BY <1>9, <1>12 DEF Joins, Has
  <1>14. SummaryOf(r, s, t)
    <2>1. Len(t) = Len(e) /\ DOMAIN t = 1 .. Len(t) /\ NewIds(t) BY <1>7 DEF IsNumbered
    <2>2. \A j \in 1 .. Len(t) : t[j] \in SummaryRows
      <3> SUFFICES ASSUME NEW j \in 1 .. Len(t) PROVE t[j] \in SummaryRows OBVIOUS
      <3>1. PICK m \in V : m = e[j] BY <2>1
      <3>2. Message(t[j], m.role, m.items, m.created) BY <1>7, <2>1, <3>1 DEF IsNumbered
      <3> QED BY <3>2 DEF Message, SummaryRows
    <2>3. t \in Seq(SummaryRows)
      <3> HIDE DEF SummaryRows
      <3> QED BY <2>2, SeqWithin
    <2>4. 1 \in DOMAIN t /\ t[1].role = "user" BY <1>12 DEF Speaks
    <2>5. r = Kept(s) \o t BY <1>8, <1>9 DEF Joins
    <2> QED BY <2>1, <2>3, <2>4, <2>5 DEF SummaryOf
  <1> QED BY <1>10, <1>11, <1>12, <1>13, <1>14 DEF Compacts

LEMMA ToSummarizeType == ASSUME NEW s \in Seq(Messages) PROVE ToSummarize(s) \in Nat
PROOF
  <1> DEFINE R(m) == RequestsOf(m)
             F == [n \in DOMAIN s |-> RequestsOf(s[n])]
  <1>1. Len(s) \in Nat /\ DOMAIN s = 1 .. Len(s) OBVIOUS
  <1>2. ASSUME NEW n \in 1 .. Len(s) PROVE RequestsOf(s[n]) \in Seq(Content)
    <2>1. PICK m \in Messages : m = s[n] BY <1>2
    <2>2. m.items \in Seq(Content) BY DEF Messages
    <2>3. Picked(m.items, {k \in DOMAIN m.items : m.items[k].kind = "request"}) \in Seq(Content)
      BY <2>2, PickedPlaces
    <2>4. <<>> \in Seq(Content) OBVIOUS
    <2> QED BY <2>1, <2>3, <2>4 DEF RequestsOf, Keep
  <1>3. F \in [1 .. Len(s) -> Seq(Content)] BY <1>1, <1>2
  <1>4. MapSeq(RequestsOf, s) = F BY DEF MapSeq
  <1> HIDE DEF F
  <1>5. PICK r \in Seq(Content) : Flat(r, F, Len(s)) BY <1>1, <1>3, Flattened
  <1>6. ToSummarize(s) = IF Len(r) > Cutoff THEN Head(r).id ELSE NoId
    BY <1>4, <1>5 DEF ToSummarize, Flat
  <1>7. Cutoff \in Nat BY Bounds
  <1>8. ASSUME Len(r) > Cutoff PROVE Head(r).id \in Nat
    <2>1. Head(r) \in Content BY <1>7, <1>8
    <2> QED BY <2>1 DEF Content
  <1> QED BY <1>6, <1>8 DEF NoId

\* The messages that record each call of the response at hand
Recording(parsed, answered) ==
  [k \in DOMAIN batch |->
     IF batch[k] \in parsed THEN Pair(batch[k], answered)
     ELSE <<New("user", <<Text("text")>>, clock)>>]

LEMMA RecordingType ==
  ASSUME batch \in Seq(Nat), born \in 1 .. MaxClock, clock \in 1 .. MaxClock,
         NEW parsed, NEW answered, NEW thought \in Thoughts
  PROVE  /\ thought \in Seq(Seen(Messages))
         /\ Recording(parsed, answered) \in [1 .. Len(batch) -> Seq(Seen(Messages))]
PROOF
  <1> DEFINE V == Seen(Messages)
             F == Recording(parsed, answered)
  <1>1. ASSUME NEW role \in {"user", "assistant"}, NEW its \in Seq(Content), NEW created \in 1 .. MaxClock
        PROVE  New(role, its, created) \in V
    <2>1. PICK m \in Messages : m = New(role, its, created) /\ Message(m, role, its, created)
      BY NewMessage
    <2> QED BY <2>1 DEF Seen, Message
  <1>2. \A i \in Nat : /\ <<Request(i)>> \in Seq(Content) /\ <<Response(i)>> \in Seq(Content)
                       /\ <<Thinking>> \in Seq(Content) /\ <<Text("text")>> \in Seq(Content)
    BY ItemTypes, OneItem
  <1>3. <<>> \in Seq(Content) /\ <<>> \in Seq(V) /\ 0 \in Nat OBVIOUS
  <1>4. \A m \in V : <<m>> \in Seq(V) OBVIOUS
  <1>5. PICK t \in Seq(V) : t = thought
    <2>1. New("assistant", <<Thinking>>, born) \in V BY <1>1, <1>2, <1>3
    <2>2. <<New("assistant", <<Thinking>>, born)>> \in Seq(V) BY <1>4, <2>1
    <2> QED BY <1>3, <2>2 DEF Thoughts
  <1>6. ASSUME NEW i \in Nat PROVE Pair(i, answered) \in Seq(V)
    <2>1. PICK a \in V : a = New("assistant", <<Request(i)>>, clock) BY <1>1, <1>2
    <2>2. PICK its \in Seq(Content) : its = IF i \in answered THEN <<Response(i)>> ELSE <<>>
      BY <1>2, <1>3
    <2>3. PICK b \in V : b = Answered(i, answered) BY <1>1, <2>2 DEF Answered
    <2>4. <<a, b>> \in Seq(V) OBVIOUS
    <2> QED BY <2>1, <2>3, <2>4 DEF Pair
  <1>7. PICK w \in Seq(V) : w = <<New("user", <<Text("text")>>, clock)>>
    <2>1. New("user", <<Text("text")>>, clock) \in V BY <1>1, <1>2, <1>3
    <2> QED BY <1>4, <2>1
  <1>8. DOMAIN batch = 1 .. Len(batch) /\ Len(batch) \in Nat OBVIOUS
  <1>9. \A k \in 1 .. Len(batch) : F[k] \in Seq(V)
    <2> SUFFICES ASSUME NEW k \in 1 .. Len(batch) PROVE F[k] \in Seq(V) OBVIOUS
    <2>1. batch[k] \in Nat OBVIOUS
    <2>2. F[k] = IF batch[k] \in parsed THEN Pair(batch[k], answered) ELSE w
      BY <1>7, <1>8 DEF Recording
    <2> HIDE DEF F, V
    <2> QED BY <1>6, <2>1, <2>2
  <1>10. F \in [1 .. Len(batch) -> Seq(V)]
    <2>1. F = [k \in 1 .. Len(batch) |-> F[k]] BY <1>8 DEF Recording
    <2> HIDE DEF V, F
    <2> QED BY <1>9, <2>1
  <1> QED BY <1>5, <1>10

LEMMA RecordsType ==
  ASSUME batch \in Seq(Nat), born \in 1 .. MaxClock, clock \in 1 .. MaxClock,
         NEW parsed, NEW answered, NEW thought \in Thoughts
  PROVE  \E e \in Seq(Seen(Messages)) : e = thought \o Records(parsed, answered)
PROOF
  <1>1. PICK V : V = Seen(Messages) OBVIOUS
  <1>2. PICK F : F = Recording(parsed, answered) OBVIOUS
  <1>3. Len(batch) \in Nat /\ F \in [1 .. Len(batch) -> Seq(V)] /\ thought \in Seq(V)
    BY <1>1, <1>2, RecordingType
  <1>4. PICK r \in Seq(V) : Flat(r, F, Len(batch)) BY <1>3, Flattened
  <1>5. r = Records(parsed, answered) BY <1>2, <1>4 DEF Flat, Records, Recording
  <1>6. thought \o r \in Seq(V) BY <1>3, ConcatPlaces
  <1> QED BY <1>1, <1>5, <1>6
-----------------------------------------------------------------------------
(***************************************************************************)
(* What each step does to the two conversations.                           *)
(***************************************************************************)
Effect ==
  /\ Carries(stored', stored) \/ (pc # "idle" /\ Carries(stored', memory))
  /\ \/ pc' = "idle"
     \/ pc # "idle" /\ Carries(memory', memory)
     \/ Carries(memory', stored')
  /\ \/ prompts' = prompts
     \/ /\ prompts' = prompts + 1 /\ UserHas(stored', Prompt(prompts'))
        /\ Carries(stored', stored) /\ Carries(memory', stored')
  /\ Mids(memory) \subseteq Mids(stored) => Mids(memory') \subseteq Mids(stored')

Clocks == clock \in 1 .. MaxClock /\ (pc = "tools" => born \in 1 .. MaxClock) /\ batch \in Seq(Nat)

LEMMA CarriesSelf == \A s : Carries(s, s) BY DEF Carries

LEMMA StartReplyEffect ==
  ASSUME Talks, Clocks, prompts \in Nat, StartReply PROVE Talks' /\ Effect
PROOF
  <1>1. PICK p \in Nat : p = prompts + 1 /\ p = prompts' BY DEF StartReply
  <1>2. <<Prompt(p)>> \in Seq(Content) /\ Has(<<Prompt(p)>>, Prompt(p)) BY ItemTypes, OneItem
  <1>3. PICK its \in Seq(Content) : its = <<Prompt(p)>> BY <1>2
  <1>4. PICK t \in Seq(Messages) :
          t = Numbered(<<New("user", its, clock)>>) /\ 1 \in DOMAIN t /\ Message(t[1], "user", its, clock)
    BY NumberedOne DEF Clocks
  <1>5. PICK s \in Seq(Messages) : Joins(s, stored, t) BY Joining DEF Talks
  <1>6. stored' = s BY <1>1, <1>3, <1>4, <1>5 DEF StartReply, Joins
  <1>7. IsWord(Prompt(p)) BY DEF IsWord, Prompt
  <1>8. UserSays(t, Prompt(p), 1) BY <1>2, <1>3, <1>4 DEF UserSays, Message
  <1>9. UserHas(s, Prompt(p)) BY <1>5, <1>7, <1>8 DEF Joins, Carries, UserHas
  <1>10. PICK r \in Seq(Messages) : r = Reload(s) /\ SameMessages(r, s) BY Reloaded
  <1>11. Carries(r, s) /\ Mids(r) = Mids(s) BY <1>10, SameCarries
  <1>12. PICK n \in DOMAIN r : Speaks(r[n])
    <2>1. Has(s, t[1]) BY <1>4, <1>5 DEF Joins
    <2>2. PICK k \in DOMAIN s : s[k] = t[1] BY <2>1 DEF Has
    <2>3. PICK n \in DOMAIN r : r[n] = s[k] BY <1>10 DEF SameMessages, Has
    <2>4. Speaks(t[1]) BY <1>2, <1>3, <1>4, <1>7 DEF Speaks, Message
    <2> QED BY <2>2, <2>3, <2>4
  <1>13. Fixed(r) \in Seq(Messages) /\ Mids(Fixed(r)) \subseteq Mids(r) /\ Carries(Fixed(r), r)
    BY <1>12, FixedRows
  <1>14. memory' \in Seq(Messages) /\ Mids(memory') \subseteq Mids(s) /\ Carries(memory', s)
    <2>1. memory' = r \/ memory' = Fixed(r) BY <1>6, <1>10 DEF StartReply
    <2>2. Carries(Fixed(r), s) BY <1>11, <1>13 DEF Carries
    <2> QED BY <1>11, <1>13, <2>1, <2>2
  <1>15. Talks' BY <1>6, <1>14 DEF Talks, StartReply
  <1>16. Carries(stored', stored) BY <1>5, <1>6 DEF Joins
  <1> QED BY <1>1, <1>6, <1>9, <1>14, <1>15, <1>16 DEF Effect

LEMMA AutoCompactEffect ==
  ASSUME Talks, Clocks, AutoCompact PROVE Talks' /\ Effect
PROOF
  <1>1. PICK r \in Seq(Messages) : Compacts(r, memory) BY Compacting DEF Talks, Clocks
  <1>2. stored' = r /\ memory' = Fixed(r) BY <1>1 DEF AutoCompact, Replace, Compacts
  <1>3. Fixed(r) \in Seq(Messages) /\ Mids(Fixed(r)) \subseteq Mids(r) /\ Carries(Fixed(r), r)
    BY <1>1, FixedRows DEF Compacts
  <1>4. Talks' BY <1>2, <1>3 DEF Talks, AutoCompact
  <1>5. Carries(stored', memory) /\ Carries(memory', stored') BY <1>1, <1>2, <1>3 DEF Compacts
  <1> QED BY <1>2, <1>3, <1>4, <1>5 DEF Effect, AutoCompact, count

LEMMA OverflowEffect ==
  ASSUME Talks, Clocks, Overflow PROVE Talks' /\ Effect
PROOF
  <1>1. CASE Replace /\ memory' = stored'
    <2>1. PICK r \in Seq(Messages) : Compacts(r, memory) BY Compacting DEF Talks, Clocks
    <2>2. stored' = r /\ memory' = r BY <1>1, <2>1 DEF Replace, Compacts
    <2>3. Talks' BY <2>2 DEF Talks, Overflow
    <2>4. Carries(stored', memory) /\ Carries(memory', stored') BY <2>1, <2>2, CarriesSelf DEF Compacts
    <2> QED BY <2>2, <2>3, <2>4 DEF Effect, Overflow, Item
  <1>2. CASE UNCHANGED <<memory, stored>>
    BY <1>2, CarriesSelf DEF Effect, Overflow, Item, Talks
  <1> QED BY <1>1, <1>2 DEF Overflow

\* A message more in the store
LEMMA StoredGrows ==
  ASSUME Talks, NEW t \in Seq(Messages), stored' = stored \o t, UNCHANGED <<pc, memory, adding, prompts>>
  PROVE  Talks' /\ Effect
PROOF
  <1>1. PICK s \in Seq(Messages) : Joins(s, stored, t) BY Joining DEF Talks
  <1>2. stored' = s /\ Carries(s, stored) /\ Mids(stored) \subseteq Mids(s) BY <1>1 DEF Joins
  <1> QED BY <1>2, CarriesSelf DEF Talks, Effect

LEMMA AskingEffect ==
  ASSUME Talks, Clocks, Elicit \/ Answer PROVE Talks' /\ Effect
PROOF
  <1>1. <<Elicitation>> \in Seq(Content)
    <2>1. 0 \in Nat OBVIOUS
    <2> QED BY <2>1, ItemTypes, OneItem
  <1>2. PICK t \in Seq(Messages) : t = Numbered(<<New("assistant", <<Elicitation>>, clock)>>)
    BY <1>1, NumberedOne DEF Clocks
  <1>3. PICK u \in Seq(Messages) : u = Numbered(<<New("user", <<Elicitation>>, clock)>>)
    BY <1>1, NumberedOne DEF Clocks
  <1>4. CASE Elicit
    <2>1. stored' = stored \o t /\ UNCHANGED <<pc, memory, adding, prompts>>
      BY <1>2, <1>4 DEF Elicit
    <2> QED BY <2>1, StoredGrows
  <1>5. CASE Answer
    <2>1. stored' = stored \o u /\ UNCHANGED <<pc, memory, adding, prompts>>
      BY <1>3, <1>5 DEF Answer, count
    <2> QED BY <2>1, StoredGrows
  <1> QED BY <1>4, <1>5

LEMMA SaveMessageEffect ==
  ASSUME Talks, SaveMessage PROVE Talks' /\ Effect
PROOF
  <1> DEFINE c == Cardinality(Saved)
  <1>1. Len(adding) \in Nat /\ DOMAIN adding = 1 .. Len(adding) BY DEF Talks
  <1>2. IsFiniteSet(1 .. Len(adding)) /\ Cardinality(1 .. Len(adding)) = Len(adding)
    <2>1. PICK l \in Nat : l = Len(adding) BY <1>1
    <2>2. 1 \in Int /\ l \in Int BY <2>1
    <2>3. IsFiniteSet(1 .. l) /\ Cardinality(1 .. l) = IF 1 > l THEN 0 ELSE l - 1 + 1
      BY <2>2, FS_Interval
    <2>4. l - 1 + 1 = l /\ (1 > l => l = 0) OBVIOUS
    <2> QED BY <2>1, <2>3, <2>4
  <1>3. Saved \in SUBSET (1 .. Len(adding)) /\ Saved # 1 .. Len(adding) BY <1>1 DEF Saved, SaveMessage
  <1>4. IsFiniteSet(Saved) /\ c <= Len(adding) /\ c # Len(adding) BY <1>2, <1>3, FS_Subset
  <1>5. c \in Nat BY <1>4, FS_CardinalityType
  <1>6. c + 1 \in 1 .. Len(adding) BY <1>1, <1>4, <1>5
  <1>7. PICK m \in Messages : m = adding[c + 1] BY <1>1, <1>6 DEF Talks
  <1>8. <<m>> \in Seq(Messages) /\ Append(stored, m) = stored \o <<m>> BY DEF Talks
  <1>9. stored' = stored \o <<m>> /\ UNCHANGED <<pc, memory, adding, prompts>>
    BY <1>7, <1>8 DEF SaveMessage, count
  <1> QED BY <1>8, <1>9, StoredGrows

LEMMA SummarizeEffect ==
  ASSUME Talks, Summarize, pc # "idle"
  PROVE  memory' \in Seq(Messages) /\ UNCHANGED stored /\ Effect
PROOF
  <1> DEFINE K == {n \in DOMAIN memory : Mentions(memory[n], task)}
  <1>1. PICK r \in Seq(Messages) :
          r = [n \in DOMAIN memory |-> IF n \in K THEN Hidden(memory[n]) ELSE memory[n]] /\ Hides(r, memory)
    <2> HIDE DEF K
    <2> QED BY Hiding DEF Talks
  <1>2. memory' = [n \in DOMAIN memory |->
                     IF Mentions(memory[n], task) THEN Hidden(memory[n]) ELSE memory[n]]
    BY DEF Summarize, MapSeq
  <1>3. memory' = r BY <1>1, <1>2
  <1>4. Carries(r, memory) /\ Mids(r) = Mids(memory) BY <1>1, HidingKeeps
  <1> QED BY <1>3, <1>4, CarriesSelf DEF Effect, Summarize, count

LEMMA HideStoredEffect ==
  ASSUME Talks, HideStored PROVE Talks' /\ Effect
PROOF
  <1> DEFINE K == {n \in DOMAIN stored : stored[n].mid = Head(toHide)}
  <1>1. PICK r \in Seq(Messages) :
          r = [n \in DOMAIN stored |-> IF n \in K THEN Hidden(stored[n]) ELSE stored[n]] /\ Hides(r, stored)
    <2> HIDE DEF K
    <2> QED BY Hiding DEF Talks
  <1>2. stored' = [n \in DOMAIN stored |->
                     IF stored[n].mid = Head(toHide) THEN Hidden(stored[n]) ELSE stored[n]]
    BY DEF HideStored, MapSeq
  <1>3. stored' = r BY <1>1, <1>2
  <1>4. Carries(r, stored) /\ Mids(r) = Mids(stored) BY <1>1, HidingKeeps
  <1> QED BY <1>3, <1>4, CarriesSelf DEF Effect, HideStored, count, Talks

LEMMA TurnEndsEffect ==
  ASSUME Talks, TurnEnds PROVE Talks' /\ Effect
PROOF
  <1>1. UNCHANGED <<stored, prompts>> /\ pc # "idle" BY DEF TurnEnds
  <1>2. CASE exit /\ Gone
    BY <1>1, <1>2, CarriesSelf DEF Effect, Talks, Gone, Mids
  <1>3. CASE memory' = memory \o adding /\ adding' = <<>>
    <2>1. PICK r \in Seq(Messages) : Joins(r, memory, adding) BY Joining DEF Talks
    <2>2. memory' = r /\ Carries(r, memory) /\ Mids(r) = Mids(memory) \cup Mids(adding)
      BY <1>3, <2>1 DEF Joins
    <2>3. Mids(adding) \subseteq Mids(stored)
      <3> SUFFICES ASSUME NEW n \in DOMAIN adding PROVE adding[n].mid \in Mids(stored) BY DEF Mids
      <3>1. n \in Saved BY DEF TurnEnds
      <3> QED BY <3>1 DEF Saved
    <2> QED BY <1>1, <1>3, <2>2, <2>3, CarriesSelf DEF Effect, Talks
  <1> QED BY <1>2, <1>3 DEF TurnEnds
-----------------------------------------------------------------------------
(***************************************************************************)
(* The types of a reply.  The turns taken bound the compactions tried, and *)
(* a turn that is under way leaves room for one more.                      *)
(***************************************************************************)
Flags == {noTools, recovered, exit, retry, cancelled, asked} \subseteq BOOLEAN

Counted == {calls, prompts, items, compactions, elicits} \subseteq Nat

Hand == batch \in Seq(1 .. MaxCalls) /\ born \in 0 .. MaxClock /\ (pc = "tools" => born # 0)

Taken ==
  /\ turns \in 0 .. MaxTurns /\ overflows \in 0 .. MaxTurns
  /\ overflows <= turns
  /\ pc \in {"stream", "tools"} => overflows < turns

Where == pc \in {"idle", "compact", "top", "stream", "tools", "post", "locked", "summarize", "save"}

Rest ==
  /\ Where /\ Flags /\ Counted /\ Hand /\ Taken
  /\ final \in {"absent", "unset", "set"} /\ clock \in 1 .. MaxClock
  /\ task \in Nat

LoopType == Talks /\ Rest /\ toHide \in Seq(Nat)

LEMMA LoopTypeOK == LoopType => TypeOK /\ Clocks
PROOF
  <1> SUFFICES ASSUME LoopType PROVE TypeOK /\ Clocks OBVIOUS
  <1>1. MaxClock \in Nat /\ MaxCalls \in Nat BY Bounds
  <1>2. \A s \in Seq(1 .. MaxCalls) : s \in Seq(Nat)
    <2> SUFFICES ASSUME NEW s \in Seq(1 .. MaxCalls) PROVE s \in Seq(Nat) OBVIOUS
    <2>1. \A k \in 1 .. Len(s) : s[k] \in Nat BY <1>1
    <2> QED BY <2>1
  <1>3. Clocks BY <1>1, <1>2 DEF LoopType, Rest, Hand, Clocks
  <1> QED BY <1>3 DEF LoopType, Rest, Talks, Where, Flags, Counted, Hand, Taken, TypeOK

LEMMA BoundTypes ==
  /\ MaxTurns \in Nat /\ MaxCalls \in Nat /\ MaxClock \in Nat \ {0} /\ MaxPrompts \in Nat
PROOF BY Bounds

LEMMA LoopInit == Init => LoopType
PROOF
  <1> SUFFICES ASSUME Init PROVE LoopType OBVIOUS
  <1> USE DEF Init
  <1>1. Talks BY DEF Talks
  <1>2. Where /\ Taken /\ Hand BY BoundTypes DEF Where, Taken, Hand
  <1>3. retry \in BOOLEAN /\ final \in {"absent", "unset", "set"} BY Bounds
  <1>4. Flags BY <1>3 DEF Flags
  <1>5. Counted BY DEF Counted
  <1>6. clock \in 1 .. MaxClock /\ task \in Nat /\ toHide \in Seq(Nat) BY BoundTypes DEF NoId
  <1> QED BY <1>1, <1>2, <1>3, <1>4, <1>5, <1>6 DEF LoopType, Rest

\* A reply that is over
LEMMA GoneType ==
  ASSUME LoopType, Gone, stored' = stored,
         UNCHANGED <<asked, session, calls, prompts, compactions, elicits, clock>>
  PROVE  LoopType' /\ Effect
PROOF
  <1> USE DEF LoopType, Rest, Gone
  <1>1. Talks' BY DEF Talks
  <1>2. Where' /\ Taken' /\ Hand' BY BoundTypes DEF Where, Taken, Hand
  <1>3. Flags' BY DEF Flags, session
  <1>4. Counted' BY DEF Counted
  <1>5. final' \in {"absent", "unset", "set"} /\ clock' \in 1 .. MaxClock BY DEF session
  <1>6. task' \in Nat /\ toHide' \in Seq(Nat) BY DEF NoId
  <1>7. Effect BY CarriesSelf DEF Effect, Mids
  <1> QED BY <1>1, <1>2, <1>3, <1>4, <1>5, <1>6, <1>7

\* Steps that leave both conversations and what was asked as they are
LEMMA QuietEffect ==
  ASSUME UNCHANGED <<memory, stored, prompts>>, pc # "idle" \/ pc' = "idle"
  PROVE  Effect
PROOF BY CarriesSelf DEF Effect

LEMMA EntryType ==
  ASSUME LoopType, StartReply \/ AutoCompact \/ StartTurn \/ Leave \/ AutoCompactFails \/ Drop
  PROVE  LoopType' /\ Effect
PROOF
  <1> USE DEF LoopType
  <1>1. CASE StartReply
    <2>1. Talks' /\ Effect BY <1>1, LoopTypeOK, StartReplyEffect DEF Rest, Counted
    <2>2. Rest' /\ toHide' \in Seq(Nat)
      <3> USE <1>1 DEF StartReply, turn, call, summary, session, Rest
      <3>1. Where' /\ Flags' BY DEF Where, Flags
      <3>2. Counted' BY DEF Counted
      <3>3. Hand' /\ Taken' BY DEF Hand, Taken
      <3> QED BY <3>1, <3>2, <3>3
    <2> QED BY <2>1, <2>2
  <1>2. CASE AutoCompact
    <2>1. Talks' /\ Effect BY <1>2, LoopTypeOK, AutoCompactEffect
    <2>2. Rest' /\ toHide' \in Seq(Nat)
      <3> USE <1>2 DEF AutoCompact, Replace, turn, call, summary, session, Rest
      <3>1. Where' /\ Flags' BY DEF Where, Flags
      <3>2. Counted' BY DEF Counted
      <3>3. Hand' /\ Taken' BY DEF Hand, Taken
      <3> QED BY <3>1, <3>2, <3>3
    <2> QED BY <2>1, <2>2
  <1>3. CASE StartTurn
    <2>1. Talks' BY <1>3 DEF StartTurn, Talks
    <2>2. Effect BY <1>3, QuietEffect DEF StartTurn
    <2>3. task' \in Nat BY <1>3, ToSummarizeType DEF StartTurn, Talks
    <2>4. Rest' /\ toHide' \in Seq(Nat)
      <3> USE <1>3 DEF StartTurn, call, session, Rest
      <3>1. Where' /\ Flags' BY DEF Where, Flags
      <3>2. Counted' BY DEF Counted
      <3>3. Hand' BY DEF Hand
      <3>4. Taken' BY BoundTypes DEF Taken, Stops
      <3> QED BY <2>3, <3>1, <3>2, <3>3, <3>4
    <2> QED BY <2>1, <2>2, <2>4
  <1>4. CASE Leave \/ AutoCompactFails \/ Drop
    BY <1>4, GoneType DEF Leave, AutoCompactFails, Drop
  <1> QED BY <1>1, <1>2, <1>3, <1>4

\* A message more among those of the turn
LEMMA Pushing ==
  ASSUME LoopType, NEW role \in {"user", "assistant"}, NEW created \in 1 .. MaxClock,
         Add(role, created)
  PROVE  adding' \in Seq(Messages)
PROOF
  <1>1. <<Text("text")>> \in Seq(Content)
    <2>1. 0 \in Nat OBVIOUS
    <2> QED BY <2>1, ItemTypes, OneItem
  <1>2. PICK t \in Seq(Messages) : t = Numbered(<<New(role, <<Text("text")>>, created)>>)
    BY <1>1, NumberedOne DEF LoopType
  <1>3. PICK r \in Seq(Messages) : Joins(r, adding, t) BY Joining DEF LoopType, Talks
  <1> QED BY <1>2, <1>3 DEF Add, Joins

LEMMA StreamType ==
  ASSUME LoopType,
         SayText \/ CallTools \/ Overflow \/ OverflowAgain \/ StreamEnds \/ Elicit \/ Answer
  PROVE  LoopType' /\ Effect
PROOF
  <1> USE DEF LoopType
  <1>1. CASE SayText
    <2>1. Talks' BY <1>1, Pushing DEF SayText, Talks, Rest
    <2>2. Effect BY <1>1, QuietEffect DEF SayText, Item
    <2>3. Rest' /\ toHide' \in Seq(Nat)
      <3> USE <1>1 DEF SayText, Item, call, summary, session, Rest
      <3>1. Where' /\ Flags' BY DEF Where, Flags
      <3>2. Counted' BY DEF Counted
      <3>3. Hand' /\ Taken' BY BoundTypes DEF Hand, Taken
      <3> QED BY <3>1, <3>2, <3>3
    <2> QED BY <2>1, <2>2, <2>3
  <1>2. CASE CallTools
    <2>1. Talks' BY <1>2 DEF CallTools, Talks
    <2>2. Effect BY <1>2, QuietEffect DEF CallTools, Item
    <2>3. PICK n \in 1 .. MaxCalls - calls : batch' = [k \in 1 .. n |-> calls + k] /\ calls' = calls + n
      BY <1>2 DEF CallTools
    <2>4. calls \in Nat /\ MaxCalls \in Nat BY BoundTypes DEF Rest, Counted
    <2>5. n \in Nat /\ \A k \in 1 .. n : calls + k \in 1 .. MaxCalls BY <2>4
    <2>6. batch' \in Seq(1 .. MaxCalls) BY <2>3, <2>5
    <2>7. calls' \in Nat BY <2>3, <2>4, <2>5
    <2>8. Rest' /\ toHide' \in Seq(Nat)
      <3> USE <1>2 DEF CallTools, Item, summary, session, Rest
      <3>1. Where' /\ Flags' BY DEF Where, Flags
      <3>2. Counted' BY <2>7 DEF Counted
      <3>3. Hand' BY <2>6, BoundTypes DEF Hand
      <3>4. Taken' BY BoundTypes DEF Taken
      <3> QED BY <3>1, <3>2, <3>3, <3>4
    <2> QED BY <2>1, <2>2, <2>8
  <1>3. CASE Overflow
    <2>1. Talks' /\ Effect BY <1>3, LoopTypeOK, OverflowEffect
    <2>2. Rest' /\ toHide' \in Seq(Nat)
      <3> USE <1>3 DEF Overflow, Replace, Item, call, summary, session, Rest
      <3>1. Where' /\ Flags' BY DEF Where, Flags
      <3>2. Counted' BY DEF Counted
      <3>3. Hand' BY DEF Hand
      <3>4. Taken' BY BoundTypes DEF Taken
      <3> QED BY <3>1, <3>2, <3>3, <3>4
    <2> QED BY <2>1, <2>2
  <1>4. CASE OverflowAgain
    <2>1. Talks' BY <1>4 DEF OverflowAgain, Talks
    <2>2. Effect BY <1>4, QuietEffect DEF OverflowAgain, Item
    <2>3. Rest' /\ toHide' \in Seq(Nat)
      <3> USE <1>4 DEF OverflowAgain, Item, call, summary, session, Rest
      <3>1. Where' /\ Flags' BY DEF Where, Flags
      <3>2. Counted' BY DEF Counted
      <3>3. Hand' BY DEF Hand
      <3>4. Taken' BY BoundTypes DEF Taken
      <3> QED BY <3>1, <3>2, <3>3, <3>4
    <2> QED BY <2>1, <2>2, <2>3
  <1>5. CASE StreamEnds
    <2>1. Talks' BY <1>5 DEF StreamEnds, Talks
    <2>2. Effect BY <1>5, QuietEffect DEF StreamEnds, count
    <2>3. Rest' /\ toHide' \in Seq(Nat)
      <3> USE <1>5 DEF StreamEnds, turn, call, summary, session, count, Rest
      <3>1. Where' /\ Flags' BY DEF Where, Flags
      <3>2. Counted' BY DEF Counted
      <3>3. Hand' /\ Taken' BY DEF Hand, Taken
      <3> QED BY <3>1, <3>2, <3>3
    <2> QED BY <2>1, <2>2, <2>3
  <1>6. CASE Elicit \/ Answer
    <2>1. Talks' /\ Effect BY <1>6, LoopTypeOK, AskingEffect
    <2>2. Rest' /\ toHide' \in Seq(Nat)
      <3> USE <1>6 DEF Elicit, Answer, turn, summary, session, count, Rest
      <3>1. Where' /\ Flags' BY DEF Where, Flags
      <3>2. Counted' BY DEF Counted
      <3>3. Hand' /\ Taken' BY DEF Hand, Taken
      <3> QED BY <3>1, <3>2, <3>3
    <2> QED BY <2>1, <2>2
  <1> QED BY <1>1, <1>2, <1>3, <1>4, <1>5, <1>6

\* The two messages of a call are rows of the memory
LEMMA MatchingType ==
  ASSUME LoopType PROVE Matching \in Seq(Messages)
PROOF
  <1>1. Picked(memory, {n \in DOMAIN memory : Mentions(memory[n], task)}) \in Seq(Messages)
    BY PickedPlaces DEF LoopType, Talks
  <1> QED BY <1>1 DEF Matching, Keep

LEMMA SummarizeType ==
  ASSUME LoopType, Summarize PROVE LoopType' /\ Effect
PROOF
  <1>1. PICK p \in Seq(Messages) : p = Matching BY MatchingType
  <1>2. Len(p) = 2 /\ toHide' = MapSeq(LAMBDA msg : msg.mid, p) /\ Add("user", Last(p).created)
    BY <1>1 DEF Summarize
  <1>3. p[1] \in Messages /\ p[2] \in Messages /\ DOMAIN p = 1 .. 2 /\ p # <<>> BY <1>2
  <1>4. toHide' = [n \in 1 .. 2 |-> p[n].mid] BY <1>2, <1>3 DEF MapSeq
  <1>5. \A n \in 1 .. 2 : p[n].mid \in Nat
    <2> SUFFICES ASSUME NEW n \in 1 .. 2 PROVE p[n].mid \in Nat OBVIOUS
    <2>1. p[n] \in Messages BY <1>3
    <2> QED BY <2>1 DEF Messages
  <1>6. toHide' \in Seq(Nat) BY <1>4, <1>5
  <1>7. Last(p) \in Messages BY <1>3, LastType
  <1>8. PICK t \in 1 .. MaxClock : t = Last(p).created BY <1>7 DEF Messages
  <1>9. adding' \in Seq(Messages) BY <1>2, <1>8, Pushing
  <1>10. memory' \in Seq(Messages) /\ UNCHANGED stored /\ Effect
    BY SummarizeEffect DEF LoopType, Summarize
  <1>11. Talks' BY <1>9, <1>10 DEF LoopType, Talks
  <1>12. Rest'
    <2> USE DEF Summarize, LoopType, turn, call, session, count, Rest
    <2>1. Where' /\ Flags' BY DEF Where, Flags
    <2>2. Counted' BY DEF Counted
    <2>3. Hand' /\ Taken' BY DEF Hand, Taken
    <2> QED BY <2>1, <2>2, <2>3
  <1> QED BY <1>6, <1>10, <1>11, <1>12 DEF LoopType

LEMMA ToolsDoneType ==
  ASSUME LoopType, ToolsDone PROVE LoopType' /\ Effect
PROOF
  <1>1. PICK parsed \in SUBSET Range(batch), thought \in Thoughts :
          \E answered \in SUBSET parsed :
            adding' = adding \o Numbered(thought \o Records(parsed, answered))
    BY DEF ToolsDone
  <1>2. PICK answered : adding' = adding \o Numbered(thought \o Records(parsed, answered)) BY <1>1
  <1>3. batch \in Seq(Nat) /\ born \in 1 .. MaxClock /\ clock \in 1 .. MaxClock
    BY LoopTypeOK DEF Clocks, ToolsDone
  <1>4. PICK e \in Seq(Seen(Messages)) : e = thought \o Records(parsed, answered)
    BY <1>3, RecordsType
  <1>5. e \in Seq(Messages) /\ \A n \in 1 .. Len(e) : e[n].visible
    <2>1. \A n \in 1 .. Len(e) : e[n] \in Seen(Messages) OBVIOUS
    <2> QED BY <2>1 DEF Seen
  <1>6. PICK t \in Seq(Messages) : IsNumbered(t, e) BY <1>5, Numbering DEF LoopType
  <1>7. PICK r \in Seq(Messages) : Joins(r, adding, t) BY Joining DEF LoopType, Talks
  <1>8. adding' = r BY <1>2, <1>4, <1>6, <1>7 DEF IsNumbered, Joins
  <1>9. Talks' BY <1>8 DEF ToolsDone, LoopType, Talks
  <1>10. Effect BY QuietEffect DEF ToolsDone, count
  <1>11. Rest' /\ toHide' \in Seq(Nat)
    <2> USE DEF ToolsDone, LoopType, summary, count, Rest
    <2>1. Where' /\ Flags' BY DEF Where, Flags
    <2>2. Counted' BY DEF Counted
    <2>3. Hand' /\ Taken' BY BoundTypes DEF Hand, Taken
    <2>4. final' \in {"absent", "unset", "set"} OBVIOUS
    <2> QED BY <2>1, <2>2, <2>3, <2>4
  <1> QED BY <1>9, <1>10, <1>11 DEF LoopType

LEMMA AfterType ==
  ASSUME LoopType, AfterStream \/ ChecksPass \/ ChecksFail \/ NoSummary PROVE LoopType' /\ Effect
PROOF
  <1> USE DEF LoopType
  <1>1. CASE AfterStream
    <2>1. Talks'
      <3>1. adding' \in Seq(Messages)
        <4>1. clock \in 1 .. MaxClock BY DEF Rest
        <4>2. adding' = adding \/ Add("user", clock) \/ Add("assistant", clock)
          BY <1>1 DEF AfterStream
        <4> QED BY <4>1, <4>2, Pushing DEF Talks
      <3> QED BY <1>1, <3>1 DEF AfterStream, Talks
    <2>2. Effect BY <1>1, QuietEffect DEF AfterStream, count
    <2>3. Rest' /\ toHide' \in Seq(Nat)
      <3> USE <1>1 DEF AfterStream, call, summary, session, count, Rest
      <3>1. Where' BY DEF Where
      <3>2. Flags'
        <4>1. exit' = TRUE \/ exit' = exit OBVIOUS
        <4>2. exit' \in BOOLEAN BY <4>1 DEF Flags
        <4> QED BY <4>2 DEF Flags
      <3>3. Counted' BY DEF Counted
      <3>4. Hand' /\ Taken' BY DEF Hand, Taken
      <3> QED BY <3>1, <3>2, <3>3, <3>4
    <2> QED BY <2>1, <2>2, <2>3
  <1>2. CASE ChecksPass \/ ChecksFail \/ NoSummary
    <2>1. Talks' BY <1>2 DEF ChecksPass, ChecksFail, NoSummary, Talks
    <2>2. Effect BY <1>2, QuietEffect DEF ChecksPass, ChecksFail, NoSummary, count
    <2>3. Rest' /\ toHide' \in Seq(Nat)
      <3> USE <1>2 DEF ChecksPass, ChecksFail, NoSummary, turn, call, summary, session, count, Rest
      <3>1. Where' /\ Flags' BY DEF Where, Flags
      <3>2. Counted' BY DEF Counted
      <3>3. Hand' /\ Taken' BY DEF Hand, Taken
      <3> QED BY <3>1, <3>2, <3>3
    <2> QED BY <2>1, <2>2, <2>3
  <1> QED BY <1>1, <1>2

LEMMA SaveType ==
  ASSUME LoopType, HideStored \/ SaveMessage \/ TurnEnds PROVE LoopType' /\ Effect
PROOF
  <1> USE DEF LoopType
  <1>1. CASE HideStored
    <2>1. Talks' /\ Effect BY <1>1, HideStoredEffect
    <2>2. toHide' \in Seq(Nat) BY <1>1 DEF HideStored
    <2>3. Rest'
      <3> USE <1>1 DEF HideStored, turn, call, session, count, Rest
      <3>1. Where' /\ Flags' BY DEF Where, Flags
      <3>2. Counted' BY DEF Counted
      <3>3. Hand' /\ Taken' BY DEF Hand, Taken
      <3> QED BY <3>1, <3>2, <3>3
    <2> QED BY <2>1, <2>2, <2>3
  <1>2. CASE SaveMessage
    <2>1. Talks' /\ Effect BY <1>2, SaveMessageEffect
    <2>2. Rest' /\ toHide' \in Seq(Nat)
      <3> USE <1>2 DEF SaveMessage, turn, call, summary, session, count, Rest
      <3>1. Where' /\ Flags' BY DEF Where, Flags
      <3>2. Counted' BY DEF Counted
      <3>3. Hand' /\ Taken' BY DEF Hand, Taken
      <3> QED BY <3>1, <3>2, <3>3
    <2> QED BY <2>1, <2>2
  <1>3. CASE TurnEnds
    <2>1. CASE exit /\ Gone BY <1>3, <2>1, GoneType DEF TurnEnds
    <2>2. CASE ~(exit /\ Gone)
      <3>1. Talks' /\ Effect BY <1>3, TurnEndsEffect
      <3>2. pc' = "top" /\ UNCHANGED <<turn, batch, born, asked, summary, items, cancelled>>
        BY <1>3, <2>2 DEF TurnEnds
      <3>3. Rest' /\ toHide' \in Seq(Nat)
        <4> USE <1>3, <3>2 DEF TurnEnds, turn, call, summary, session, Rest
        <4>1. Where' /\ Flags' BY DEF Where, Flags
        <4>2. Counted' BY DEF Counted
        <4>3. Hand' /\ Taken' BY DEF Hand, Taken
        <4> QED BY <4>1, <4>2, <4>3
      <3> QED BY <3>1, <3>3
    <2> QED BY <2>1, <2>2
  <1> QED BY <1>1, <1>2, <1>3

LEMMA OutsideType ==
  ASSUME LoopType, Cancel \/ Tick PROVE LoopType' /\ Effect
PROOF
  <1> USE DEF LoopType
  <1>1. Talks' BY DEF Cancel, Tick, Talks
  <1>2. Effect BY QuietEffect DEF Cancel, Tick, count
  <1>3. Rest' /\ toHide' \in Seq(Nat)
    <2> USE DEF Cancel, Tick, turn, call, summary, session, count, Rest
    <2>1. Where' /\ Flags' BY DEF Where, Flags
    <2>2. Counted' BY DEF Counted
    <2>3. Hand' /\ Taken' BY DEF Hand, Taken
    <2>4. clock' \in 1 .. MaxClock BY BoundTypes
    <2> QED BY <2>1, <2>2, <2>3, <2>4
  <1> QED BY <1>1, <1>2, <1>3

LEMMA LoopNext == ASSUME LoopType, [Next]_vars PROVE LoopType' /\ Effect
PROOF
  <1>1. CASE UNCHANGED vars
    <2> USE <1>1 DEF LoopType, vars, turn, call, summary, session, count
    <2>1. Talks' BY DEF Talks
    <2>2. Effect BY QuietEffect
    <2>3. Rest' /\ toHide' \in Seq(Nat) BY DEF Rest, Where, Flags, Counted, Hand, Taken
    <2> QED BY <2>1, <2>2, <2>3
  <1>2. CASE Next
    <2>1. CASE StartReply \/ Drop BY <2>1, EntryType
    <2>2. CASE Elicit \/ Answer BY <2>2, StreamType
    <2>3. CASE Cancel \/ Tick BY <2>3, OutsideType
    <2>4. CASE Step
      <3>1. CASE AutoCompactFails \/ AutoCompact \/ Leave \/ StartTurn BY <3>1, EntryType
      <3>2. CASE SayText \/ CallTools \/ Overflow \/ OverflowAgain \/ StreamEnds BY <3>2, StreamType
      <3>3. CASE ToolsDone BY <3>3, ToolsDoneType
      <3>4. CASE AfterStream \/ ChecksPass \/ ChecksFail \/ NoSummary BY <3>4, AfterType
      <3>5. CASE Summarize BY <3>5, SummarizeType
      <3>6. CASE HideStored \/ SaveMessage \/ TurnEnds BY <3>6, SaveType
      <3> QED BY <2>4, <3>1, <3>2, <3>3, <3>4, <3>5, <3>6 DEF Step
    <2> QED BY <1>2, <2>1, <2>2, <2>3, <2>4 DEF Next
  <1> QED BY <1>1, <1>2

\* Every message of the memory, of the store and of the turn at hand is a
\* message, every counter is within its bounds, whatever order the steps of a
\* reply, its interruptions and the clock come in
THEOREM LoopTyped == Spec => []TypeOK
PROOF
  <1>1. LoopType /\ [Next]_vars => LoopType' BY LoopNext
  <1>2. LoopType => TypeOK BY LoopTypeOK
  <1> QED BY LoopInit, <1>1, <1>2, PTL DEF Spec

\* Every message of the memory has its row in the store, between two turns and
\* at every other time: a compaction replaces both, fixing merges messages into
\* a row there is, and what a turn adds is written before it joins the memory
THEOREM MemoryIsStored == Spec => []MemoryStored
PROOF
  <1> DEFINE Inv == LoopType /\ Mids(memory) \subseteq Mids(stored)
  <1>1. Init => Inv
    <2> SUFFICES ASSUME Init PROVE Inv OBVIOUS
    <2>1. LoopType BY LoopInit
    <2> QED BY <2>1 DEF Init, Mids
  <1>2. Inv /\ [Next]_vars => Inv' BY LoopNext DEF Effect
  <1>3. Inv => MemoryStored BY DEF MemoryStored
  <1> QED BY <1>1, <1>2, <1>3, PTL DEF Spec

\* What the user said stays in the store.  A compaction replaces the store by
\* the memory, so the memory of a reply under way must hold every prompt as well:
\* the passes of fixing, the reload and the summaries drop none
THEOREM PromptsAreKept == Spec => []PromptsKept
PROOF
  <1> DEFINE Known == \A n \in 1 .. prompts :
                        UserHas(stored, Prompt(n)) /\ (pc # "idle" => UserHas(memory, Prompt(n)))
             Inv == LoopType /\ Known
  <1>1. Init => Inv
    <2> SUFFICES ASSUME Init PROVE Inv OBVIOUS
    <2>1. LoopType BY LoopInit
    <2>2. 1 .. prompts = {} BY DEF Init
    <2> QED BY <2>1, <2>2
  <1>2. Inv /\ [Next]_vars => Inv'
    <2> SUFFICES ASSUME LoopType, Known, [Next]_vars PROVE Known' BY LoopNext
    <2>1. Effect BY LoopNext
    <2>2. PICK p \in Nat : p = prompts BY DEF LoopType, Rest, Counted
    <2> SUFFICES ASSUME NEW n \in 1 .. prompts'
                 PROVE  UserHas(stored', Prompt(n)) /\ (pc' # "idle" => UserHas(memory', Prompt(n)))
      OBVIOUS
    <2>3. IsWord(Prompt(n)) BY DEF IsWord, Prompt
    <2>4. CASE n \in 1 .. p
      <3>1. UserHas(stored, Prompt(n)) /\ (pc # "idle" => UserHas(memory, Prompt(n))) BY <2>2, <2>4
      <3>2. UserHas(stored', Prompt(n)) BY <2>1, <2>3, <3>1 DEF Effect, Carries
      <3>3. pc' # "idle" => UserHas(memory', Prompt(n))
        BY <2>1, <2>3, <3>1, <3>2 DEF Effect, Carries
      <3> QED BY <3>2, <3>3
    <2>5. CASE n \notin 1 .. p
      <3>1. /\ n = prompts' /\ UserHas(stored', Prompt(prompts'))
            /\ Carries(memory', stored')
        <4>1. prompts' = p \/ prompts' = p + 1 BY <2>1, <2>2 DEF Effect
        <4>2. prompts' = p + 1 /\ n = p + 1 BY <2>2, <2>5, <4>1
        <4>3. prompts' # prompts BY <2>2, <4>2
        <4> QED BY <2>1, <4>2, <4>3 DEF Effect
      <3> QED BY <2>3, <3>1 DEF Carries
    <2> QED BY <2>4, <2>5
  <1>3. Inv => PromptsKept
    <2> SUFFICES ASSUME Known, NEW n \in 1 .. prompts PROVE Places(stored, Prompt(n)) # {}
      BY DEF PromptsKept
    <2>1. PICK k : UserSays(stored, Prompt(n), k) BY DEF UserHas
    <2>2. Has(stored[k].items, Prompt(n)) /\ k \in DOMAIN stored BY <2>1 DEF UserSays
    <2>3. Prompt(n) \in Range(stored[k].items) BY <2>2 DEF Has, Range
    <2> QED BY <2>2, <2>3 DEF Places
  <1> QED BY <1>1, <1>2, <1>3, PTL DEF Spec
-----------------------------------------------------------------------------
(***************************************************************************)
(* The calls a model sees: of a conversation with hidden messages, of two  *)
(* conversations one after the other, of a reloaded one.                   *)
(***************************************************************************)
Shown(s, x, n) == In(s, x, n) /\ s[n].visible

Tells(m, i) == m.visible /\ (Has(m.items, Request(i)) \/ Has(m.items, Response(i)))

Mentioned(s, i) == \E n \in DOMAIN s : Tells(s[n], i)

LEMMA MentionedShown ==
  \A s, i : Mentioned(s, i) <=> \E n : Shown(s, Request(i), n) \/ Shown(s, Response(i), n)
PROOF BY DEF Mentioned, Tells, Shown, In

\* Nothing of call i is seen, or one request and, after it, one response
OnePair(s, i) ==
  \/ ~Mentioned(s, i)
  \/ \E m, n : /\ m < n
               /\ \A k : Shown(s, Request(i), k) <=> k = m
               /\ \A k : Shown(s, Response(i), k) <=> k = n

LEMMA SeenPairs ==
  ASSUME NEW M, NEW s \in Seq(M), NEW i
  PROVE  /\ WellPaired(Visible(s), i) => OnePair(s, i)
         /\ OnePair(s, i) =>
              \/ Places(Visible(s), Request(i)) = {} /\ Places(Visible(s), Response(i)) = {}
              \/ \E m, n \in DOMAIN Visible(s) :
                   /\ m < n
                   /\ Places(Visible(s), Request(i)) = {m} /\ Places(Visible(s), Response(i)) = {n}
PROOF
  <1> DEFINE K == {n \in DOMAIN s : s[n].visible}
  <1>1. PICK v \in Seq(M) : v = Picked(s, K) /\ \E e : Picks(e, v, s, K) BY PickedPlaces
  <1>2. PICK e : Picks(e, v, s, K) BY <1>1
  <1>3. Visible(s) = v BY <1>1 DEF Visible, Keep
  <1>4. DOMAIN v = 1 .. Len(v) /\ DOMAIN s = 1 .. Len(s) OBVIOUS
  <1>5. \A j \in DOMAIN v : e[j] \in DOMAIN s /\ s[e[j]].visible /\ v[j] = s[e[j]]
    BY <1>2, <1>4 DEF Picks
  <1>6. \A x, j : In(v, x, j) <=> j \in DOMAIN v /\ Shown(s, x, e[j]) BY <1>5 DEF In, Shown
  <1>7. \A x, k : Shown(s, x, k) => \E j \in DOMAIN v : e[j] = k
    BY <1>2, <1>4 DEF Picks, Shown, In
  <1>8. \A j, k \in DOMAIN v : j < k <=> e[j] < e[k]
    <2> SUFFICES ASSUME NEW j \in DOMAIN v, NEW k \in DOMAIN v PROVE j < k <=> e[j] < e[k] OBVIOUS
    <2>1. /\ e[j] \in Nat /\ e[k] \in Nat /\ j \in Nat /\ k \in Nat
          /\ (j < k => e[j] < e[k]) /\ (k < j => e[k] < e[j])
      BY <1>2, <1>4 DEF Picks
    <2> QED BY <2>1
  <1> HIDE DEF K
  <1>9. ASSUME WellPaired(v, i), Mentioned(s, i)
        PROVE  \E m, n : /\ m < n
                         /\ \A k : Shown(s, Request(i), k) <=> k = m
                         /\ \A k : Shown(s, Response(i), k) <=> k = n
    <2>1. PICK m, n : In(v, Request(i), m) /\ In(v, Response(i), n) /\ m < n
      <3>1. PICK k : Shown(s, Request(i), k) \/ Shown(s, Response(i), k) BY <1>9, MentionedShown
      <3>2. \E j : In(v, Request(i), j) \/ In(v, Response(i), j) BY <1>6, <1>7, <3>1
      <3> QED BY <1>9, <3>2 DEF WellPaired
    <2>2. m \in DOMAIN v /\ n \in DOMAIN v /\ Shown(s, Request(i), e[m]) /\ Shown(s, Response(i), e[n])
      BY <1>6, <2>1
    <2>3. ASSUME NEW k, Shown(s, Request(i), k) PROVE k = e[m]
      <3>1. PICK j \in DOMAIN v : e[j] = k BY <1>7, <2>3
      <3>2. In(v, Request(i), j) BY <1>6, <2>3, <3>1
      <3>3. j = m BY <1>9, <2>1, <3>2 DEF WellPaired, OnceIn
      <3> QED BY <3>1, <3>3
    <2>4. ASSUME NEW k, Shown(s, Response(i), k) PROVE k = e[n]
      <3>1. PICK j \in DOMAIN v : e[j] = k BY <1>7, <2>4
      <3>2. In(v, Response(i), j) BY <1>6, <2>4, <3>1
      <3>3. j = n BY <1>9, <2>1, <3>2 DEF WellPaired, OnceIn
      <3> QED BY <3>1, <3>3
    <2>5. e[m] < e[n] BY <1>8, <2>1, <2>2
    <2>6. PICK a, b : a = e[m] /\ b = e[n] OBVIOUS
    <2>7. /\ a < b
          /\ \A k : Shown(s, Request(i), k) <=> k = a
          /\ \A k : Shown(s, Response(i), k) <=> k = b
      BY <2>2, <2>3, <2>4, <2>5, <2>6
    <2> QED BY <2>7
  <1>10. \A x, j : j \in Places(v, x) <=> In(v, x, j) BY DEF Places, Range, In, Has
  <1>11. ASSUME ~Mentioned(s, i) PROVE Places(v, Request(i)) = {} /\ Places(v, Response(i)) = {}
    BY <1>6, <1>10, <1>11, MentionedShown
  <1>12. ASSUME NEW m, NEW n, m < n,
                \A k : Shown(s, Request(i), k) <=> k = m, \A k : Shown(s, Response(i), k) <=> k = n
         PROVE  \E a, b \in DOMAIN v :
                  a < b /\ Places(v, Request(i)) = {a} /\ Places(v, Response(i)) = {b}
    <2>1. PICK a \in DOMAIN v : e[a] = m BY <1>7, <1>12
    <2>2. PICK b \in DOMAIN v : e[b] = n BY <1>7, <1>12
    <2>3. a < b BY <1>8, <1>12, <2>1, <2>2
    <2>4. \A j, k \in DOMAIN v : e[j] = e[k] => j = k
      <3> SUFFICES ASSUME NEW j \in DOMAIN v, NEW k \in DOMAIN v, e[j] = e[k] PROVE j = k OBVIOUS
      <3>1. j \in Nat /\ k \in Nat /\ e[j] \in Nat BY <1>2, <1>4 DEF Picks
      <3>2. ~(j < k) /\ ~(k < j) BY <1>8, <3>1
      <3> QED BY <3>1, <3>2
    <2>5. \A j : In(v, Request(i), j) <=> j = a BY <1>6, <1>12, <2>1, <2>4
    <2>6. \A j : In(v, Response(i), j) <=> j = b BY <1>6, <1>12, <2>2, <2>4
    <2>7. Places(v, Request(i)) = {a} /\ Places(v, Response(i)) = {b} BY <1>10, <2>5, <2>6
    <2> QED BY <2>3, <2>7
  <1>13. WellPaired(v, i) => OnePair(s, i) BY <1>9 DEF OnePair
  <1>14. OnePair(s, i) =>
           \/ Places(v, Request(i)) = {} /\ Places(v, Response(i)) = {}
           \/ \E m, n \in DOMAIN v :
                m < n /\ Places(v, Request(i)) = {m} /\ Places(v, Response(i)) = {n}
    <2>1. CASE ~Mentioned(s, i) BY <1>11, <2>1
    <2>2. CASE \E m, n : /\ m < n
                         /\ \A k : Shown(s, Request(i), k) <=> k = m
                         /\ \A k : Shown(s, Response(i), k) <=> k = n
      BY <1>12, <2>2
    <2> QED BY <2>1, <2>2 DEF OnePair
  <1> QED BY <1>3, <1>13, <1>14

\* r is s followed by t, place by place
Chain(r, s, t) ==
  /\ r = s \o t /\ Len(s) \in Nat /\ Len(t) \in Nat /\ Len(r) = Len(s) + Len(t)
  /\ DOMAIN r = 1 .. Len(r) /\ DOMAIN s = 1 .. Len(s) /\ DOMAIN t = 1 .. Len(t)
  /\ \A k \in DOMAIN s : k \in DOMAIN r /\ r[k] = s[k]
  /\ \A k \in DOMAIN t : Len(s) + k \in DOMAIN r /\ r[Len(s) + k] = t[k]
  /\ \A k \in DOMAIN r : k \in DOMAIN s \/ \E j \in DOMAIN t : k = Len(s) + j

LEMMA Chained ==
  ASSUME NEW S, NEW s \in Seq(S), NEW t \in Seq(S) PROVE \E r \in Seq(S) : Chain(r, s, t)
PROOF
  <1>1. PICK r \in Seq(S) : r = s \o t BY ConcatPlaces
  <1>2. Len(s) \in Nat /\ Len(t) \in Nat /\ DOMAIN r = 1 .. Len(r) /\ DOMAIN s = 1 .. Len(s)
        /\ DOMAIN t = 1 .. Len(t)
    OBVIOUS
  <1>3. Chain(r, s, t)
    <2>1. /\ Len(r) = Len(s) + Len(t)
          /\ \A k \in 1 .. Len(s) : k \in 1 .. Len(r) /\ r[k] = s[k]
          /\ \A k \in 1 .. Len(t) : Len(s) + k \in 1 .. Len(r) /\ r[Len(s) + k] = t[k]
          /\ \A k \in 1 .. Len(r) : k \in 1 .. Len(s) \/ \E j \in 1 .. Len(t) : k = Len(s) + j
      BY <1>1, ConcatPlaces
    <2> QED BY <1>1, <1>2, <2>1 DEF Chain
  <1> QED BY <1>3

LEMMA ChainShown ==
  ASSUME NEW r, NEW s, NEW t, Chain(r, s, t)
  PROVE  /\ \A x, k : Shown(r, x, k) <=>
                        Shown(s, x, k) \/ \E j \in DOMAIN t : k = Len(s) + j /\ Shown(t, x, j)
         /\ \A i : Mentioned(r, i) <=> Mentioned(s, i) \/ Mentioned(t, i)
PROOF
  <1>1. ASSUME NEW x, NEW k, Shown(r, x, k)
        PROVE  Shown(s, x, k) \/ \E j \in DOMAIN t : k = Len(s) + j /\ Shown(t, x, j)
    <2>1. k \in DOMAIN r BY <1>1 DEF Shown, In
    <2>2. CASE k \in DOMAIN s BY <1>1, <2>2 DEF Chain, Shown, In
    <2>3. CASE \E j \in DOMAIN t : k = Len(s) + j
      <3>1. PICK j \in DOMAIN t : k = Len(s) + j BY <2>3
      <3>2. r[k] = t[j] BY <3>1 DEF Chain
      <3> QED BY <1>1, <3>1, <3>2 DEF Shown, In
    <2> QED BY <2>1, <2>2, <2>3 DEF Chain
  <1>2. ASSUME NEW x, NEW k, Shown(s, x, k) PROVE Shown(r, x, k)
    BY <1>2 DEF Chain, Shown, In
  <1>3. ASSUME NEW x, NEW j \in DOMAIN t, Shown(t, x, j) PROVE Shown(r, x, Len(s) + j)
    BY <1>3 DEF Chain, Shown, In
  <1>4. \A x, k : Shown(r, x, k) <=>
                    Shown(s, x, k) \/ \E j \in DOMAIN t : k = Len(s) + j /\ Shown(t, x, j)
    BY <1>1, <1>2, <1>3
  <1>5. \A x, j : Shown(t, x, j) => j \in DOMAIN t BY DEF Shown, In
  <1>6. \A i : Mentioned(r, i) <=> Mentioned(s, i) \/ Mentioned(t, i)
    <2> SUFFICES ASSUME NEW i PROVE Mentioned(r, i) <=> Mentioned(s, i) \/ Mentioned(t, i) OBVIOUS
    <2>1. \A x : (\E k : Shown(r, x, k)) <=> (\E k : Shown(s, x, k)) \/ (\E k : Shown(t, x, k))
      BY <1>1, <1>2, <1>3, <1>5
    <2> QED BY <2>1, MentionedShown
  <1> QED BY <1>4, <1>6

LEMMA ChainPairs ==
  ASSUME NEW r, NEW s, NEW t, Chain(r, s, t), NEW i, OnePair(s, i), OnePair(t, i),
         ~(Mentioned(s, i) /\ Mentioned(t, i))
  PROVE  OnePair(r, i)
PROOF
  <1>1. CASE ~Mentioned(s, i) /\ ~Mentioned(t, i) BY <1>1, ChainShown DEF OnePair
  <1>2. CASE Mentioned(s, i)
    <2>1. \A k : ~Shown(t, Request(i), k) /\ ~Shown(t, Response(i), k) BY <1>2, MentionedShown
    <2>2. /\ \A k : Shown(r, Request(i), k) <=> Shown(s, Request(i), k)
          /\ \A k : Shown(r, Response(i), k) <=> Shown(s, Response(i), k)
      BY <2>1, ChainShown
    <2> QED BY <1>2, <2>2 DEF OnePair
  <1>3. CASE Mentioned(t, i)
    <2>1. \A k : ~Shown(s, Request(i), k) /\ ~Shown(s, Response(i), k) BY <1>3, MentionedShown
    <2>2. PICK m, n : /\ m < n
                      /\ \A k : Shown(t, Request(i), k) <=> k = m
                      /\ \A k : Shown(t, Response(i), k) <=> k = n
      BY <1>3 DEF OnePair
    <2>3. m \in DOMAIN t /\ n \in DOMAIN t BY <2>2 DEF Shown, In
    <2>4. Len(s) + m < Len(s) + n BY <2>2, <2>3 DEF Chain
    <2>5. /\ \A k : Shown(r, Request(i), k) <=> k = Len(s) + m
          /\ \A k : Shown(r, Response(i), k) <=> k = Len(s) + n
      BY <2>1, <2>2, <2>3, ChainShown
    <2> QED BY <2>4, <2>5 DEF OnePair
  <1> QED BY <1>1, <1>2, <1>3

(***************************************************************************)
(* What replies write to the store: one item in a message the model sees,  *)
(* on its side; a call's request once, its result in the next row, no      *)
(* younger than it.                                                        *)
(***************************************************************************)
OneSaid(m) ==
  /\ Len(m.items) <= 1
  /\ \A i : (Has(m.items, Request(i)) => m.role = "assistant")
           /\ (Has(m.items, Response(i)) => m.role = "user")

Recorded(s) ==
  /\ \A n \in DOMAIN s : s[n].visible => OneSaid(s[n])
  /\ \A i, m, n : Shown(s, Request(i), m) /\ Shown(s, Request(i), n) => m = n
  /\ \A i, m, n : Shown(s, Request(i), m) /\ Shown(s, Response(i), n) =>
                    n = m + 1 /\ s[n].created <= s[m].created

LEMMA ChainRecorded ==
  ASSUME NEW r, NEW s, NEW t, Chain(r, s, t), Recorded(s), Recorded(t),
         \A i : ~(Mentioned(s, i) /\ Mentioned(t, i))
  PROVE  Recorded(r)
PROOF
  <1>1. ASSUME NEW n \in DOMAIN r, r[n].visible PROVE OneSaid(r[n])
    <2>1. CASE n \in DOMAIN s BY <1>1, <2>1 DEF Chain, Recorded
    <2>2. CASE \E j \in DOMAIN t : n = Len(s) + j
      <3>1. PICK j \in DOMAIN t : n = Len(s) + j BY <2>2
      <3>2. r[n] = t[j] BY <3>1 DEF Chain
      <3> QED BY <1>1, <3>2 DEF Recorded
    <2> QED BY <2>1, <2>2 DEF Chain
  <1>2. \A i, x, y, m, n :
          x \in {Request(i), Response(i)} /\ y \in {Request(i), Response(i)}
          => ~(Shown(s, x, m) /\ Shown(t, y, n))
    BY MentionedShown
  <1>3. ASSUME NEW i, NEW m, NEW n, Shown(r, Request(i), m), Shown(r, Request(i), n) PROVE m = n
    <2>1. CASE Shown(s, Request(i), m)
      <3>1. Shown(s, Request(i), n) BY <1>2, <1>3, <2>1, ChainShown
      <3> QED BY <2>1, <3>1 DEF Recorded
    <2>2. CASE ~Shown(s, Request(i), m)
      <3>1. PICK a \in DOMAIN t : m = Len(s) + a /\ Shown(t, Request(i), a) BY <1>3, <2>2, ChainShown
      <3>2. PICK b \in DOMAIN t : n = Len(s) + b /\ Shown(t, Request(i), b)
        BY <1>2, <1>3, <3>1, ChainShown
      <3>3. a = b BY <3>1, <3>2 DEF Recorded
      <3> QED BY <3>1, <3>2, <3>3
    <2> QED BY <2>1, <2>2
  <1>4. ASSUME NEW i, NEW m, NEW n, Shown(r, Request(i), m), Shown(r, Response(i), n)
        PROVE  n = m + 1 /\ r[n].created <= r[m].created
    <2>1. CASE Shown(s, Request(i), m)
      <3>1. Shown(s, Response(i), n) BY <1>2, <1>4, <2>1, ChainShown
      <3>2. r[m] = s[m] /\ r[n] = s[n] BY <2>1, <3>1 DEF Chain, Shown, In
      <3> QED BY <2>1, <3>1, <3>2 DEF Recorded
    <2>2. CASE ~Shown(s, Request(i), m)
      <3>1. PICK a \in DOMAIN t : m = Len(s) + a /\ Shown(t, Request(i), a) BY <1>4, <2>2, ChainShown
      <3>2. PICK b \in DOMAIN t : n = Len(s) + b /\ Shown(t, Response(i), b)
        BY <1>2, <1>4, <3>1, ChainShown
      <3>3. b = a + 1 /\ t[b].created <= t[a].created BY <3>1, <3>2 DEF Recorded
      <3>4. r[m] = t[a] /\ r[n] = t[b] BY <3>1, <3>2 DEF Chain
      <3>5. a \in Nat /\ Len(s) \in Nat BY DEF Chain
      <3>6. n = m + 1 BY <3>1, <3>2, <3>3, <3>5
      <3> QED BY <3>3, <3>4, <3>6
    <2> QED BY <2>1, <2>2
  <1> QED BY <1>1, <1>3, <1>4 DEF Recorded
-----------------------------------------------------------------------------
(***************************************************************************)
(* The order of a reload: by the time of creation, and by the place in the *)
(* store among messages of one second.                                     *)
(***************************************************************************)
Before(s, a, b) == s[a].created < s[b].created \/ (s[a].created = s[b].created /\ a < b)

\* r holds the messages of s at the places in P in that order; e tells the places
Sorted(e, r, s, P) ==
  /\ e \in [1 .. Len(r) -> 1 .. Len(s)]
  /\ \A j \in 1 .. Len(r) : e[j] \in P /\ r[j] = s[e[j]]
  /\ \A j, k \in 1 .. Len(r) : j < k => Before(s, e[j], e[k])
  /\ \A n \in 1 .. Len(s) : n \in P => \E j \in 1 .. Len(r) : e[j] = n

Until(s, P, t) == \A n \in DOMAIN s : n \in P <=> s[n].created <= t
During(s, P, t) == \A n \in DOMAIN s : n \in P <=> s[n].created = t

\* r has the messages of a second more: those of q, then those of p
SecondMore(r, q, d, p, c, s, t, P, Q, K) ==
  /\ Until(s, P, t) /\ Until(s, Q, t + 1) /\ During(s, K, t + 1)
  /\ Chain(r, q, p) /\ Sorted(d, q, s, P) /\ Picks(c, p, s, K)

LEMMA SortedStep ==
  ASSUME NEW s \in Seq(Messages), NEW t \in Nat, NEW P, NEW Q, NEW K,
         NEW q \in Seq(Messages), NEW p \in Seq(Messages), NEW r, NEW d, NEW c,
         SecondMore(r, q, d, p, c, s, t, P, Q, K)
  PROVE  \E e : Sorted(e, r, s, Q)
PROOF
  <1> USE DEF Until, During, SecondMore
  <1> DEFINE l == Len(q)
             e == [j \in 1 .. Len(r) |-> IF j \in 1 .. l THEN d[j] ELSE c[j - l]]
  <1>1. /\ l \in Nat /\ Len(p) \in Nat /\ Len(r) = l + Len(p) /\ DOMAIN s = 1 .. Len(s)
        /\ \A k \in 1 .. l : k \in 1 .. Len(r) /\ r[k] = q[k]
        /\ \A k \in 1 .. Len(p) : l + k \in 1 .. Len(r) /\ r[l + k] = p[k]
        /\ \A k \in 1 .. Len(r) : k \in 1 .. l \/ \E j \in 1 .. Len(p) : k = l + j
    <2>1. DOMAIN s = 1 .. Len(s) OBVIOUS
    <2>2. DOMAIN r = 1 .. Len(r) /\ DOMAIN q = 1 .. l /\ DOMAIN p = 1 .. Len(p) BY DEF Chain
    <2>3. l \in Nat /\ Len(p) \in Nat /\ Len(r) = l + Len(p) BY DEF Chain
    <2>4. /\ \A k \in 1 .. l : k \in 1 .. Len(r) /\ r[k] = q[k]
          /\ \A k \in 1 .. Len(p) : l + k \in 1 .. Len(r) /\ r[l + k] = p[k]
          /\ \A k \in 1 .. Len(r) : k \in 1 .. l \/ \E j \in 1 .. Len(p) : k = l + j
      BY <2>2, Zenon DEF Chain
    <2> QED BY <2>1, <2>3, <2>4
  <1>2. \A n \in DOMAIN s : s[n].created \in Nat
    <2> SUFFICES ASSUME NEW n \in DOMAIN s PROVE s[n].created \in Nat OBVIOUS
    <2>1. s[n] \in Messages OBVIOUS
    <2> QED BY <2>1, Bounds DEF Messages
  <1>3. ASSUME NEW j \in 1 .. l
        PROVE  /\ j \in 1 .. Len(r) /\ e[j] = d[j] /\ e[j] \in DOMAIN s /\ e[j] \in Q
               /\ r[j] = s[e[j]] /\ s[e[j]].created <= t
    <2>1. j \in 1 .. Len(r) /\ e[j] = d[j] BY <1>1
    <2>2. d[j] \in DOMAIN s /\ d[j] \in P /\ q[j] = s[d[j]] BY <1>1 DEF Sorted
    <2>3. s[d[j]].created <= t BY <2>2
    <2>4. d[j] \in Q BY <1>2, <2>2, <2>3
    <2> QED BY <1>1, <2>1, <2>2, <2>3, <2>4
  <1>4. ASSUME NEW j \in 1 .. Len(p)
        PROVE  /\ l + j \in 1 .. Len(r) /\ e[l + j] = c[j] /\ e[l + j] \in DOMAIN s /\ e[l + j] \in Q
               /\ r[l + j] = s[e[l + j]] /\ s[e[l + j]].created = t + 1
    <2>1. l + j \in 1 .. Len(r) /\ l + j \notin 1 .. l /\ (l + j) - l = j BY <1>1
    <2>2. e[l + j] = c[j] BY <2>1
    <2>3. c[j] \in DOMAIN s /\ c[j] \in K /\ p[j] = s[c[j]] BY <1>1 DEF Picks
    <2>4. s[c[j]].created = t + 1 BY <2>3
    <2>5. c[j] \in Q BY <1>2, <2>3, <2>4
    <2> QED BY <1>1, <2>1, <2>2, <2>3, <2>4, <2>5
  <1>5. e \in [1 .. Len(r) -> 1 .. Len(s)]
    <2> SUFFICES ASSUME NEW j \in 1 .. Len(r) PROVE e[j] \in 1 .. Len(s) OBVIOUS
    <2> HIDE DEF e
    <2> QED BY <1>1, <1>3, <1>4
  <1> HIDE DEF e
  <1>6. ASSUME NEW j \in 1 .. Len(r) PROVE e[j] \in Q /\ r[j] = s[e[j]]
    <2>1. CASE j \in 1 .. l BY <1>3, <2>1
    <2>2. CASE \E k \in 1 .. Len(p) : j = l + k
      <3>1. PICK k \in 1 .. Len(p) : j = l + k BY <2>2
      <3> QED BY <1>4, <3>1
    <2> QED BY <1>1, <2>1, <2>2
  <1>7. ASSUME NEW j \in 1 .. Len(r), NEW k \in 1 .. Len(r), j < k PROVE Before(s, e[j], e[k])
    <2>1. CASE j \in 1 .. l /\ k \in 1 .. l BY <1>3, <1>7, <2>1 DEF Sorted
    <2>2. CASE j \in 1 .. l /\ k \notin 1 .. l
      <3>1. PICK b \in 1 .. Len(p) : k = l + b BY <1>1, <2>2
      <3>2. s[e[j]].created <= t /\ s[e[k]].created = t + 1 /\ s[e[j]].created \in Nat
        BY <1>2, <1>3, <1>4, <2>2, <3>1
      <3>3. s[e[j]].created < s[e[k]].created BY <3>2
      <3> QED BY <3>3 DEF Before
    <2>3. CASE j \notin 1 .. l
      <3>1. PICK a \in 1 .. Len(p) : j = l + a BY <1>1, <2>3
      <3>2. k \notin 1 .. l BY <1>1, <1>7, <2>3
      <3>3. PICK b \in 1 .. Len(p) : k = l + b BY <1>1, <3>2
      <3>4. a < b BY <1>1, <1>7, <3>1, <3>3
      <3>5. c[a] < c[b] BY <3>4 DEF Picks
      <3> QED BY <1>4, <3>1, <3>3, <3>5 DEF Before
    <2> QED BY <2>1, <2>2, <2>3
  <1>8. ASSUME NEW n \in 1 .. Len(s), n \in Q PROVE \E j \in 1 .. Len(r) : e[j] = n
    <2>1. CASE s[n].created <= t
      <3>1. n \in P BY <2>1
      <3>2. PICK j \in 1 .. l : d[j] = n BY <3>1 DEF Sorted
      <3> QED BY <1>3, <3>2
    <2>2. CASE ~(s[n].created <= t)
      <3>1. s[n].created <= t + 1 /\ s[n].created \in Nat BY <1>1, <1>2, <1>8
      <3>2. s[n].created = t + 1 BY <2>2, <3>1
      <3>3. PICK j \in 1 .. Len(p) : c[j] = n BY <3>2 DEF Picks
      <3> QED BY <1>4, <3>3
    <2> QED BY <2>1, <2>2
  <1> QED BY <1>5, <1>6, <1>7, <1>8 DEF Sorted

LEMMA ReloadSorted ==
  ASSUME NEW s \in Seq(Messages)
  PROVE  \E r \in Seq(Messages) : \E e : r = Reload(s) /\ Sorted(e, r, s, DOMAIN s)
PROOF
  <1> DEFINE K(t) == {n \in DOMAIN s : s[n].created = t}
             P(t) == {n \in DOMAIN s : s[n].created <= t}
             F == [t \in 1 .. MaxClock |-> Picked(s, K(t))]
             h == MaxClock
  <1>1. h \in Nat \ {0} BY Bounds
  <1>2. ASSUME NEW t \in 1 .. h PROVE F[t] \in Seq(Messages) /\ \E c : Picks(c, F[t], s, K(t))
    <2>1. F[t] = Picked(s, K(t)) OBVIOUS
    <2> HIDE DEF F, K
    <2> QED BY <2>1, PickedPlaces
  <1>3. F \in [1 .. h -> Seq(Messages)] BY <1>2
  <1>4. Reload(s) = FlattenSeq(F) BY DEF Reload, Keep
  <1> HIDE DEF F
  <1>5. PICK g \in [1 .. h -> Seq(Messages)] : IsFlattening(g, F, h) BY <1>1, <1>3, FlattenTrace
  <1>6. \A n \in DOMAIN s : s[n].created \in 1 .. h
    <2> SUFFICES ASSUME NEW n \in DOMAIN s PROVE s[n].created \in 1 .. h OBVIOUS
    <2>1. s[n] \in Messages OBVIOUS
    <2> QED BY <2>1 DEF Messages
  <1> DEFINE T == {k \in 0 .. h : k # 0 => \E e : Sorted(e, g[k], s, P(k))}
  <1>7. 0 \in T BY <1>1
  <1>8. ASSUME NEW k \in 0 .. h, k # h, k \in T PROVE k + 1 \in T
    <2>1. k + 1 \in 1 .. h /\ (k + 1) - 1 = k /\ k + 1 \in 0 .. h /\ k \in Nat BY <1>1, <1>8
    <2>2. PICK p \in Seq(Messages) : p = F[k + 1] BY <1>2, <2>1
    <2>3. PICK c : Picks(c, p, s, K(k + 1)) BY <1>2, <2>1, <2>2
    <2>4. /\ \A n \in DOMAIN s : n \in P(k + 1) <=> s[n].created <= k + 1
          /\ \A n \in DOMAIN s : n \in P(k) <=> s[n].created <= k
          /\ \A n \in DOMAIN s : n \in K(k + 1) <=> s[n].created = k + 1
      OBVIOUS
    <2> HIDE DEF P, K
    <2>10. Until(s, P(k), k) /\ Until(s, P(k + 1), k + 1) /\ During(s, K(k + 1), k + 1)
      BY <2>4 DEF Until, During
    <2>5. PICK q \in Seq(Messages) :
            /\ q = IF k = 0 THEN <<>> ELSE g[k]
            /\ \E d : Sorted(d, q, s, P(k))
      <3>1. CASE k = 0
        <4>1. <<>> \in Seq(Messages) OBVIOUS
        <4>2. PICK q \in Seq(Messages) : q = <<>> BY <4>1
        <4>3. Len(q) = 0 /\ 1 .. Len(q) = {} BY <4>2
        <4>4. \A n \in 1 .. Len(s) : n \notin P(k)
          <5> SUFFICES ASSUME NEW n \in DOMAIN s, n \in P(k) PROVE FALSE OBVIOUS
          <5>1. s[n].created <= 0 BY <2>4, <3>1
          <5>2. s[n].created \in 1 .. h BY <1>6
          <5> QED BY <1>1, <5>1, <5>2
        <4>5. Sorted([j \in {} |-> 1], q, s, P(k)) BY <4>3, <4>4 DEF Sorted
        <4> QED BY <3>1, <4>2, <4>5
      <3>2. CASE k # 0
        <4>1. k \in 1 .. h BY <2>1, <3>2
        <4>2. \E d : Sorted(d, g[k], s, P(k)) BY <1>8, <3>2
        <4> QED BY <3>2, <4>1, <4>2
      <3> QED BY <3>1, <3>2
    <2>6. PICK d : Sorted(d, q, s, P(k)) BY <2>5
    <2>7. PICK r \in Seq(Messages) : Chain(r, q, p) BY Chained
    <2>8. g[k + 1] = r
      <3>1. CASE k = 0
        <4>1. r = p
          <5>1. r = <<>> \o p BY <2>5, <2>7, <3>1 DEF Chain
          <5> QED BY <5>1
        <4> QED BY <1>5, <2>2, <3>1, <4>1 DEF IsFlattening
      <3>2. CASE k # 0
        <4>1. k + 1 \in 2 .. h BY <2>1, <3>2
        <4>2. g[k + 1] = g[k] \o F[k + 1] BY <1>5, <2>1, <4>1 DEF IsFlattening
        <4> QED BY <2>2, <2>5, <2>7, <3>2, <4>2 DEF Chain
      <3> QED BY <3>1, <3>2
    <2>9. \E e : Sorted(e, r, s, P(k + 1))
      <3>1. PICK A, B, C : A = P(k) /\ B = P(k + 1) /\ C = K(k + 1) OBVIOUS
      <3>2. PICK t \in Nat : t = k BY <2>1
      <3>3. Until(s, A, t) /\ Until(s, B, t + 1) /\ During(s, C, t + 1) BY <2>10, <3>1, <3>2
      <3>4. Sorted(d, q, s, A) /\ Picks(c, p, s, C) BY <2>3, <2>6, <3>1
      <3>5. Chain(r, q, p) BY <2>7
      <3> HIDE DEF T
      <3>6. SecondMore(r, q, d, p, c, s, t, A, B, C) BY <3>3, <3>4, <3>5 DEF SecondMore
      <3>7. \E e : Sorted(e, r, s, B) BY <3>6, SortedStep
      <3> QED BY <3>1, <3>7
    <2> QED BY <2>1, <2>8, <2>9
  <1>9. h \in T
    <2> HIDE DEF T
    <2>1. \A k \in 0 .. h : k \in T BY <1>1, <1>7, <1>8, InductionTo
    <2> QED BY <1>1, <2>1
  <1>10. PICK r \in Seq(Messages) : r = g[h] BY <1>1
  <1>11. P(h) = DOMAIN s
    <2>1. \A n \in DOMAIN s : s[n].created <= h BY <1>1, <1>6
    <2> QED BY <2>1
  <1>12. \E e : Sorted(e, r, s, DOMAIN s) BY <1>1, <1>9, <1>10, <1>11
  <1> QED BY <1>4, <1>5, <1>10, <1>12 DEF IsFlattening

\* w is the first message of a reload that the model sees, or others with words
\* of the user's are
First(s, w) ==
  /\ w \in DOMAIN s /\ Speaks(s[w])
  /\ \A n \in DOMAIN s : s[n].visible /\ ~Speaks(s[n]) => Before(s, w, n)

\* What the passes need of what the model sees
Sendable(v) ==
  /\ BeginsWithWords(v) /\ OneCallEach(v)
  /\ \A i \in Nat : AskedOnce(v, i) /\ Near(v, i)

\* v holds the messages of s that the model sees, in the order of a reload
InOrder(e, v, s) ==
  /\ \A j \in DOMAIN v : e[j] \in DOMAIN s /\ s[e[j]].visible /\ v[j] = s[e[j]]
  /\ \A n \in DOMAIN s : s[n].visible => \E j \in DOMAIN v : e[j] = n
  /\ \A j, k \in DOMAIN v : j < k => Before(s, e[j], e[k])
  /\ \A j, k \in DOMAIN v : e[j] = e[k] => j = k

LEMMA ReloadPlaces ==
  ASSUME NEW s \in Seq(Messages)
  PROVE  \E v \in Seq(Messages) : \E e : v = Visible(Reload(s)) /\ InOrder(e, v, s)
PROOF
  <1>0. PICK r \in Seq(Messages) : \E d : r = Reload(s) /\ Sorted(d, r, s, DOMAIN s) BY ReloadSorted
  <1>1. PICK d : r = Reload(s) /\ Sorted(d, r, s, DOMAIN s) BY <1>0
  <1> DEFINE K == {n \in DOMAIN r : r[n].visible}
  <1>2. PICK v \in Seq(Messages) : v = Picked(r, K) /\ \E c : Picks(c, v, r, K) BY PickedPlaces
  <1>3. PICK c : Picks(c, v, r, K) BY <1>2
  <1>4. Visible(Reload(s)) = v BY <1>1, <1>2 DEF Visible, Keep
  <1>5. DOMAIN v = 1 .. Len(v) /\ DOMAIN r = 1 .. Len(r) /\ DOMAIN s = 1 .. Len(s) OBVIOUS
  <1>6. \A j \in DOMAIN v : c[j] \in DOMAIN r /\ r[c[j]].visible /\ v[j] = r[c[j]]
    BY <1>3, <1>5 DEF Picks
  <1>7. \A n \in DOMAIN r : r[n].visible => \E j \in DOMAIN v : c[j] = n BY <1>3, <1>5 DEF Picks
  <1>8. \A j, k \in DOMAIN v : j < k => c[j] < c[k] BY <1>3, <1>5 DEF Picks
  <1> HIDE DEF K
  <1> DEFINE e == [j \in DOMAIN v |-> d[c[j]]]
  <1>9. \A j \in DOMAIN v : e[j] \in DOMAIN s /\ s[e[j]].visible /\ v[j] = s[e[j]]
    BY <1>1, <1>5, <1>6 DEF Sorted
  <1>10. \A n \in DOMAIN s : s[n].visible => \E j \in DOMAIN v : e[j] = n
    <2> SUFFICES ASSUME NEW n \in DOMAIN s, s[n].visible PROVE \E j \in DOMAIN v : e[j] = n OBVIOUS
    <2>1. PICK k \in DOMAIN r : d[k] = n BY <1>1, <1>5 DEF Sorted
    <2>2. r[k] = s[n] BY <1>1, <1>5, <2>1 DEF Sorted
    <2>3. PICK j \in DOMAIN v : c[j] = k BY <1>7, <2>2
    <2> QED BY <2>1, <2>3
  <1>11. \A j, k \in DOMAIN v : j < k => Before(s, e[j], e[k])
    BY <1>1, <1>5, <1>6, <1>8 DEF Sorted
  <1> HIDE DEF e
  <1>12. \A n \in DOMAIN s : s[n].created \in Nat
    <2> SUFFICES ASSUME NEW n \in DOMAIN s PROVE s[n].created \in Nat OBVIOUS
    <2>1. s[n] \in Messages OBVIOUS
    <2> QED BY <2>1, Bounds DEF Messages
  <1>13. ASSUME NEW j \in DOMAIN v, NEW k \in DOMAIN v, e[j] = e[k] PROVE j = k
    <2>1. ~Before(s, e[j], e[k]) /\ ~Before(s, e[k], e[j])
      <3>1. e[j] \in Nat /\ s[e[j]].created \in Nat BY <1>5, <1>9, <1>12
      <3> QED BY <1>13, <3>1 DEF Before
    <2>2. ~(j < k) /\ ~(k < j) BY <1>11, <2>1
    <2> QED BY <1>5, <2>2
  <1> QED BY <1>4, <1>9, <1>10, <1>11, <1>13 DEF InOrder

LEMMA ReloadSendable ==
  ASSUME NEW s \in Seq(Messages), Recorded(s), NEW w, First(s, w) PROVE Sendable(Visible(Reload(s)))
PROOF
  <1>1. PICK v \in Seq(Messages) : \E e : v = Visible(Reload(s)) /\ InOrder(e, v, s) BY ReloadPlaces
  <1>2. PICK e : InOrder(e, v, s) BY <1>1
  <1>3. Visible(Reload(s)) = v BY <1>1
  <1>4. DOMAIN v = 1 .. Len(v) /\ DOMAIN s = 1 .. Len(s) OBVIOUS
  <1>5. \A j \in DOMAIN v : e[j] \in DOMAIN s /\ s[e[j]].visible /\ v[j] = s[e[j]] BY <1>2 DEF InOrder
  <1>6. \A n \in DOMAIN s : s[n].visible => \E j \in DOMAIN v : e[j] = n BY <1>2 DEF InOrder
  <1>7. \A j, k \in DOMAIN v : j < k => Before(s, e[j], e[k]) BY <1>2 DEF InOrder
  <1>8. \A n \in DOMAIN s : s[n].created \in Nat
    <2> SUFFICES ASSUME NEW n \in DOMAIN s PROVE s[n].created \in Nat OBVIOUS
    <2>1. s[n] \in Messages OBVIOUS
    <2> QED BY <2>1, Bounds DEF Messages
  <1>9. \A x, j : In(v, x, j) => Shown(s, x, e[j]) BY <1>5 DEF In, Shown
  <1>10. BeginsWithWords(v)
    <2>1. PICK j \in DOMAIN v : e[j] = w BY <1>6 DEF First, Speaks
    <2>2. v # <<>> /\ 1 \in DOMAIN v BY <1>4, <2>1
    <2>3. Speaks(v[1])
      <3> SUFFICES ASSUME ~Speaks(v[1]) PROVE FALSE OBVIOUS
      <3>1. ~Speaks(s[e[1]]) /\ s[e[1]].visible /\ e[1] \in DOMAIN s BY <1>5, <2>2
      <3>2. Before(s, w, e[1]) BY <3>1 DEF First
      <3>3. j # 1 BY <2>1, <3>1 DEF First
      <3>4. 1 < j BY <1>4, <3>3
      <3>5. Before(s, e[1], w) BY <1>7, <2>1, <2>2, <3>4
      <3>6. w \in Nat /\ e[1] \in Nat /\ s[w].created \in Nat /\ s[e[1]].created \in Nat
        BY <1>4, <1>8, <3>1 DEF First
      <3> QED BY <3>2, <3>5, <3>6 DEF Before
    <2> QED BY <2>2, <2>3 DEF Speaks, BeginsWithWords, HasWords, IsWord
  <1>11. ASSUME NEW j \in DOMAIN v
         PROVE  /\ v[j].items \in Seq(Content) /\ DOMAIN v[j].items = 1 .. Len(v[j].items)
                /\ \A k, l \in DOMAIN v[j].items : k = l
    <2>1. v[j] \in Messages OBVIOUS
    <2>2. PICK t \in Seq(Content) : t = v[j].items BY <2>1 DEF Messages
    <2>3. Len(t) <= 1 BY <1>5, <2>2 DEF Recorded, OneSaid
    <2>4. DOMAIN t = 1 .. Len(t) /\ Len(t) \in Nat OBVIOUS
    <2>5. \A k, l \in DOMAIN t : k = 1 /\ l = 1 BY <2>3, <2>4
    <2> QED BY <2>2, <2>4, <2>5
  <1>12. OneCallEach(v)
    <2> SUFFICES ASSUME NEW j \in DOMAIN v, NEW x, NEW y, Has(v[j].items, x), Has(v[j].items, y)
                 PROVE  x.id = y.id
      BY DEF OneCallEach, OneCall
    <2> QED BY <1>11 DEF Has
  <1>13. \A j, k \in DOMAIN v : e[j] = e[k] => j = k BY <1>2 DEF InOrder
  <1>14. ASSUME NEW i \in Nat PROVE AskedOnce(v, i)
    <2>1. \A m, n \in DOMAIN v : Has(v[m].items, Request(i)) /\ Has(v[n].items, Request(i)) => m = n
      <3> SUFFICES ASSUME NEW m \in DOMAIN v, NEW n \in DOMAIN v,
                          Has(v[m].items, Request(i)), Has(v[n].items, Request(i))
                   PROVE  m = n
        OBVIOUS
      <3>1. Shown(s, Request(i), e[m]) /\ Shown(s, Request(i), e[n]) BY <1>9 DEF In
      <3> QED BY <1>13, <3>1 DEF Recorded
    <2>2. \A m \in DOMAIN v : Once(v[m].items, Request(i)) BY <1>11 DEF Once
    <2> QED BY <2>1, <2>2 DEF AskedOnce
  <1>15. ASSUME NEW i \in Nat PROVE Near(v, i)
    <2> SUFFICES ASSUME NEW m, NEW n, In(v, Request(i), m), In(v, Response(i), n), m < n
                 PROVE  n = m + 1
      BY DEF Near
    <2>1. Shown(s, Request(i), e[m]) /\ Shown(s, Response(i), e[n]) /\ m \in DOMAIN v /\ n \in DOMAIN v
      BY <1>9 DEF In
    <2>2. e[n] = e[m] + 1 /\ s[e[n]].created <= s[e[m]].created BY <2>1 DEF Recorded
    <2>3. Before(s, e[m], e[n]) BY <1>7, <2>1
    <2>4. /\ e[m] \in Nat /\ e[n] \in Nat
          /\ s[e[m]].created \in Nat /\ s[e[n]].created \in Nat /\ m \in Nat /\ n \in Nat
      BY <1>4, <1>5, <1>8, <2>1
    <2>5. s[e[m]].created = s[e[n]].created BY <2>2, <2>3, <2>4 DEF Before
    <2> SUFFICES ASSUME n # m + 1 PROVE FALSE OBVIOUS
    <2>6. m + 1 \in DOMAIN v /\ m < m + 1 /\ m + 1 < n BY <1>4, <2>1, <2>4
    <2>7. Before(s, e[m], e[m + 1]) /\ Before(s, e[m + 1], e[n]) BY <1>7, <2>1, <2>6
    <2>8. e[m + 1] \in Nat /\ s[e[m + 1]].created \in Nat BY <1>4, <1>5, <1>8, <2>6
    <2>9. e[m] < e[m + 1] /\ e[m + 1] < e[n] BY <2>4, <2>5, <2>7, <2>8 DEF Before
    <2> QED BY <2>2, <2>4, <2>8, <2>9
  <1> QED BY <1>3, <1>10, <1>12, <1>14, <1>15 DEF Sendable

\* A place holds a fixed message, or what was hidden there
LEMMA PlacedFrom ==
  ASSUME NEW M, NEW fixed \in Seq(M), NEW s \in Seq(M)
  PROVE  \A j \in DOMAIN Placed(fixed, s).msgs :
           \/ Has(fixed, Placed(fixed, s).msgs[j])
           \/ Has(s, Placed(fixed, s).msgs[j]) /\ ~Placed(fixed, s).msgs[j].visible
PROOF
  <1> DEFINE l == Len(s)
             Comes(q) == \A j \in DOMAIN q : Has(fixed, q[j]) \/ (Has(s, q[j]) /\ ~q[j].visible)
  <1>1. PICK g : IsPlacing(g, M, fixed, s) /\ Placed(fixed, s) = g[l] BY PlacedTrace
  <1>2. l \in Nat /\ l \in 0 .. l OBVIOUS
  <1> DEFINE T == {k \in 0 .. l : Comes(g[k].msgs)}
  <1>3. 0 \in T BY <1>1, <1>2 DEF IsPlacing
  <1>4. ASSUME NEW k \in 0 .. l, k # l, k \in T PROVE k + 1 \in T
    <2>1. k + 1 \in 1 .. l /\ (k + 1) - 1 = k /\ k + 1 \in 0 .. l BY <1>4
    <2>2. PICK acc \in Placing(M) : acc = g[k] BY <1>1 DEF IsPlacing
    <2>3. PICK m \in M : m = s[k + 1] BY <2>1
    <2>4. g[k + 1] = PlaceFixed(fixed, acc, m) BY <1>1, <2>1, <2>2, <2>3 DEF IsPlacing
    <2>5. PICK q \in Seq(M) : q = acc.msgs BY DEF Placing
    <2>6. acc = [idx |-> acc.idx, msgs |-> q] BY <2>5 DEF Placing
    <2>7. Comes(q) BY <1>4, <2>2, <2>5
    <2>8. ASSUME NEW z \in M, Has(fixed, z) \/ (Has(s, z) /\ ~z.visible) PROVE Comes(Append(q, z))
      <3>1. PICK u \in Seq(M) : Longer(u, q, z) BY Appended
      <3>2. \A j \in DOMAIN u : (j \in DOMAIN q /\ u[j] = q[j]) \/ u[j] = z BY <3>1 DEF Longer
      <3>3. Comes(u) BY <2>7, <2>8, <3>2
      <3> HIDE DEF Comes
      <3> QED BY <3>1, <3>3 DEF Longer
    <2>9. Comes(g[k + 1].msgs)
      <3>1. CASE ~m.visible
        <4>1. g[k + 1].msgs = Append(q, m) BY <2>4, <2>5, <2>6, <3>1 DEF PlaceFixed
        <4>2. Has(s, m) BY <2>1, <2>3 DEF Has
        <4> HIDE DEF Comes
        <4> QED BY <2>8, <3>1, <4>1, <4>2
      <3>2. CASE m.visible /\ acc.idx + 1 \in DOMAIN fixed
        <4>1. PICK z \in M : z = fixed[acc.idx + 1] BY <3>2
        <4>2. g[k + 1].msgs = Append(q, z) BY <2>4, <2>5, <2>6, <3>2, <4>1 DEF PlaceFixed
        <4>3. Has(fixed, z) BY <3>2, <4>1 DEF Has
        <4> HIDE DEF Comes
        <4> QED BY <2>8, <4>2, <4>3
      <3>3. CASE m.visible /\ acc.idx + 1 \notin DOMAIN fixed
        <4>1. g[k + 1].msgs = q BY <2>4, <2>5, <2>6, <3>3 DEF PlaceFixed
        <4> HIDE DEF Comes
        <4> QED BY <2>7, <4>1
      <3> QED BY <3>1, <3>2, <3>3
    <2> HIDE DEF Comes
    <2> QED BY <2>1, <2>9
  <1>5. Comes(g[l].msgs)
    <2>1. l \in T
      <3> HIDE DEF T
      <3>1. \A k \in 0 .. l : k \in T BY <1>2, <1>3, <1>4, InductionTo
      <3> QED BY <1>2, <3>1
    <2> HIDE DEF Comes
    <2> QED BY <2>1
  <1> QED BY <1>1, <1>5

LEMMA MessagesFit == IsMessages(Messages) /\ HasRows(Messages)
PROOF
  <1> SUFFICES ASSUME NEW m \in Messages
               PROVE  /\ m.role \in {"user", "assistant"} /\ m.items \in Seq(Content)
                      /\ \A its \in Seq(Content) : /\ WithItemsAgrees(Messages, m, its)
                                                   /\ WithItems(m, its).mid = m.mid
    BY DEF IsMessages, HasRows
  <1>1. ASSUME NEW its \in Seq(Content)
        PROVE  WithItemsAgrees(Messages, m, its) /\ WithItems(m, its).mid = m.mid
    <2>1. PICK w : w = WithItems(m, its) OBVIOUS
    <2>2. w = [role |-> m.role, visible |-> m.visible, items |-> its, created |-> m.created, mid |-> m.mid]
      BY <2>1 DEF WithItems, Messages
    <2>3. /\ w \in Messages /\ w.role = m.role /\ w.visible = m.visible /\ w.items = its
          /\ w.mid = m.mid
      BY <2>2 DEF Messages
    <2> QED BY <2>1, <2>3 DEF WithItemsAgrees
  <1> QED BY <1>1 DEF Messages

\* A message that a summary may have to hide, or whose row it may be merged into
Busy(m) == m.role = "assistant" \/ \E x : IsCall(x) /\ Has(m.items, x)

BusyIds(s) == {s[n].mid : n \in {k \in DOMAIN s : Busy(s[k])}}

\* Messages of which those of the assistant are in rows with the ids in I
AssistantsIn(I) == {m \in Messages : m.role = "assistant" => m.mid \in I}

LEMMA BusyFit == \A I : IsMessages(AssistantsIn(I))
PROOF
  <1> SUFFICES ASSUME NEW I, NEW m \in AssistantsIn(I)
               PROVE  /\ m.role \in {"user", "assistant"} /\ m.items \in Seq(Content)
                      /\ \A its \in Seq(Content) : WithItemsAgrees(AssistantsIn(I), m, its)
    BY DEF IsMessages
  <1>1. m \in Messages /\ (m.role = "assistant" => m.mid \in I) BY DEF AssistantsIn
  <1>2. ASSUME NEW its \in Seq(Content) PROVE WithItemsAgrees(AssistantsIn(I), m, its)
    <2>1. PICK w \in Messages : /\ w = WithItems(m, its) /\ w.role = m.role /\ w.visible = m.visible
                                /\ w.items = its /\ w.mid = m.mid
      BY <1>1, MessagesFit DEF IsMessages, HasRows, WithItemsAgrees
    <2>2. w \in AssistantsIn(I) BY <1>1, <2>1 DEF AssistantsIn
    <2> QED BY <2>1, <2>2 DEF WithItemsAgrees
  <1> QED BY <1>1, <1>2 DEF Messages

\* Each message the model sees of s is of one call
OneCallSeen(s) == \A n \in DOMAIN s : s[n].visible => OneCall(s[n])

\* What fixing makes of a conversation: the calls are paired, none is made up,
\* and they stay in the rows of messages that talk of calls
LEMMA FixedCalls ==
  ASSUME NEW s \in Seq(Messages), Sendable(Visible(s))
  PROVE  \E r \in Seq(Messages) :
           /\ r = Fixed(s) /\ (\A i \in Nat : OnePair(r, i)) /\ OneCallSeen(r)
           /\ \A i : Mentioned(r, i) => Mentioned(s, i)
           /\ BusyIds(r) \subseteq BusyIds(s)
PROOF
  <1> DEFINE M == AssistantsIn(BusyIds(s))
  <1>1. IsMessages(M) BY BusyFit
  <1>2. s \in Seq(M)
    <2>1. \A n \in 1 .. Len(s) : s[n] \in M
      <3> SUFFICES ASSUME NEW n \in 1 .. Len(s), s[n].role = "assistant" PROVE s[n].mid \in BusyIds(s)
        BY DEF AssistantsIn
      <3>1. Busy(s[n]) /\ n \in DOMAIN s BY DEF Busy
      <3> QED BY <3>1 DEF BusyIds
    <2> HIDE DEF M
    <2> QED BY <2>1
  <1>3. PICK v \in Seq(Messages) : v = Visible(s) BY VisibleType
  <1>4. BeginsWithWords(v) /\ OneCallEach(v) /\ (\A i \in Nat : AskedOnce(v, i) /\ Near(v, i))
    BY <1>3 DEF Sendable
  <1>5. \E x : x.kind \in {"text", "blank"} /\ UserHas(Visible(s), x)
    <2>1. PICK x : x.kind \in {"text", "blank"} /\ Has(v[1].items, x)
      BY <1>4 DEF BeginsWithWords, HasWords
    <2>2. v # <<>> /\ v[1].role = "user" BY <1>4 DEF BeginsWithWords
    <2>3. 1 \in DOMAIN v BY <2>2
    <2>4. UserSays(v, x, 1) BY <2>1, <2>2, <2>3 DEF UserSays
    <2> QED BY <1>3, <2>1, <2>4 DEF UserHas
  <1>6. PICK r \in Seq(M) : r = Fixed(s)
    <2>1. Fixed(s) \in Seq(M)
      <3> HIDE DEF M
      <3> QED BY <1>1, <1>2, <1>5, FixedUser
    <2> QED BY <2>1
  <1>7. r \in Seq(Messages) /\ \A n \in DOMAIN r : r[n].role = "assistant" => r[n].mid \in BusyIds(s)
    BY DEF AssistantsIn
  <1> HIDE DEF M
  <1>8. v # <<>> /\ Visible(r) = FixMessages(v)
    <2>1. v # <<>> BY <1>4 DEF BeginsWithWords
    <2> QED BY <1>3, <1>6, <2>1, MessagesFit, FixedVisible
  <1>9. PICK f \in Seq(Messages) : f = Visible(r) BY <1>7, VisibleType
  <1>10. \A i \in Nat : WellPaired(f, i) BY <1>4, <1>8, <1>9, MessagesFit, FixMessagesPaired
  <1>11. From(f, v) /\ OneCallEach(f) BY <1>4, <1>8, <1>9, MessagesFit, FixMessagesCalls
  <1>12. \A i \in Nat : OnePair(r, i) BY <1>7, <1>9, <1>10, SeenPairs
  <1>13. \A n \in DOMAIN r : r[n].visible => \E k \in DOMAIN f : f[k] = r[n]
    BY <1>7, <1>9, VisiblePlaces
  <1>14. \A k \in DOMAIN v : \E n \in DOMAIN s : s[n].visible /\ v[k] = s[n] BY <1>3, VisiblePlaces
  <1>15. OneCallSeen(r) BY <1>11, <1>13 DEF OneCallSeen, OneCallEach
  <1>16. ASSUME NEW i, Mentioned(r, i) PROVE Mentioned(s, i)
    <2>1. PICK n \in DOMAIN r : Tells(r[n], i) BY <1>16 DEF Mentioned
    <2>2. PICK k \in DOMAIN f : f[k] = r[n] BY <1>13, <2>1 DEF Tells
    <2>3. PICK x \in {Request(i), Response(i)} : In(f, x, k) BY <2>1, <2>2 DEF Tells, In
    <2>4. IsCall(x) BY DEF IsCall, Request, Response
    <2>5. PICK m : In(v, x, m) BY <1>11, <2>3, <2>4 DEF From
    <2>6. PICK a \in DOMAIN s : s[a].visible /\ v[m] = s[a] BY <1>14, <2>5 DEF In
    <2>7. Tells(s[a], i) BY <2>5, <2>6 DEF Tells, In
    <2> QED BY <2>7 DEF Mentioned
  <1>17. r = Placed(FixMessages(v), s).msgs BY <1>3, <1>6 DEF Fixed
  <1>18. \A j \in DOMAIN r : Has(f, r[j]) \/ Has(s, r[j]) BY <1>8, <1>9, <1>17, PlacedFrom
  <1>19. ASSUME NEW n \in DOMAIN r, Busy(r[n]) PROVE r[n].mid \in BusyIds(s)
    <2>1. CASE Has(s, r[n])
      <3>1. PICK k \in DOMAIN s : s[k] = r[n] BY <2>1 DEF Has
      <3> QED BY <1>19, <3>1 DEF BusyIds
    <2>2. CASE Has(f, r[n]) /\ r[n].role # "assistant"
      <3>1. PICK k \in DOMAIN f : f[k] = r[n] BY <2>2 DEF Has
      <3>2. PICK x : IsCall(x) /\ Has(r[n].items, x) BY <1>19, <2>2 DEF Busy
      <3>3. In(f, x, k) BY <3>1, <3>2 DEF In
      <3>4. x \in Content
        <4>1. PICK m \in Messages : m = f[k] OBVIOUS
        <4>2. PICK t \in Seq(Content) : t = m.items BY DEF Messages
        <4> QED BY <3>3, <4>1, <4>2 DEF In, Has
      <3>5. PICK i \in Nat : i = x.id BY <3>4 DEF Content
      <3>6. x.kind = "response"
        <4> SUFFICES ASSUME x.kind = "request" PROVE FALSE BY <3>2 DEF IsCall
        <4>1. In(f, Request(i), k) BY <3>3, <3>4, <3>5, ContentKinds
        <4> QED BY <1>10, <2>2, <3>1, <4>1 DEF WellPaired
      <3>7. PICK m : In(v, x, m) /\ f[k].mid = v[m].mid BY <1>11, <3>2, <3>3, <3>6 DEF From
      <3>8. PICK a \in DOMAIN s : v[m] = s[a] BY <1>14, <3>7 DEF In
      <3>9. Busy(s[a]) BY <3>2, <3>7, <3>8 DEF Busy, In
      <3> QED BY <3>1, <3>7, <3>8, <3>9 DEF BusyIds
    <2>3. CASE r[n].role = "assistant" BY <1>7, <2>3
    <2> QED BY <1>18, <2>1, <2>2, <2>3
  <1>20. BusyIds(r) \subseteq BusyIds(s) BY <1>19 DEF BusyIds
  <1> QED BY <1>6, <1>7, <1>12, <1>15, <1>16, <1>20
-----------------------------------------------------------------------------
(***************************************************************************)
(* What hiding, joining and reloading do to calls, rows and order.         *)
(***************************************************************************)
\* r is s without the messages at the places in K, which the model sees no more
Dimmed(r, s, K) ==
  /\ DOMAIN r = DOMAIN s
  /\ \A n \in DOMAIN s : /\ r[n].role = s[n].role /\ r[n].items = s[n].items
                         /\ r[n].created = s[n].created /\ r[n].mid = s[n].mid
                         /\ r[n].visible <=> s[n].visible /\ n \notin K

LEMMA Dimming ==
  ASSUME NEW s \in Seq(Messages), NEW K
  PROVE  \E r \in Seq(Messages) :
           r = [n \in DOMAIN s |-> IF n \in K THEN Hidden(s[n]) ELSE s[n]] /\ Dimmed(r, s, K)
PROOF
  <1>1. PICK r \in Seq(Messages) : r = [n \in DOMAIN s |-> IF n \in K THEN Hidden(s[n]) ELSE s[n]]
    BY Hiding
  <1>2. ASSUME NEW n \in DOMAIN s
        PROVE  /\ r[n].role = s[n].role /\ r[n].items = s[n].items
               /\ r[n].created = s[n].created /\ r[n].mid = s[n].mid
               /\ r[n].visible <=> s[n].visible /\ n \notin K
    <2>1. PICK m \in Messages : m = s[n] OBVIOUS
    <2>2. PICK w : w = Hidden(m) OBVIOUS
    <2>3. w = [role |-> m.role, visible |-> FALSE, items |-> m.items, created |-> m.created, mid |-> m.mid]
      BY <2>2 DEF Hidden, Messages
    <2>4. CASE n \in K
      <3>1. r[n] = w BY <1>1, <2>1, <2>2, <2>4
      <3>2. ~w.visible /\ w.role = m.role /\ w.items = m.items /\ w.created = m.created /\ w.mid = m.mid
        BY <2>3
      <3> QED BY <2>1, <2>4, <3>1, <3>2
    <2>5. CASE n \notin K
      <3>1. r[n] = s[n] BY <1>1, <2>5
      <3> QED BY <2>5, <3>1
    <2> QED BY <2>4, <2>5
  <1>3. DOMAIN r = DOMAIN s BY <1>1
  <1> QED BY <1>1, <1>2, <1>3 DEF Dimmed

LEMMA DimmedCalls ==
  ASSUME NEW r, NEW s, NEW K, Dimmed(r, s, K)
  PROVE  /\ \A x, n : Shown(r, x, n) <=> Shown(s, x, n) /\ n \notin K
         /\ \A i : Mentioned(r, i) => Mentioned(s, i)
         /\ Recorded(s) => Recorded(r)
         /\ OneCallSeen(s) => OneCallSeen(r)
         /\ BusyIds(r) = BusyIds(s) /\ Mids(r) = Mids(s)
PROOF
  <1>1. \A x, n : Shown(r, x, n) <=> Shown(s, x, n) /\ n \notin K BY DEF Dimmed, Shown, In
  <1>2. \A i : Mentioned(r, i) => Mentioned(s, i) BY <1>1, MentionedShown
  <1>3. ASSUME Recorded(s) PROVE Recorded(r)
    <2>1. \A n \in DOMAIN r : r[n].visible => OneSaid(r[n])
      BY <1>3 DEF Dimmed, Recorded, OneSaid
    <2>2. \A i, m, n : Shown(r, Request(i), m) /\ Shown(r, Request(i), n) => m = n
      BY <1>1, <1>3 DEF Recorded
    <2>3. ASSUME NEW i, NEW m, NEW n, Shown(r, Request(i), m), Shown(r, Response(i), n)
          PROVE  n = m + 1 /\ r[n].created <= r[m].created
      <3>1. n = m + 1 /\ s[n].created <= s[m].created BY <1>1, <1>3, <2>3 DEF Recorded
      <3>2. m \in DOMAIN s /\ n \in DOMAIN s BY <1>1, <2>3 DEF Shown, In
      <3> QED BY <3>1, <3>2 DEF Dimmed
    <2> QED BY <2>1, <2>2, <2>3 DEF Recorded
  <1>4. OneCallSeen(s) => OneCallSeen(r) BY DEF Dimmed, OneCallSeen, OneCall
  <1>5. \A n \in DOMAIN s : Busy(r[n]) <=> Busy(s[n]) BY DEF Dimmed, Busy
  <1>6. BusyIds(r) = BusyIds(s) BY <1>5 DEF Dimmed, BusyIds
  <1>7. Mids(r) = Mids(s) BY DEF Dimmed, Mids
  <1> QED BY <1>1, <1>2, <1>3, <1>4, <1>6, <1>7

\* Hiding what mentions one call leaves the others as they are
LEMMA DimmedPairs ==
  ASSUME NEW r, NEW s, NEW K, Dimmed(r, s, K), OneCallSeen(s), NEW i,
         \A n \in K : Mentions(s[n], i),
         \A n \in DOMAIN s : Mentions(s[n], i) => n \in K,
         NEW j, OnePair(s, j)
  PROVE  OnePair(r, j)
PROOF
  <1>0. \A m, k : Mentions(m, k) <=> Has(m.items, Request(k)) \/ Has(m.items, Response(k))
    BY DEF Mentions, Has
  <1>1. CASE j = i
    <2>1. \A n : ~Tells(r[n], i) \/ n \notin DOMAIN r BY <1>0 DEF Tells, Dimmed
    <2> QED BY <1>1, <2>1 DEF OnePair, Mentioned
  <1>2. CASE j # i
    <2>1. ASSUME NEW x \in {Request(j), Response(j)}, NEW n, Shown(s, x, n) PROVE n \notin K
      <3> SUFFICES ASSUME n \in K PROVE FALSE OBVIOUS
      <3>1. n \in DOMAIN s /\ s[n].visible /\ Has(s[n].items, x) BY <2>1 DEF Shown, In
      <3>2. PICK y \in {Request(i), Response(i)} : Has(s[n].items, y) BY <1>0
      <3>3. IsCall(x) /\ IsCall(y) /\ x.id = j /\ y.id = i BY <3>2 DEF IsCall, Request, Response
      <3>4. OneCall(s[n]) BY <3>1 DEF OneCallSeen
      <3> QED BY <1>2, <3>1, <3>2, <3>3, <3>4 DEF OneCall
    <2>2. /\ \A n : Shown(r, Request(j), n) <=> Shown(s, Request(j), n)
          /\ \A n : Shown(r, Response(j), n) <=> Shown(s, Response(j), n)
      BY <2>1, DimmedCalls
    <2> QED BY <2>2, MentionedShown DEF OnePair
  <1> QED BY <1>1, <1>2

LEMMA DimmedFirst ==
  ASSUME NEW r, NEW s, NEW K, Dimmed(r, s, K), NEW w, First(s, w), w \notin K PROVE First(r, w)
PROOF
  <1>1. \A n \in DOMAIN s : Speaks(r[n]) <=> Speaks(s[n]) /\ n \notin K BY DEF Speaks, Dimmed
  <1>2. w \in DOMAIN r /\ Speaks(r[w]) BY <1>1 DEF First, Dimmed
  <1>3. ASSUME NEW n \in DOMAIN r, r[n].visible, ~Speaks(r[n]) PROVE Before(r, w, n)
    <2>1. n \in DOMAIN s /\ s[n].visible /\ ~Speaks(s[n]) BY <1>1, <1>3 DEF Dimmed
    <2>2. Before(s, w, n) BY <2>1 DEF First
    <2>3. r[w].created = s[w].created /\ r[n].created = s[n].created
      BY <2>1 DEF Dimmed, First
    <2> QED BY <2>2, <2>3 DEF Before
  <1> QED BY <1>2, <1>3 DEF First

LEMMA ChainRows ==
  ASSUME NEW r, NEW s, NEW t, Chain(r, s, t)
  PROVE  /\ BusyIds(r) = BusyIds(s) \cup BusyIds(t) /\ Mids(r) = Mids(s) \cup Mids(t)
         /\ OneCallSeen(s) /\ OneCallSeen(t) => OneCallSeen(r)
         /\ Distinct(s) /\ Distinct(t) /\ (\A n \in DOMAIN t : t[n].mid \notin Mids(s)) => Distinct(r)
PROOF
  <1>1. \A k \in DOMAIN r : (k \in DOMAIN s /\ r[k] = s[k]) \/ \E j \in DOMAIN t : k = Len(s) + j /\ r[k] = t[j]
    <2> SUFFICES ASSUME NEW k \in DOMAIN r, k \notin DOMAIN s
                 PROVE  \E j \in DOMAIN t : k = Len(s) + j /\ r[k] = t[j]
      BY DEF Chain
    <2>1. PICK j \in DOMAIN t : k = Len(s) + j BY DEF Chain
    <2>2. r[k] = t[j] BY <2>1 DEF Chain
    <2> QED BY <2>1, <2>2
  <1>2. \A k \in DOMAIN s : k \in DOMAIN r /\ r[k] = s[k] BY DEF Chain
  <1>3. \A k \in DOMAIN t : Len(s) + k \in DOMAIN r /\ r[Len(s) + k] = t[k] BY DEF Chain
  <1>4. BusyIds(r) = BusyIds(s) \cup BusyIds(t) BY <1>1, <1>2, <1>3 DEF BusyIds
  <1>5. Mids(r) = Mids(s) \cup Mids(t) BY <1>1, <1>2, <1>3 DEF Mids
  <1>6. OneCallSeen(s) /\ OneCallSeen(t) => OneCallSeen(r) BY <1>1 DEF OneCallSeen
  <1>7. ASSUME Distinct(s), Distinct(t), \A n \in DOMAIN t : t[n].mid \notin Mids(s),
               NEW m \in DOMAIN r, NEW n \in DOMAIN r, r[m].mid = r[n].mid
        PROVE  m = n
    <2>1. \A k \in DOMAIN s : s[k].mid \in Mids(s) BY DEF Mids
    <2> QED BY <1>1, <1>7, <2>1 DEF Distinct
  <1>8. Distinct(s) /\ Distinct(t) /\ (\A n \in DOMAIN t : t[n].mid \notin Mids(s)) => Distinct(r)
    BY <1>7 DEF Distinct
  <1> QED BY <1>4, <1>5, <1>6, <1>8

LEMMA CreatedNat == \A m \in Messages : m.created \in Nat
PROOF
  <1> SUFFICES ASSUME NEW m \in Messages PROVE m.created \in Nat OBVIOUS
  <1> QED BY Bounds DEF Messages

\* What is added is no older than the first words
LEMMA ChainFirst ==
  ASSUME NEW s \in Seq(Messages), NEW t \in Seq(Messages), NEW r, Chain(r, s, t), NEW w, First(s, w),
         \A n \in DOMAIN t : t[n].visible /\ ~Speaks(t[n]) => s[w].created <= t[n].created
  PROVE  First(r, w) /\ r[w] = s[w]
PROOF
  <1>1. w \in DOMAIN r /\ r[w] = s[w] /\ Speaks(r[w]) /\ w \in DOMAIN s BY DEF First, Chain
  <1>2. ASSUME NEW n \in DOMAIN r, r[n].visible, ~Speaks(r[n]) PROVE Before(r, w, n)
    <2>1. CASE n \in DOMAIN s
      <3>1. r[n] = s[n] BY <2>1 DEF Chain
      <3>2. Before(s, w, n) BY <1>2, <2>1, <3>1 DEF First
      <3> QED BY <1>1, <3>1, <3>2 DEF Before
    <2>2. CASE n \notin DOMAIN s
      <3>1. PICK j \in DOMAIN t : n = Len(s) + j BY <2>2 DEF Chain
      <3>2. r[n] = t[j] BY <3>1 DEF Chain
      <3>3. s[w].created <= t[j].created BY <1>2, <3>2
      <3>4. s[w].created \in Nat /\ t[j].created \in Nat
        <4>1. s[w] \in Messages /\ t[j] \in Messages BY <1>1
        <4> QED BY <4>1, CreatedNat
      <3>5. w < n
        <4>1. w \in 1 .. Len(s) /\ j \in 1 .. Len(t) /\ Len(s) \in Nat /\ Len(t) \in Nat
          BY <1>1 DEF Chain
        <4> QED BY <3>1, <4>1
      <3>6. s[w].created < t[j].created \/ s[w].created = t[j].created BY <3>3, <3>4
      <3> QED BY <1>1, <3>2, <3>5, <3>6 DEF Before
    <2> QED BY <2>1, <2>2
  <1> QED BY <1>1, <1>2 DEF First

LEMMA ReloadRows ==
  ASSUME NEW s \in Seq(Messages)
  PROVE  \E r \in Seq(Messages) :
           /\ r = Reload(s) /\ BusyIds(r) \subseteq BusyIds(s)
           /\ \A i : Mentioned(r, i) => Mentioned(s, i)
PROOF
  <1>1. PICK r \in Seq(Messages) : r = Reload(s) /\ SameMessages(r, s) BY Reloaded
  <1>2. \A k \in DOMAIN r : \E n \in DOMAIN s : s[n] = r[k] BY <1>1 DEF SameMessages, Has
  <1>3. BusyIds(r) \subseteq BusyIds(s)
    <2> SUFFICES ASSUME NEW k \in DOMAIN r, Busy(r[k]) PROVE r[k].mid \in BusyIds(s) BY DEF BusyIds
    <2>1. PICK n \in DOMAIN s : s[n] = r[k] BY <1>2
    <2> QED BY <2>1 DEF BusyIds
  <1>4. \A i : Mentioned(r, i) => Mentioned(s, i) BY <1>2 DEF Mentioned
  <1> QED BY <1>1, <1>3, <1>4
-----------------------------------------------------------------------------
(***************************************************************************)
(* The calls in what the steps write.                                      *)
(***************************************************************************)
\* No call and no result, at most one item
Plain(m) == Len(m.items) <= 1 /\ \A x : IsCall(x) => ~Has(m.items, x)

LEMMA OnlyItem == ASSUME NEW x, NEW y PROVE Len(<<x>>) = 1 /\ (Has(<<x>>, y) <=> y = x)
PROOF
  <1>1. PICK t : t = <<x>> OBVIOUS
  <1>2. DOMAIN t = {1} /\ t[1] = x /\ Len(t) = 1 BY <1>1
  <1> QED BY <1>1, <1>2 DEF Has

LEMMA PlainItem == ASSUME NEW m, NEW x, m.items = <<x>>, ~IsCall(x) PROVE Plain(m)
PROOF
  <1>1. Len(m.items) <= 1 BY OnlyItem
  <1>2. \A y : Has(m.items, y) => y = x BY OnlyItem
  <1> QED BY <1>1, <1>2 DEF Plain

LEMMA PlainKinds ==
  /\ ~IsCall(Text("text")) /\ ~IsCall(Thinking) /\ ~IsCall(Elicitation)
  /\ \A i : ~IsCall(Prompt(i)) /\ IsCall(Request(i)) /\ IsCall(Response(i))
PROOF BY DEF IsCall, Text, Thinking, Elicitation, Prompt, Request, Response

LEMMA PlainRows ==
  ASSUME NEW t, \A n \in DOMAIN t : Plain(t[n])
  PROVE  Recorded(t) /\ (\A i : ~Mentioned(t, i)) /\ (\A i : OnePair(t, i)) /\ OneCallSeen(t)
PROOF
  <1>1. \A i : ~Mentioned(t, i) BY PlainKinds DEF Plain, Mentioned, Tells
  <1>2. \A i, n : ~Shown(t, Request(i), n) /\ ~Shown(t, Response(i), n) BY <1>1, MentionedShown
  <1>3. Recorded(t)
    <2>1. \A n \in DOMAIN t : OneSaid(t[n]) BY PlainKinds DEF OneSaid, Plain
    <2> QED BY <1>2, <2>1 DEF Recorded
  <1>4. OneCallSeen(t) BY DEF OneCallSeen, OneCall, Plain
  <1> QED BY <1>1, <1>3, <1>4 DEF OnePair

\* What a message of one item says makes it the user's words or a matter of calls
LEMMA SpeaksOnly ==
  ASSUME NEW m \in Messages, Len(m.items) <= 1, Speaks(m) PROVE ~Busy(m)
PROOF
  <1>1. PICK t \in Seq(Content) : t = m.items BY DEF Messages
  <1>2. \A k, l \in DOMAIN t : k = l
    <2>1. DOMAIN t = 1 .. Len(t) /\ Len(t) \in Nat /\ Len(t) <= 1 BY <1>1
    <2> QED BY <2>1
  <1>3. PICK x : IsWord(x) /\ Has(t, x) BY <1>1 DEF Speaks
  <1>4. \A y : Has(t, y) => y = x BY <1>2, <1>3 DEF Has
  <1>5. ~IsCall(x) BY <1>3 DEF IsWord, IsCall
  <1> QED BY <1>1, <1>4, <1>5 DEF Busy, Speaks

LEMMA SpeaksApart ==
  ASSUME NEW t \in Seq(Messages), Distinct(t), Recorded(t), NEW n \in DOMAIN t, Speaks(t[n])
  PROVE  t[n].mid \notin BusyIds(t)
PROOF
  <1>1. Len(t[n].items) <= 1 /\ t[n] \in Messages BY DEF Recorded, OneSaid, Speaks
  <1>2. ~Busy(t[n]) BY <1>1, SpeaksOnly
  <1> QED BY <1>2 DEF BusyIds, Distinct

LEMMA BusyMids == \A s : BusyIds(s) \subseteq Mids(s)
PROOF BY DEF BusyIds, Mids

\* A compacted conversation has no calls, and begins with the summary
LEMMA CompactedCalls ==
  ASSUME Talks, clock \in 1 .. MaxClock, NEW r \in Seq(Messages), Compacts(r, memory)
  PROVE  /\ Recorded(r) /\ (\A i : ~Mentioned(r, i)) /\ OneCallSeen(r)
         /\ \E w : /\ First(r, w) /\ r[w].created = clock
                   /\ \A n \in DOMAIN r : r[n].visible => w <= n
         /\ \A n \in DOMAIN r : Speaks(r[n]) => r[n].mid \notin BusyIds(r)
PROOF
  <1>1. PICK t \in Seq(SummaryRows) : SummaryOf(r, memory, t) BY DEF Compacts, SummaryOf
  <1>2. t \in Seq(Messages) /\ DOMAIN t = 1 .. Len(t) BY DEF SummaryRows
  <1>3. \A n \in DOMAIN t : /\ t[n] \in Messages /\ t[n].visible /\ t[n].items = <<Text("text")>>
                            /\ t[n].created = clock
    <2>1. \A n \in DOMAIN t : t[n] \in SummaryRows OBVIOUS
    <2> QED BY <2>1 DEF SummaryRows
  <1>4. PICK q \in Seq(Messages) : q = Kept(memory) /\ Dimmed(q, memory, DOMAIN memory)
    <2>1. PICK q \in Seq(Messages) :
            /\ q = [n \in DOMAIN memory |-> IF n \in DOMAIN memory THEN Hidden(memory[n]) ELSE memory[n]]
            /\ Dimmed(q, memory, DOMAIN memory)
      BY Dimming DEF Talks
    <2>2. q = Kept(memory) BY <2>1 DEF Kept, MapSeq
    <2> QED BY <2>1, <2>2
  <1>5. Chain(r, q, t)
    <2>1. PICK u \in Seq(Messages) : Chain(u, q, t) BY <1>2, Chained
    <2>2. u = r BY <1>1, <1>4, <2>1 DEF Chain, SummaryOf
    <2> QED BY <2>1, <2>2
  <1>6. \A n \in DOMAIN q : ~q[n].visible BY <1>4 DEF Dimmed
  <1>7. Recorded(q) /\ OneCallSeen(q) /\ \A i : ~Mentioned(q, i)
    <2>1. \A x, n : ~Shown(q, x, n) BY <1>6 DEF Shown, In
    <2> QED BY <1>6, <2>1 DEF Recorded, OneCallSeen, Mentioned, Tells
  <1>8. Recorded(t) /\ OneCallSeen(t) /\ \A i : ~Mentioned(t, i)
    <2>1. \A n \in DOMAIN t : Plain(t[n]) BY <1>3, PlainItem, PlainKinds
    <2> QED BY <2>1, PlainRows
  <1>9. Recorded(r) BY <1>5, <1>7, <1>8, ChainRecorded
  <1>10. OneCallSeen(r) /\ BusyIds(r) = BusyIds(q) \cup BusyIds(t)
    BY <1>5, <1>7, <1>8, ChainRows
  <1>11. \A i : ~Mentioned(r, i) BY <1>5, <1>7, <1>8, ChainShown
  <1>12. Speaks(t[1])
    <2>1. Has(<<Text("text")>>, Text("text")) BY OnlyItem
    <2>2. IsWord(Text("text")) BY DEF IsWord, Text
    <2> QED BY <1>1, <1>3, <2>1, <2>2 DEF Speaks, SummaryOf
  <1>13. \A n \in DOMAIN r : r[n].visible => \E j \in DOMAIN t : n = Len(q) + j /\ r[n] = t[j]
    <2> SUFFICES ASSUME NEW n \in DOMAIN r, r[n].visible
                 PROVE  \E j \in DOMAIN t : n = Len(q) + j /\ r[n] = t[j]
      OBVIOUS
    <2>1. n \notin DOMAIN q BY <1>5, <1>6 DEF Chain
    <2>2. PICK j \in DOMAIN t : n = Len(q) + j BY <1>5, <2>1 DEF Chain
    <2> QED BY <1>5, <2>2 DEF Chain
  <1>14. PICK w : w = Len(q) + 1 /\ w \in DOMAIN r /\ r[w] = t[1]
    BY <1>1, <1>5 DEF Chain, SummaryOf
  <1>15. First(r, w) /\ r[w].created = clock
    <2>1. ASSUME NEW n \in DOMAIN r, r[n].visible, ~Speaks(r[n]) PROVE Before(r, w, n)
      <3>1. PICK j \in DOMAIN t : n = Len(q) + j /\ r[n] = t[j] BY <1>13, <2>1
      <3>2. r[n].created = r[w].created BY <1>1, <1>3, <1>14, <3>1 DEF SummaryOf
      <3>3. j # 1 BY <1>12, <2>1, <3>1
      <3>4. w < n
        <4>1. Len(q) \in Nat /\ j \in 1 .. Len(t) BY <1>2
        <4> QED BY <1>14, <3>1, <3>3, <4>1
      <3> QED BY <3>2, <3>4 DEF Before
    <2>2. r[w].created = clock BY <1>1, <1>3, <1>14 DEF SummaryOf
    <2> QED BY <1>12, <1>14, <2>1, <2>2 DEF First
  <1>17. \A n \in DOMAIN r : r[n].visible => w <= n
    <2> SUFFICES ASSUME NEW n \in DOMAIN r, r[n].visible PROVE w <= n OBVIOUS
    <2>1. PICK j \in DOMAIN t : n = Len(q) + j BY <1>13
    <2>2. Len(q) \in Nat /\ j \in 1 .. Len(t) BY <1>2
    <2> QED BY <1>14, <2>1, <2>2
  <1>16. ASSUME NEW n \in DOMAIN r, Speaks(r[n]) PROVE r[n].mid \notin BusyIds(r)
    <2>1. PICK j \in DOMAIN t : r[n] = t[j] BY <1>13, <1>16 DEF Speaks
    <2>2. Distinct(t) /\ t[j].mid \notin Mids(memory) BY <1>1 DEF SummaryOf, NewIds
    <2>3. t[j].mid \notin BusyIds(t) BY <1>2, <1>8, <1>16, <2>1, <2>2, SpeaksApart
    <2>4. BusyIds(q) \subseteq Mids(memory) BY <1>4, DimmedCalls, BusyMids
    <2> QED BY <1>10, <2>1, <2>2, <2>3, <2>4
  <1> QED BY <1>9, <1>10, <1>11, <1>15, <1>16, <1>17
-----------------------------------------------------------------------------
\* Messages that record calls with the ids in A, each with its result if all are
\* answered
CallsOf(s, A, full) ==
  /\ Recorded(s) /\ (\A i : Mentioned(s, i) => i \in A)
  /\ full => \A i \in Nat : OnePair(s, i)
  /\ \A n \in DOMAIN s : s[n].created \in {born, clock}

LEMMA ChainCalls ==
  ASSUME NEW r, NEW s, NEW t, Chain(r, s, t), NEW A, NEW B, NEW C, NEW full,
         CallsOf(s, A, full), CallsOf(t, B, full), A \cap B = {}, A \cup B \subseteq C
  PROVE  CallsOf(r, C, full)
PROOF
  <1>1. \A i : ~(Mentioned(s, i) /\ Mentioned(t, i)) BY DEF CallsOf
  <1>2. Recorded(r) BY <1>1, ChainRecorded DEF CallsOf
  <1>3. \A i : Mentioned(r, i) => i \in C BY ChainShown DEF CallsOf
  <1>4. full => \A i \in Nat : OnePair(r, i) BY <1>1, ChainPairs DEF CallsOf
  <1>5. ASSUME NEW n \in DOMAIN r PROVE r[n].created \in {born, clock}
    <2>1. CASE n \in DOMAIN s BY <2>1 DEF Chain, CallsOf
    <2>2. CASE n \notin DOMAIN s
      <3>1. PICK j \in DOMAIN t : n = Len(s) + j BY <2>2 DEF Chain
      <3>2. r[n] = t[j] BY <3>1 DEF Chain
      <3> QED BY <3>2 DEF CallsOf
    <2> QED BY <2>1, <2>2
  <1> QED BY <1>2, <1>3, <1>4, <1>5 DEF CallsOf

LEMMA PairCalls ==
  ASSUME NEW s, NEW i \in Nat, NEW answered, Len(s) = 2, DOMAIN s = 1 .. 2,
         s[1].role = "assistant", s[2].role = "user",
         s[1].visible, s[1].items = <<Request(i)>>, s[1].created = clock,
         s[2].visible, s[2].items = (IF i \in answered THEN <<Response(i)>> ELSE <<>>),
         s[2].created = born, born <= clock
  PROVE  CallsOf(s, {i}, i \in answered)
PROOF
  <1>1. \A j, k : (Request(j) # Response(k)) /\ (Request(j) = Request(k) => j = k)
                  /\ (Response(j) = Response(k) => j = k)
    BY DEF Request, Response
  <1>2. Len(s[1].items) <= 1 /\ \A x : Has(s[1].items, x) <=> x = Request(i)
    <2>1. Len(<<Request(i)>>) <= 1 /\ \A x : Has(<<Request(i)>>, x) <=> x = Request(i) BY OnlyItem
    <2> QED BY <2>1
  <1>3. Len(s[2].items) <= 1 /\ \A x : Has(s[2].items, x) <=> i \in answered /\ x = Response(i)
    <2>1. CASE i \in answered BY <2>1, OnlyItem
    <2>2. CASE i \notin answered
      <3>1. s[2].items = <<>> BY <2>2
      <3>2. Len(<<>>) = 0 /\ \A x : ~Has(<<>>, x) BY DEF Has
      <3> QED BY <2>2, <3>1, <3>2
    <2> QED BY <2>1, <2>2
  <1>4. \A n : n \in DOMAIN s <=> n = 1 \/ n = 2 OBVIOUS
  <1>5. \A j, n : Shown(s, Request(j), n) <=> n = 1 /\ j = i BY <1>1, <1>2, <1>3, <1>4 DEF Shown, In
  <1>6. \A j, n : Shown(s, Response(j), n) <=> n = 2 /\ j = i /\ i \in answered
    BY <1>1, <1>2, <1>3, <1>4 DEF Shown, In
  <1>7. Recorded(s)
    <2>1. ASSUME NEW n \in DOMAIN s PROVE OneSaid(s[n])
      <3>1. CASE n = 1
        <4>1. \A j : ~Has(s[1].items, Response(j)) BY <1>1, <1>2
        <4>2. Len(s[1].items) <= 1 /\ s[1].role = "assistant" BY <1>2
        <4> QED BY <3>1, <4>1, <4>2 DEF OneSaid
      <3>2. CASE n = 2
        <4>1. \A j : ~Has(s[2].items, Request(j)) BY <1>1, <1>3
        <4>2. Len(s[2].items) <= 1 /\ s[2].role = "user" BY <1>3
        <4> QED BY <3>2, <4>1, <4>2 DEF OneSaid
      <3> QED BY <1>4, <3>1, <3>2
    <2> QED BY <1>5, <1>6, <2>1 DEF Recorded
  <1>8. \A j : Mentioned(s, j) => j \in {i} BY <1>5, <1>6, MentionedShown
  <1>9. ASSUME i \in answered, NEW j PROVE OnePair(s, j)
    <2>1. CASE j # i BY <1>8, <2>1 DEF OnePair
    <2>2. CASE j = i
      <3>1. 1 < 2 OBVIOUS
      <3> QED BY <1>5, <1>6, <1>9, <2>2, <3>1 DEF OnePair
    <2> QED BY <2>1, <2>2
  <1>10. \A n \in DOMAIN s : s[n].created \in {born, clock} BY <1>4
  <1> QED BY <1>7, <1>8, <1>9, <1>10 DEF CallsOf

LEMMA PlainCalls ==
  ASSUME NEW s, NEW A, NEW full, \A n \in DOMAIN s : Plain(s[n]) /\ s[n].created \in {born, clock}
  PROVE  CallsOf(s, A, full)
PROOF BY PlainRows DEF CallsOf

LEMMA NewFields ==
  ASSUME NEW role, NEW its, NEW created
  PROVE  /\ New(role, its, created).role = role /\ New(role, its, created).visible
         /\ New(role, its, created).items = its /\ New(role, its, created).created = created
PROOF BY DEF New

\* e records the calls at hand
RecordsOf(e, parsed, answered) ==
  CallsOf(e, {batch[k] : k \in DOMAIN batch}, answered = parsed)

LEMMA RecordsCalls ==
  ASSUME batch \in Seq(Nat), born \in 1 .. MaxClock, clock \in 1 .. MaxClock, born <= clock,
         \A k, l \in DOMAIN batch : batch[k] = batch[l] => k = l,
         NEW parsed, NEW answered \in SUBSET parsed, NEW thought \in Thoughts
  PROVE  \E e \in Seq(Seen(Messages)) :
           e = thought \o Records(parsed, answered) /\ RecordsOf(e, parsed, answered)
PROOF
  <1> DEFINE F == Recording(parsed, answered)
             full == answered = parsed
             l == Len(batch)
             A(n) == {batch[k] : k \in 1 .. n}
             V == Seen(Messages)
  <1>1. F \in [1 .. l -> Seq(V)] /\ thought \in Seq(V) BY RecordingType
  <1>2. l \in Nat /\ DOMAIN batch = 1 .. l OBVIOUS
  <1>3. CallsOf(thought, {}, full)
    <2>1. \A n \in DOMAIN thought : thought[n] = New("assistant", <<Thinking>>, born) BY DEF Thoughts
    <2>2. \A n \in DOMAIN thought : Plain(thought[n]) /\ thought[n].created = born
      BY <2>1, NewFields, PlainItem, PlainKinds
    <2> HIDE DEF full
    <2> QED BY <2>2, PlainCalls
  <1>4. ASSUME NEW k \in 1 .. l PROVE CallsOf(F[k], {batch[k]}, full)
    <2>1. PICK i \in Nat : i = batch[k] BY <1>2
    <2>2. CASE i \in parsed
      <3>1. F[k] = Pair(i, answered) BY <1>2, <2>1, <2>2 DEF Recording
      <3>2. PICK p : p = Pair(i, answered) OBVIOUS
      <3>3. /\ Len(p) = 2 /\ DOMAIN p = 1 .. 2 /\ p[1] = New("assistant", <<Request(i)>>, clock)
            /\ p[2] = Answered(i, answered)
        BY <3>2 DEF Pair
      <3>4. CallsOf(p, {i}, i \in answered)
        <4>1. /\ p[1].role = "assistant" /\ p[2].role = "user"
              /\ p[1].visible /\ p[1].items = <<Request(i)>> /\ p[1].created = clock
              /\ p[2].visible /\ p[2].items = (IF i \in answered THEN <<Response(i)>> ELSE <<>>)
              /\ p[2].created = born
          BY <3>3, NewFields DEF Answered
        <4> QED BY <3>3, <4>1, PairCalls
      <3>5. full => i \in answered BY <2>2
      <3> QED BY <2>1, <3>1, <3>2, <3>4, <3>5 DEF CallsOf
    <2>3. CASE i \notin parsed
      <3>1. F[k] = <<New("user", <<Text("text")>>, clock)>> BY <1>2, <2>1, <2>3 DEF Recording
      <3>2. PICK p : p = <<New("user", <<Text("text")>>, clock)>> OBVIOUS
      <3>3. DOMAIN p = {1} /\ p[1] = New("user", <<Text("text")>>, clock) BY <3>2
      <3>4. \A n \in DOMAIN p : Plain(p[n]) /\ p[n].created \in {born, clock}
        BY <3>3, NewFields, PlainItem, PlainKinds
      <3> HIDE DEF full, F
      <3> QED BY <3>1, <3>2, <3>4, PlainCalls
    <2> QED BY <2>2, <2>3
  <1>5. Records(parsed, answered) = FlattenSeq(F) BY DEF Records, Recording
  <1> HIDE DEF F, full, V
  <1>6. PICK r \in Seq(V) : r = FlattenSeq(F) /\ CallsOf(r, A(l), full)
    <2>1. CASE l = 0
      <3>1. F = <<>> /\ FlattenSeq(F) = <<>>
        <4>1. Len(F) = 0 /\ F = <<>> BY <1>1, <2>1
        <4> QED BY <4>1 DEF FlattenSeq
      <3>2. CallsOf(<<>>, A(l), full) BY PlainCalls
      <3>3. <<>> \in Seq(V) OBVIOUS
      <3> QED BY <3>1, <3>2, <3>3
    <2>2. CASE l # 0
      <3>1. l \in Nat \ {0} BY <1>2, <2>2
      <3>2. PICK g \in [1 .. l -> Seq(V)] : IsFlattening(g, F, l) BY <1>1, <3>1, FlattenTrace
      <3> DEFINE T == {k \in 0 .. l : k # 0 => CallsOf(g[k], A(k), full)}
      <3>3. 0 \in T BY <1>2
      <3>4. ASSUME NEW k \in 0 .. l, k # l, k \in T PROVE k + 1 \in T
        <4>1. k + 1 \in 1 .. l /\ (k + 1) - 1 = k /\ k + 1 \in 0 .. l /\ k \in Nat BY <1>2, <3>4
        <4>2. CallsOf(F[k + 1], {batch[k + 1]}, full) BY <1>4, <4>1
        <4>3. A(k) \cup {batch[k + 1]} \subseteq A(k + 1) BY <4>1
        <4>4. CASE k = 0
          <5>1. g[k + 1] = F[k + 1] BY <3>2, <4>4 DEF IsFlattening
          <5>2. CallsOf(g[k + 1], A(k + 1), full) BY <4>2, <4>3, <5>1 DEF CallsOf
          <5> QED BY <4>1, <5>2
        <4>5. CASE k # 0
          <5>1. k \in 1 .. l /\ k + 1 \in 2 .. l BY <4>1, <4>5
          <5>2. g[k + 1] = g[k] \o F[k + 1] BY <3>2, <4>1, <5>1 DEF IsFlattening
          <5>3. PICK q \in Seq(V), p \in Seq(V) : q = g[k] /\ p = F[k + 1] BY <1>1, <4>1, <5>1
          <5>4. PICK u \in Seq(V) : Chain(u, q, p) BY Chained
          <5>5. A(k) \cap {batch[k + 1]} = {}
            <6> SUFFICES ASSUME NEW j \in 1 .. k, batch[j] = batch[k + 1] PROVE FALSE OBVIOUS
            <6>1. j \in 1 .. l /\ j # k + 1 BY <4>1
            <6> QED BY <1>2, <4>1, <6>1
          <5>6. CallsOf(q, A(k), full) /\ CallsOf(p, {batch[k + 1]}, full)
            BY <3>4, <4>2, <4>5, <5>3
          <5> HIDE DEF A
          <5>7. CallsOf(u, A(k + 1), full) BY <4>3, <5>4, <5>5, <5>6, ChainCalls
          <5>8. u = g[k + 1] BY <5>2, <5>3, <5>4 DEF Chain
          <5> QED BY <4>1, <5>7, <5>8
        <4> QED BY <4>4, <4>5
      <3>5. CallsOf(g[l], A(l), full)
        <4>1. l \in T
          <5> HIDE DEF T
          <5>1. \A k \in 0 .. l : k \in T BY <1>2, <3>3, <3>4, InductionTo
          <5> QED BY <1>2, <5>1
        <4> HIDE DEF A
        <4> QED BY <2>2, <4>1
      <3> HIDE DEF A
      <3> QED BY <3>1, <3>2, <3>5 DEF IsFlattening
    <2> QED BY <2>1, <2>2
  <1>7. PICK e \in Seq(V) : Chain(e, thought, r) BY <1>1, Chained
  <1>8. A(l) = {batch[k] : k \in DOMAIN batch} BY <1>2
  <1>9. CallsOf(e, A(l), full)
    <2> HIDE DEF A
    <2>1. {} \cap A(l) = {} /\ {} \cup A(l) \subseteq A(l) OBVIOUS
    <2> QED BY <1>3, <1>6, <1>7, <2>1, ChainCalls
  <1> QED BY <1>5, <1>6, <1>7, <1>8, <1>9 DEF Chain, full, V, RecordsOf
-----------------------------------------------------------------------------
(***************************************************************************)
(* The invariant of the replies: what is in the store, in the memory and   *)
(* in the messages of the turn at hand, and in which order.                *)
(***************************************************************************)
\* What is empty where
Shape ==
  /\ pc # "save" => toHide = <<>>
  /\ pc \in {"idle", "compact", "top"} => adding = <<>>
  /\ pc = "stream" /\ items = 0 => adding = <<>>
  /\ pc # "tools" => batch = <<>>
  /\ pc = "tools" => items # 0 /\ born <= clock

\* No message of the turn is older than c, but words of the user's
Earliest(c) ==
  /\ c <= clock /\ (pc = "tools" => c <= born)
  /\ \A n \in DOMAIN adding : ~Speaks(adding[n]) => c <= adding[n].created

\* The store is in the order of its calls, and begins with words of the user's
Ordered ==
  /\ Recorded(stored)
  /\ pc # "idle" \/ stored # <<>> \/ asked => \E w : First(stored, w) /\ Earliest(stored[w].created)

\* m is no row of a, and tells of none of its calls
Unsaved(m, a) == m.mid \notin Mids(a) /\ \A i : ~(Tells(m, i) /\ Mentioned(a, i))

NoneSaved(s, a) == \A k \in DOMAIN s : Unsaved(s[k], a)

\* The last c rows of s are the first messages of a
Written(s, a, l, c) ==
  /\ Len(s) = l + c /\ c <= Len(a)
  /\ \A k \in 1 .. c : s[l + k] = a[k]
  /\ \A k \in 1 .. l : Unsaved(s[k], a)

\* The messages of the turn are written in their order, once
Saving ==
  \E l, c \in Nat : Written(stored, adding, l, c) /\ (c # 0 => pc = "save" /\ toHide = <<>>)

Known(i) == Mentioned(memory, i) \/ Mentioned(stored, i) \/ Mentioned(adding, i)

\* The calls at hand are new, and no two of them are the same
Fresh ==
  /\ \A i : Known(i) => i \in 1 .. calls /\ \A k \in DOMAIN batch : batch[k] # i
  /\ \A k, l \in DOMAIN batch : batch[k] \in 1 .. calls /\ (batch[k] = batch[l] => k = l)

\* The turn has recorded whole calls, unless it was cancelled
Adds ==
  /\ Recorded(adding) /\ Distinct(adding) /\ Mids(adding) \cap Mids(memory) = {}
  /\ ~cancelled => \A i \in Nat : OnePair(adding, i)
  /\ \A i : ~(Mentioned(memory, i) /\ Mentioned(adding, i))

\* What the model is sent has whole calls
Sends ==
  pc \notin {"idle", "compact"} /\ ~(pc = "top" /\ cancelled) =>
    (\A i \in Nat : OnePair(memory, i)) /\ OneCallSeen(memory)

SpeakIds(s) == {s[n].mid : n \in {k \in DOMAIN s : Speaks(s[k])}}

HideIds == {toHide[k] : k \in DOMAIN toHide}

\* A summary hides no words of the user's
Apart ==
  (SpeakIds(stored) \cup SpeakIds(adding))
    \cap (BusyIds(stored) \cup BusyIds(adding) \cup BusyIds(memory) \cup HideIds) = {}

Kinship == Ordered /\ Saving /\ Fresh /\ Adds /\ Sends /\ Apart

LEMMA ShapeNext == ASSUME LoopType, Shape, [Next]_vars PROVE Shape'
PROOF
  <1> USE DEF Shape
  <1>0. items \in Nat /\ clock \in Nat BY BoundTypes DEF LoopType, Rest, Counted
  <1>1. CASE UNCHANGED vars BY <1>1 DEF vars, turn, call, summary, session, count
  <1>2. CASE StartReply BY <1>2 DEF StartReply, turn, call, summary, session
  <1>3. CASE AutoCompact BY <1>3 DEF AutoCompact, turn, call, summary, session
  <1>4. CASE AutoCompactFails \/ Leave \/ Drop BY <1>4 DEF AutoCompactFails, Leave, Drop, Gone
  <1>5. CASE StartTurn BY <1>5 DEF StartTurn, call, session
  <1>6. CASE SayText BY <1>0, <1>6 DEF SayText, Item, call, summary, session
  <1>7. CASE CallTools BY <1>0, <1>7 DEF CallTools, Item, summary, session
  <1>8. CASE ToolsDone BY <1>8 DEF ToolsDone, summary, count
  <1>9. CASE Overflow \/ OverflowAgain
    BY <1>9 DEF Overflow, OverflowAgain, Item, call, summary, session
  <1>10. CASE StreamEnds BY <1>10 DEF StreamEnds, turn, call, summary, session, count
  <1>11. CASE AfterStream BY <1>11 DEF AfterStream, call, summary, session, count
  <1>12. CASE ChecksPass \/ ChecksFail \/ NoSummary
    BY <1>12 DEF ChecksPass, ChecksFail, NoSummary, turn, call, summary, session, count
  <1>13. CASE Summarize BY <1>13 DEF Summarize, turn, call, session, count
  <1>14. CASE HideStored BY <1>14 DEF HideStored, turn, call, session, count
  <1>15. CASE SaveMessage BY <1>15 DEF SaveMessage, turn, call, summary, session, count
  <1>16. CASE TurnEnds BY <1>16 DEF TurnEnds, Gone, turn, call, summary, session
  <1>17. CASE Elicit \/ Answer BY <1>17 DEF Elicit, Answer, turn, summary, session, count
  <1>18. CASE Cancel BY <1>18 DEF Cancel, turn, call, summary, session, count
  <1>19. CASE Tick
    <2>1. pc = "tools" => born <= clock + 1
      <3>1. pc = "tools" => born <= clock /\ born \in Nat BY BoundTypes DEF LoopType, Rest, Hand
      <3> QED BY <1>0, <3>1
    <2> QED BY <1>19, <2>1 DEF Tick, turn, call, summary, session, count
  <1> QED BY <1>1, <1>2, <1>3, <1>4, <1>5, <1>6, <1>7, <1>8, <1>9, <1>10, <1>11, <1>12, <1>13,
             <1>14, <1>15, <1>16, <1>17, <1>18, <1>19 DEF Next, Step
-----------------------------------------------------------------------------
LEMMA NoneSavedYet ==
  ASSUME Talks, Saving, pc # "save" \/ toHide # <<>> PROVE NoneSaved(stored, adding)
PROOF
  <1>1. PICK l \in Nat : Written(stored, adding, l, 0)
    <2>1. PICK l \in Nat, c \in Nat :
            Written(stored, adding, l, c) /\ (c # 0 => pc = "save" /\ toHide = <<>>)
      BY DEF Saving
    <2> QED BY <2>1
  <1>2. Len(stored) = l BY <1>1 DEF Written
  <1>3. DOMAIN stored = 1 .. l BY <1>2 DEF Talks
  <1> QED BY <1>1, <1>3 DEF Written, NoneSaved

LEMMA NothingSaved ==
  ASSUME NEW s \in Seq(Messages), NEW a \in Seq(Messages), NoneSaved(s, a)
  PROVE  \E l, c \in Nat : c = 0 /\ Written(s, a, l, c)
PROOF
  <1>1. PICK l \in Nat : l = Len(s) OBVIOUS
  <1>2. DOMAIN s = 1 .. l /\ Len(a) \in Nat BY <1>1
  <1>3. l + 0 = l /\ 0 \in Nat /\ 1 .. 0 = {} /\ 0 <= Len(a) BY <1>2
  <1>4. Written(s, a, l, 0) BY <1>1, <1>2, <1>3 DEF Written, NoneSaved
  <1> QED BY <1>3, <1>4

LEMMA Nothing ==
  /\ Recorded(<<>>) /\ (\A i : ~Mentioned(<<>>, i) /\ OnePair(<<>>, i)) /\ OneCallSeen(<<>>)
  /\ Distinct(<<>>) /\ BusyIds(<<>>) = {} /\ SpeakIds(<<>>) = {} /\ Mids(<<>>) = {}
  /\ \A s : NoneSaved(s, <<>>) /\ NoneSaved(<<>>, s)
PROOF
  <1>1. Recorded(<<>>) /\ (\A i : ~Mentioned(<<>>, i) /\ OnePair(<<>>, i)) /\ OneCallSeen(<<>>)
    BY PlainRows
  <1>2. Distinct(<<>>) /\ BusyIds(<<>>) = {} /\ SpeakIds(<<>>) = {} /\ Mids(<<>>) = {}
    BY DEF Distinct, BusyIds, SpeakIds, Mids
  <1> QED BY <1>1, <1>2 DEF NoneSaved, Unsaved

LEMMA SpeakMids == \A s : SpeakIds(s) \subseteq Mids(s) /\ BusyIds(s) \subseteq Mids(s)
PROOF BY DEF SpeakIds, BusyIds, Mids

\* Steps that leave the conversations as they are
LEMMA QuietKin ==
  ASSUME LoopType, LoopType', Kinship, UNCHANGED <<memory, stored, adding, toHide>>,
         clock <= clock', pc # "idle" \/ (pc' = "idle" /\ asked' = asked),
         pc = "save" => pc' = "save",
         pc' = "tools" => born' = clock \/ (pc = "tools" /\ born' = born),
         ~cancelled' => ~cancelled,
         pc' \notin {"idle", "compact"} /\ ~(pc' = "top" /\ cancelled') =>
           pc \notin {"idle", "compact"} /\ ~(pc = "top" /\ cancelled)
  PROVE  Ordered' /\ Saving' /\ Adds' /\ Sends' /\ Apart'
PROOF
  <1> USE DEF Kinship
  <1>1. Ordered'
    <2>1. ASSUME NEW w, First(stored, w), Earliest(stored[w].created)
          PROVE  Earliest(stored[w].created)'
      <3>1. PICK c \in Nat : c = stored[w].created
        <4>1. stored[w] \in Messages BY <2>1 DEF LoopType, Talks, First
        <4> QED BY <4>1, CreatedNat
      <3>2. clock \in Nat /\ clock' \in Nat BY BoundTypes DEF LoopType, Rest
      <3>3. c <= clock' BY <2>1, <3>1, <3>2 DEF Earliest
      <3>4. pc' = "tools" => c <= born' BY <2>1, <3>1 DEF Earliest
      <3> QED BY <2>1, <3>1, <3>3, <3>4 DEF Earliest
    <2> QED BY <2>1 DEF Ordered
  <1>2. Saving' BY DEF Saving
  <1>3. Adds' BY DEF Adds
  <1>4. Sends' BY DEF Sends
  <1>5. Apart' BY DEF Apart, HideIds
  <1> QED BY <1>1, <1>2, <1>3, <1>4, <1>5

LEMMA GoneKin ==
  ASSUME LoopType, LoopType', Kinship, Gone, pc # "idle",
         UNCHANGED <<stored, calls, clock>>
  PROVE  Kinship'
PROOF
  <1> USE DEF Kinship, Gone
  <1>0. memory' = <<>> /\ adding' = <<>> /\ toHide' = <<>> /\ batch' = <<>> /\ pc' = "idle" OBVIOUS
  <1>1. Ordered'
    <2>1. \A c : Earliest(c) => Earliest(c)' BY <1>0 DEF Earliest
    <2> QED BY <1>0, <2>1 DEF Ordered
  <1>2. Saving'
    <2>1. NoneSaved(stored', adding') BY <1>0, Nothing
    <2>2. stored' \in Seq(Messages) /\ adding' \in Seq(Messages) BY DEF LoopType, Talks
    <2> QED BY <2>1, <2>2, NothingSaved DEF Saving
  <1>3. Fresh'
    <2>1. \A i : Known(i)' => Known(i) BY <1>0, Nothing DEF Known
    <2> QED BY <1>0, <2>1 DEF Fresh
  <1>4. Adds' BY <1>0, Nothing DEF Adds
  <1>5. Sends' BY <1>0 DEF Sends
  <1>6. Apart'
    <2>1. HideIds' = {} BY <1>0 DEF HideIds
    <2> QED BY <1>0, <2>1, Nothing DEF Apart
  <1> QED BY <1>1, <1>2, <1>3, <1>4, <1>5, <1>6
-----------------------------------------------------------------------------
(***************************************************************************)
(* How rows are added: numbered, and apart from those there are.           *)
(***************************************************************************)
LEMMA NumberedCalls ==
  ASSUME NEW t \in Seq(Messages), NEW e, DOMAIN e = 1 .. Len(e), IsNumbered(t, e),
         \A n \in DOMAIN e : e[n].visible
  PROVE  /\ (Recorded(e) => Recorded(t)) /\ (\A i : Mentioned(t, i) => Mentioned(e, i))
         /\ (\A i : OnePair(e, i) => OnePair(t, i))
         /\ \A n \in DOMAIN t : t[n].created = e[n].created /\ n \in DOMAIN e
PROOF
  <1>1. DOMAIN t = DOMAIN e BY DEF IsNumbered
  <1>2. \A n \in DOMAIN e : /\ t[n].role = e[n].role /\ t[n].items = e[n].items
                          /\ t[n].created = e[n].created /\ t[n].visible
    BY DEF IsNumbered, Message
  <1>3. \A x, n : Shown(t, x, n) <=> Shown(e, x, n) BY <1>1, <1>2 DEF Shown, In
  <1>4. \A i : Mentioned(t, i) <=> Mentioned(e, i) BY <1>3, MentionedShown
  <1>5. ASSUME NEW i, OnePair(e, i) PROVE OnePair(t, i)
    <2>1. CASE ~Mentioned(e, i) BY <1>4, <2>1 DEF OnePair
    <2>2. CASE \E m, n : /\ m < n
                         /\ \A k : Shown(e, Request(i), k) <=> k = m
                         /\ \A k : Shown(e, Response(i), k) <=> k = n
      BY <1>3, <2>2 DEF OnePair
    <2> QED BY <1>5, <2>1, <2>2 DEF OnePair
  <1>6. Recorded(e) => Recorded(t)
    <2> SUFFICES ASSUME Recorded(e) PROVE Recorded(t) OBVIOUS
    <2>1. \A n \in DOMAIN t : t[n].visible => OneSaid(t[n]) BY <1>1, <1>2 DEF Recorded, OneSaid
    <2>2. \A i, m, n : Shown(t, Request(i), m) /\ Shown(t, Request(i), n) => m = n
      BY <1>3 DEF Recorded
    <2>3. ASSUME NEW i, NEW m, NEW n, Shown(t, Request(i), m), Shown(t, Response(i), n)
          PROVE  n = m + 1 /\ t[n].created <= t[m].created
      <3>1. Shown(e, Request(i), m) /\ Shown(e, Response(i), n) BY <1>3, <2>3
      <3>2. m \in DOMAIN e /\ n \in DOMAIN e BY <3>1 DEF Shown, In
      <3>3. t[n].created = e[n].created /\ t[m].created = e[m].created BY <1>2, <3>2
      <3>4. n = m + 1 /\ e[n].created <= e[m].created BY <3>1 DEF Recorded
      <3> QED BY <3>3, <3>4
    <2> QED BY <2>1, <2>2, <2>3 DEF Recorded
  <1> QED BY <1>1, <1>2, <1>4, <1>5, <1>6

LEMMA RecordedSeen == ASSUME NEW t \in Seq(Messages), Recorded(t) PROVE OneCallSeen(t)
PROOF
  <1> SUFFICES ASSUME NEW n \in DOMAIN t, t[n].visible, NEW x, NEW y, Has(t[n].items, x), Has(t[n].items, y)
               PROVE  x = y
    BY DEF OneCallSeen, OneCall
  <1>1. t[n] \in Messages OBVIOUS
  <1>2. Len(t[n].items) <= 1 /\ t[n].items \in Seq(Content) BY <1>1 DEF Recorded, OneSaid, Messages
  <1>3. \A k \in DOMAIN t[n].items : k = 1 BY <1>2
  <1> QED BY <1>3 DEF Has

LEMMA ChainSpeaks ==
  ASSUME NEW r, NEW s, NEW t, Chain(r, s, t) PROVE SpeakIds(r) = SpeakIds(s) \cup SpeakIds(t)
PROOF
  <1>1. ASSUME NEW k \in DOMAIN s, Speaks(s[k]) PROVE s[k].mid \in SpeakIds(r)
    <2>1. k \in DOMAIN r /\ r[k] = s[k] BY <1>1 DEF Chain
    <2>2. Speaks(r[k]) /\ r[k].mid = s[k].mid BY <1>1, <2>1
    <2> QED BY <2>1, <2>2 DEF SpeakIds
  <1>2. ASSUME NEW k \in DOMAIN t, Speaks(t[k]) PROVE t[k].mid \in SpeakIds(r)
    <2>1. PICK j : j = Len(s) + k OBVIOUS
    <2>2. j \in DOMAIN r /\ r[j] = t[k] BY <1>2, <2>1 DEF Chain
    <2>3. Speaks(r[j]) /\ r[j].mid = t[k].mid BY <1>2, <2>2
    <2> QED BY <2>2, <2>3 DEF SpeakIds
  <1>3. ASSUME NEW k \in DOMAIN r, Speaks(r[k]) PROVE r[k].mid \in SpeakIds(s) \cup SpeakIds(t)
    <2>1. CASE k \in DOMAIN s
      <3>1. r[k] = s[k] BY <2>1 DEF Chain
      <3>2. Speaks(s[k]) /\ r[k].mid = s[k].mid BY <1>3, <3>1
      <3> QED BY <2>1, <3>2 DEF SpeakIds
    <2>2. CASE \E j \in DOMAIN t : k = Len(s) + j
      <3>1. PICK j \in DOMAIN t : k = Len(s) + j BY <2>2
      <3>2. r[k] = t[j] BY <3>1 DEF Chain
      <3>3. Speaks(t[j]) /\ r[k].mid = t[j].mid BY <1>3, <3>2
      <3> QED BY <3>1, <3>3 DEF SpeakIds
    <2> QED BY <2>1, <2>2 DEF Chain
  <1>4. SpeakIds(s) \subseteq SpeakIds(r) BY <1>1 DEF SpeakIds
  <1>5. SpeakIds(t) \subseteq SpeakIds(r) BY <1>2 DEF SpeakIds
  <1>6. SpeakIds(r) \subseteq SpeakIds(s) \cup SpeakIds(t)
    <2>1. PICK U : U = SpeakIds(s) \cup SpeakIds(t) OBVIOUS
    <2>2. \A k \in DOMAIN r : Speaks(r[k]) => r[k].mid \in U BY <1>3, <2>1
    <2>3. SpeakIds(r) \subseteq U BY <2>2 DEF SpeakIds
    <2> QED BY <2>1, <2>3
  <1> QED BY <1>4, <1>5, <1>6

\* New rows are apart from all others
LEMMA NewApart ==
  ASSUME NEW t \in Seq(Messages), NewIds(t), Recorded(t), NEW S, NEW B, S \cap B = {},
         S \cup B \subseteq Mids(stored) \cup Mids(memory) \cup Mids(adding)
  PROVE  (S \cup SpeakIds(t)) \cap (B \cup BusyIds(t)) = {}
PROOF
  <1>1. PICK M : M = Mids(stored) \cup Mids(memory) \cup Mids(adding) OBVIOUS
  <1>2. Mids(t) \cap M = {} BY <1>1 DEF NewIds, Mids
  <1>3. SpeakIds(t) \subseteq Mids(t) /\ BusyIds(t) \subseteq Mids(t) BY SpeakMids
  <1>4. SpeakIds(t) \cap BusyIds(t) = {}
    <2>1. \A n \in DOMAIN t : Speaks(t[n]) => t[n].mid \notin BusyIds(t) BY SpeaksApart DEF NewIds
    <2> QED BY <2>1 DEF SpeakIds
  <1>5. S \cup B \subseteq M BY <1>1
  <1>6. PICK p, q : p = SpeakIds(t) /\ q = BusyIds(t) OBVIOUS
  <1>7. PICK w : w = Mids(t) OBVIOUS
  <1>8. w \cap M = {} /\ p \subseteq w /\ q \subseteq w /\ p \cap q = {}
    BY <1>2, <1>3, <1>4, <1>6, <1>7
  <1>9. (S \cup p) \cap (B \cup q) = {} BY <1>5, <1>8
  <1> QED BY <1>6, <1>9

LEMMA NewRowsUnsaved ==
  ASSUME NEW s, NEW a, NEW r, NEW t, Chain(r, a, t), NoneSaved(s, a),
         \A n \in DOMAIN t : t[n].mid \notin Mids(s), \A i : ~(Mentioned(s, i) /\ Mentioned(t, i))
  PROVE  NoneSaved(s, r)
PROOF
  <1> SUFFICES ASSUME NEW k \in DOMAIN s PROVE Unsaved(s[k], r) BY DEF NoneSaved
  <1>1. Unsaved(s[k], a) BY DEF NoneSaved
  <1>2. Mids(r) = Mids(a) \cup Mids(t) BY ChainRows
  <1>3. s[k].mid \notin Mids(t) BY DEF Mids
  <1>4. ASSUME NEW i, Tells(s[k], i), Mentioned(r, i) PROVE FALSE
    <2>1. Mentioned(s, i) BY <1>4 DEF Mentioned
    <2>2. Mentioned(a, i) \/ Mentioned(t, i) BY <1>4, ChainShown
    <2> QED BY <1>1, <1>4, <2>1, <2>2 DEF Unsaved
  <1> QED BY <1>1, <1>2, <1>3, <1>4 DEF Unsaved

LEMMA MoreRowsUnsaved ==
  ASSUME NEW s, NEW a, NEW r, NEW t, Chain(r, s, t), NoneSaved(s, a),
         \A n \in DOMAIN t : t[n].mid \notin Mids(a), \A i : ~Mentioned(t, i)
  PROVE  NoneSaved(r, a)
PROOF
  <1> SUFFICES ASSUME NEW k \in DOMAIN r PROVE Unsaved(r[k], a) BY DEF NoneSaved
  <1>1. CASE k \in DOMAIN s
    <2>1. r[k] = s[k] BY <1>1 DEF Chain
    <2> QED BY <1>1, <2>1 DEF NoneSaved
  <1>2. CASE \E j \in DOMAIN t : k = Len(s) + j
    <2>1. PICK j \in DOMAIN t : k = Len(s) + j BY <1>2
    <2>2. r[k] = t[j] BY <2>1 DEF Chain
    <2>3. \A i : ~Tells(t[j], i) BY DEF Mentioned
    <2> QED BY <2>2, <2>3 DEF Unsaved
  <1> QED BY <1>1, <1>2 DEF Chain
-----------------------------------------------------------------------------
(***************************************************************************)
(* Each step keeps the invariant.                                          *)
(***************************************************************************)
\* Messages of the turn come with new rows; the memory may lose some
LEMMA PushKin ==
  ASSUME LoopType, LoopType', Shape, Kinship, NEW t \in Seq(Messages), NEW K,
         adding' = adding \o t, NewIds(t), Recorded(t), ~cancelled => \A i \in Nat : OnePair(t, i),
         \A i : Mentioned(t, i) => \E k \in DOMAIN batch : batch[k] = i,
         \A n \in DOMAIN t : ~Speaks(t[n]) => t[n].created = clock \/ (pc = "tools" /\ t[n].created = born),
         Dimmed(memory', memory, K), \A i \in Nat : OnePair(memory, i) => OnePair(memory', i),
         HideIds' \subseteq BusyIds(memory),
         UNCHANGED <<stored, calls, clock, cancelled>>, batch' = <<>>,
         pc \notin {"idle", "compact", "top", "save"}, pc' \notin {"idle", "tools"}
  PROVE  Kinship'
PROOF
  <1> USE DEF Kinship
  <1>0. PICK r \in Seq(Messages) : Chain(r, adding, t) /\ r = adding'
    <2>1. adding \in Seq(Messages) BY DEF LoopType, Talks
    <2>2. PICK r \in Seq(Messages) : Chain(r, adding, t) BY <2>1, Chained
    <2> QED BY <2>2 DEF Chain
  <1>1. \A i : Mentioned(t, i) => i \in 1 .. calls /\ ~Known(i) BY DEF Fresh
  <1>2. Ordered'
    <2>1. PICK w : First(stored, w) /\ Earliest(stored[w].created) BY DEF Ordered
    <2>2. PICK c \in Nat : c = stored[w].created
      <3>1. stored[w] \in Messages BY <2>1 DEF LoopType, Talks, First
      <3> QED BY <3>1, CreatedNat
    <2>3. c <= clock /\ (pc = "tools" => c <= born) BY <2>1, <2>2 DEF Earliest
    <2>4. ASSUME NEW n \in DOMAIN r, ~Speaks(r[n]) PROVE c <= r[n].created
      <3>1. CASE n \in DOMAIN adding
        <4>1. r[n] = adding[n] BY <1>0, <3>1 DEF Chain
        <4> QED BY <2>1, <2>2, <2>4, <3>1, <4>1 DEF Earliest
      <3>2. CASE \E j \in DOMAIN t : n = Len(adding) + j
        <4>1. PICK j \in DOMAIN t : n = Len(adding) + j BY <3>2
        <4>2. r[n] = t[j] BY <1>0, <4>1 DEF Chain
        <4>3. t[j].created = clock \/ (pc = "tools" /\ t[j].created = born) BY <2>4, <4>2
        <4> QED BY <2>3, <4>2, <4>3
      <3> QED BY <1>0, <3>1, <3>2 DEF Chain
    <2>5. Earliest(c)' BY <1>0, <2>3, <2>4 DEF Earliest
    <2> QED BY <2>1, <2>2, <2>5 DEF Ordered
  <1>3. Saving'
    <2>1. NoneSaved(stored, adding) BY NoneSavedYet DEF LoopType
    <2>2. \A n \in DOMAIN t : t[n].mid \notin Mids(stored) BY DEF NewIds
    <2>3. \A i : ~(Mentioned(stored, i) /\ Mentioned(t, i)) BY <1>1 DEF Known
    <2>4. NoneSaved(stored, r) BY <1>0, <2>1, <2>2, <2>3, NewRowsUnsaved
    <2>5. \E l, c \in Nat : c = 0 /\ Written(stored, r, l, c) BY <2>4, NothingSaved DEF LoopType, Talks
    <2> QED BY <1>0, <2>5 DEF Saving
  <1>4. Fresh'
    <2>1. ASSUME NEW i, Known(i)' PROVE i \in 1 .. calls
      <3>1. Mentioned(memory, i) \/ Mentioned(stored, i) \/ Mentioned(adding, i) \/ Mentioned(t, i)
        <4>1. Mentioned(memory', i) => Mentioned(memory, i) BY DimmedCalls
        <4>2. Mentioned(r, i) => Mentioned(adding, i) \/ Mentioned(t, i) BY <1>0, ChainShown
        <4> QED BY <1>0, <2>1, <4>1, <4>2 DEF Known
      <3> QED BY <1>1, <3>1 DEF Fresh, Known
    <2> QED BY <2>1 DEF Fresh
  <1>5. Adds'
    <2>1. \A i : ~(Mentioned(adding, i) /\ Mentioned(t, i)) BY <1>1 DEF Known
    <2>2. Recorded(r) BY <1>0, <2>1, ChainRecorded DEF Adds
    <2>3. Distinct(r)
      <3>1. \A n \in DOMAIN t : t[n].mid \notin Mids(adding) BY DEF NewIds
      <3> QED BY <1>0, <3>1, ChainRows DEF Adds, NewIds
    <2>4. ~cancelled => \A i \in Nat : OnePair(r, i) BY <1>0, <2>1, ChainPairs DEF Adds
    <2>5. ASSUME NEW i, Mentioned(memory', i), Mentioned(r, i) PROVE FALSE
      <3>1. Mentioned(memory, i) BY <2>5, DimmedCalls
      <3>2. Mentioned(adding, i) \/ Mentioned(t, i) BY <1>0, <2>5, ChainShown
      <3> QED BY <1>1, <3>1, <3>2 DEF Adds, Known
    <2>6. Mids(r) \cap Mids(memory') = {}
      <3>1. Mids(memory') = Mids(memory) BY DimmedCalls
      <3>2. Mids(r) = Mids(adding) \cup Mids(t) BY <1>0, ChainRows
      <3>3. Mids(t) \cap Mids(memory) = {} BY DEF NewIds, Mids
      <3> QED BY <3>1, <3>2, <3>3 DEF Adds
    <2> QED BY <1>0, <2>2, <2>3, <2>4, <2>5, <2>6 DEF Adds
  <1>6. Sends'
    <2>1. (\A i \in Nat : OnePair(memory, i)) /\ OneCallSeen(memory) BY DEF Sends
    <2>2. OneCallSeen(memory') BY <2>1, DimmedCalls
    <2> QED BY <2>1, <2>2 DEF Sends
  <1>7. Apart'
    <2> DEFINE S == SpeakIds(stored) \cup SpeakIds(adding)
               B == BusyIds(stored) \cup BusyIds(adding) \cup BusyIds(memory)
    <2>1. S \cap B = {} BY DEF Apart
    <2>2. S \cup B \subseteq Mids(stored) \cup Mids(memory) \cup Mids(adding) BY SpeakMids
    <2>3. (S \cup SpeakIds(t)) \cap (B \cup BusyIds(t)) = {}
      <3> HIDE DEF S, B
      <3> QED BY <2>1, <2>2, NewApart
    <2>4. SpeakIds(r) = SpeakIds(adding) \cup SpeakIds(t) BY <1>0, ChainSpeaks
    <2>5. BusyIds(r) = BusyIds(adding) \cup BusyIds(t) BY <1>0, ChainRows
    <2>6. BusyIds(memory') = BusyIds(memory) BY DimmedCalls
    <2>7. (SpeakIds(stored) \cup SpeakIds(r))
            \cap (BusyIds(stored) \cup BusyIds(r) \cup BusyIds(memory') \cup HideIds') = {}
      <3>1. PICK h : h = HideIds' OBVIOUS
      <3>2. h \subseteq BusyIds(memory) BY <3>1
      <3>3. SpeakIds(stored) \cup SpeakIds(r) = S \cup SpeakIds(t) BY <2>4
      <3>4. BusyIds(stored) \cup BusyIds(r) \cup BusyIds(memory') \cup h = B \cup BusyIds(t)
        BY <2>5, <2>6, <3>2
      <3> HIDE DEF S, B
      <3> QED BY <2>3, <3>1, <3>3, <3>4
    <2> QED BY <1>0, <2>7 DEF Apart
  <1> QED BY <1>2, <1>3, <1>4, <1>5, <1>6, <1>7

\* A question or an answer goes to the store alone
LEMMA GrowKin ==
  ASSUME LoopType, LoopType', Shape, Kinship, NEW t \in Seq(Messages),
         stored' = stored \o t, NewIds(t), \A n \in DOMAIN t : Plain(t[n]) /\ t[n].created = clock,
         UNCHANGED <<pc, memory, adding, toHide, batch, born, calls, clock, cancelled>>,
         pc # "idle" \/ asked, pc # "save"
  PROVE  Kinship'
PROOF
  <1> USE DEF Kinship
  <1>0. PICK r \in Seq(Messages) : Chain(r, stored, t) /\ r = stored'
    <2>1. stored \in Seq(Messages) BY DEF LoopType, Talks
    <2>2. PICK r \in Seq(Messages) : Chain(r, stored, t) BY <2>1, Chained
    <2> QED BY <2>2 DEF Chain
  <1>1. Recorded(t) /\ \A i : ~Mentioned(t, i) BY PlainRows
  <1>2. Ordered'
    <2>1. PICK w : First(stored, w) /\ Earliest(stored[w].created) BY DEF Ordered
    <2>2. First(r, w) /\ r[w] = stored[w]
      <3>1. \A n \in DOMAIN t : stored[w].created <= t[n].created BY <2>1 DEF Earliest
      <3>2. stored \in Seq(Messages) /\ Chain(r, stored, t) BY <1>0 DEF LoopType, Talks
      <3>3. \A n \in DOMAIN t : t[n].visible /\ ~Speaks(t[n]) => stored[w].created <= t[n].created
        BY <3>1
      <3> QED BY <2>1, <3>2, <3>3, ChainFirst
    <2>3. Recorded(r) BY <1>0, <1>1, ChainRecorded DEF Ordered
    <2>4. Earliest(r[w].created)' BY <1>0, <2>1, <2>2 DEF Earliest
    <2> QED BY <1>0, <2>2, <2>3, <2>4 DEF Ordered
  <1>3. Saving'
    <2>1. NoneSaved(stored, adding) BY NoneSavedYet DEF LoopType
    <2>2. \A n \in DOMAIN t : t[n].mid \notin Mids(adding) BY DEF NewIds
    <2>3. NoneSaved(r, adding) BY <1>0, <1>1, <2>1, <2>2, MoreRowsUnsaved
    <2>4. \E l, c \in Nat : c = 0 /\ Written(r, adding, l, c) BY <2>3, NothingSaved DEF LoopType, Talks
    <2> QED BY <1>0, <2>4 DEF Saving
  <1>4. Fresh'
    <2>1. \A i : Mentioned(r, i) => Mentioned(stored, i) BY <1>0, <1>1, ChainShown
    <2>2. \A i : Known(i)' => Known(i) BY <1>0, <2>1 DEF Known
    <2> QED BY <2>2 DEF Fresh
  <1>5. Adds' BY DEF Adds
  <1>6. Sends' BY DEF Sends
  <1>7. Apart'
    <2> DEFINE S == SpeakIds(stored) \cup SpeakIds(adding)
               B == BusyIds(stored) \cup BusyIds(adding) \cup BusyIds(memory)
    <2>1. S \cap B = {} BY DEF Apart
    <2>2. S \cup B \subseteq Mids(stored) \cup Mids(memory) \cup Mids(adding) BY SpeakMids
    <2>3. (S \cup SpeakIds(t)) \cap (B \cup BusyIds(t)) = {}
      <3> HIDE DEF S, B
      <3> QED BY <1>1, <2>1, <2>2, NewApart
    <2>4. SpeakIds(r) = SpeakIds(stored) \cup SpeakIds(t) BY <1>0, ChainSpeaks
    <2>5. BusyIds(r) = BusyIds(stored) \cup BusyIds(t) BY <1>0, ChainRows
    <2>6. HideIds = {} /\ HideIds' = HideIds
      <3>1. toHide = <<>> BY DEF Shape
      <3> QED BY <3>1 DEF HideIds
    <2>7. (SpeakIds(r) \cup SpeakIds(adding))
            \cap (BusyIds(r) \cup BusyIds(adding) \cup BusyIds(memory) \cup HideIds') = {}
      <3>3. SpeakIds(r) \cup SpeakIds(adding) = S \cup SpeakIds(t) BY <2>4
      <3>4. BusyIds(r) \cup BusyIds(adding) \cup BusyIds(memory) \cup HideIds' = B \cup BusyIds(t)
        BY <2>5, <2>6
      <3> HIDE DEF S, B
      <3> QED BY <2>3, <3>3, <3>4
    <2> QED BY <1>0, <2>7 DEF Apart
  <1> QED BY <1>2, <1>3, <1>4, <1>5, <1>6, <1>7

LEMMA DimmedSelf == ASSUME NEW s \in Seq(Messages) PROVE Dimmed(s, s, {})
PROOF
  <1>1. \A n \in DOMAIN s : n \notin {} OBVIOUS
  <1> QED BY <1>1 DEF Dimmed

\* A new message with a text, in a row of its own
LEMMA TextRow ==
  ASSUME LoopType, NEW role \in {"user", "assistant"}, NEW created \in 1 .. MaxClock
  PROVE  \E t \in Seq(Messages) :
           /\ t = Numbered(<<New(role, <<Text("text")>>, created)>>) /\ NewIds(t)
           /\ DOMAIN t = {1} /\ Message(t[1], role, <<Text("text")>>, created)
           /\ \A n \in DOMAIN t : Plain(t[n])
PROOF
  <1>1. Text("text") \in Content
    <2>1. 0 \in Nat OBVIOUS
    <2> QED BY <2>1, ItemTypes
  <1>2. <<Text("text")>> \in Seq(Content) BY <1>1
  <1>3. PICK t \in Seq(Messages) :
          /\ t = Numbered(<<New(role, <<Text("text")>>, created)>>) /\ NewIds(t)
          /\ 1 \in DOMAIN t /\ Len(t) = 1 /\ Message(t[1], role, <<Text("text")>>, created)
    BY <1>2, NumberedOne DEF LoopType
  <1>4. DOMAIN t = {1} BY <1>3
  <1>5. Plain(t[1]) BY <1>3, PlainItem, PlainKinds DEF Message
  <1> QED BY <1>3, <1>4, <1>5

\* A user's text is words
LEMMA TextSpeaks ==
  ASSUME NEW m, NEW created, Message(m, "user", <<Text("text")>>, created) PROVE Speaks(m)
PROOF
  <1>1. m.visible /\ m.role = "user" /\ m.items = <<Text("text")>> BY DEF Message
  <1>2. IsWord(Text("text")) BY DEF IsWord, Text
  <1>3. Has(m.items, Text("text")) BY <1>1, OnlyItem
  <1> QED BY <1>1, <1>2, <1>3 DEF Speaks

LEMMA PushTextKin ==
  ASSUME LoopType, LoopType', Shape, Kinship, NEW role \in {"user", "assistant"}, Add(role, clock),
         UNCHANGED <<memory, stored, toHide, calls, clock, cancelled>>, batch' = <<>>,
         pc \notin {"idle", "compact", "top", "save", "tools"}, pc' \notin {"idle", "tools"}
  PROVE  Kinship'
PROOF
  <1>0. clock \in 1 .. MaxClock BY DEF LoopType, Rest
  <1>1. PICK t \in Seq(Messages) :
           /\ t = Numbered(<<New(role, <<Text("text")>>, clock)>>) /\ NewIds(t)
           /\ DOMAIN t = {1} /\ Message(t[1], role, <<Text("text")>>, clock)
           /\ \A n \in DOMAIN t : Plain(t[n])
    BY <1>0, TextRow
  <1>2. adding' = adding \o t BY <1>1 DEF Add
  <1>3. Recorded(t) /\ (\A i : ~Mentioned(t, i)) /\ (\A i : OnePair(t, i)) BY <1>1, PlainRows
  <1>4. Dimmed(memory', memory, {})
    <2>1. memory \in Seq(Messages) BY DEF LoopType, Talks
    <2>2. Dimmed(memory, memory, {}) BY <2>1, DimmedSelf
    <2> QED BY <2>2
  <1>5. HideIds' = {}
    <2>1. toHide' = <<>> BY DEF Shape
    <2> QED BY <2>1 DEF HideIds
  <1>6. \A n \in DOMAIN t : t[n].created = clock BY <1>1 DEF Message
  <1> QED BY <1>1, <1>2, <1>3, <1>4, <1>5, <1>6, PushKin

LEMMA SayTextKin ==
  ASSUME LoopType, LoopType', Shape, Kinship, SayText PROVE Kinship'
PROOF
  <1>1. pc = "stream" /\ pc' = "stream" BY DEF SayText, Item
  <1>2. batch' = <<>> BY <1>1 DEF SayText, call, Shape
  <1>3. Add("assistant", clock) /\ UNCHANGED <<memory, stored, toHide, calls, clock, cancelled>>
    BY DEF SayText, summary
  <1> QED BY <1>1, <1>2, <1>3, PushTextKin

\* Steps that begin no call and forget none
LEMMA FreshQuiet ==
  ASSUME Fresh, UNCHANGED <<memory, stored, adding, calls>>, batch' = batch \/ batch' = <<>>
  PROVE  Fresh'
PROOF
  <1>1. \A i : Known(i)' <=> Known(i) BY DEF Known
  <1>2. CASE batch' = batch BY <1>1, <1>2 DEF Fresh
  <1>3. CASE batch' = <<>> BY <1>1, <1>3 DEF Fresh
  <1> QED BY <1>2, <1>3

LEMMA CallToolsFresh ==
  ASSUME LoopType, Kinship, CallTools PROVE Fresh'
PROOF
  <1>1. PICK n \in 1 .. MaxCalls - calls : batch' = [k \in 1 .. n |-> calls + k] /\ calls' = calls + n
    BY DEF CallTools
  <1>2. PICK c \in Nat : c = calls BY DEF LoopType, Rest, Counted
  <1>3. MaxCalls \in Nat BY BoundTypes
  <1>4. n \in Nat BY <1>2, <1>3
  <1>5. DOMAIN batch' = 1 .. n /\ \A k \in 1 .. n : batch'[k] = c + k BY <1>1, <1>2
  <1>6. calls' = c + n BY <1>1, <1>2
  <1>7. \A i : Known(i)' => i \in 1 .. c BY <1>2 DEF CallTools, Known, Kinship, Fresh
  <1>8. ASSUME NEW i \in 1 .. c
        PROVE  i \in 1 .. c + n /\ \A k \in 1 .. n : c + k # i
    BY <1>4
  <1>9. \A k, l \in 1 .. n : c + k \in 1 .. c + n /\ (c + k = c + l => k = l) BY <1>4
  <1>10. \A i : Known(i)' => i \in 1 .. calls' /\ \A k \in DOMAIN batch' : batch'[k] # i
    BY <1>5, <1>6, <1>7, <1>8
  <1>11. \A k, l \in DOMAIN batch' : batch'[k] \in 1 .. calls' /\ (batch'[k] = batch'[l] => k = l)
    BY <1>5, <1>6, <1>9
  <1> QED BY <1>10, <1>11 DEF Fresh

\* Steps that leave the conversations as they are
LEMMA PlainKin ==
  ASSUME LoopType, LoopType', Shape, Shape', Kinship,
         \/ UNCHANGED vars
         \/ StartTurn \/ CallTools \/ OverflowAgain \/ StreamEnds
         \/ ChecksPass \/ ChecksFail \/ NoSummary \/ Cancel \/ Tick
  PROVE  Kinship'
PROOF
  <1>0. clock \in Nat BY BoundTypes DEF LoopType, Rest
  <1>1. CASE UNCHANGED vars
    <2>1. /\ UNCHANGED <<memory, stored, adding, toHide, calls, batch>>
          /\ clock <= clock' /\ (pc # "idle" \/ (pc' = "idle" /\ asked' = asked))
          /\ (pc = "save" => pc' = "save")
          /\ (pc' = "tools" => born' = clock \/ (pc = "tools" /\ born' = born))
          /\ (~cancelled' => ~cancelled)
          /\ pc' \notin {"idle", "compact"} /\ ~(pc' = "top" /\ cancelled') =>
               pc \notin {"idle", "compact"} /\ ~(pc = "top" /\ cancelled)
      BY <1>0, <1>1 DEF vars, turn, call, summary, session, count
    <2> QED BY <2>1, QuietKin, FreshQuiet DEF Kinship
  <1>2. CASE StartTurn
    <2>0. adding' = adding BY <1>2 DEF StartTurn, Shape
    <2>1. /\ UNCHANGED <<memory, stored, adding, toHide, calls, batch>>
          /\ clock <= clock' /\ (pc # "idle" \/ (pc' = "idle" /\ asked' = asked))
          /\ (pc = "save" => pc' = "save")
          /\ (pc' = "tools" => born' = clock \/ (pc = "tools" /\ born' = born))
          /\ (~cancelled' => ~cancelled)
          /\ pc' \notin {"idle", "compact"} /\ ~(pc' = "top" /\ cancelled') =>
               pc \notin {"idle", "compact"} /\ ~(pc = "top" /\ cancelled)
      BY <1>0, <1>2, <2>0 DEF StartTurn, Stops, call
    <2> QED BY <2>1, QuietKin, FreshQuiet DEF Kinship
  <1>3. CASE CallTools
    <2>1. /\ UNCHANGED <<memory, stored, adding, toHide>>
          /\ clock <= clock' /\ (pc # "idle" \/ (pc' = "idle" /\ asked' = asked))
          /\ (pc = "save" => pc' = "save")
          /\ (pc' = "tools" => born' = clock \/ (pc = "tools" /\ born' = born))
          /\ (~cancelled' => ~cancelled)
          /\ pc' \notin {"idle", "compact"} /\ ~(pc' = "top" /\ cancelled') =>
               pc \notin {"idle", "compact"} /\ ~(pc = "top" /\ cancelled)
      BY <1>0, <1>3 DEF CallTools, Item, summary
    <2> QED BY <1>3, <2>1, QuietKin, CallToolsFresh DEF Kinship
  <1>4. CASE OverflowAgain \/ StreamEnds \/ ChecksPass \/ ChecksFail \/ NoSummary
    <2>1. /\ UNCHANGED <<memory, stored, adding, toHide, calls, batch>>
          /\ clock <= clock' /\ (pc # "idle" \/ (pc' = "idle" /\ asked' = asked))
          /\ (pc = "save" => pc' = "save")
          /\ (pc' = "tools" => born' = clock \/ (pc = "tools" /\ born' = born))
          /\ (~cancelled' => ~cancelled)
          /\ pc' \notin {"idle", "compact"} /\ ~(pc' = "top" /\ cancelled') =>
               pc \notin {"idle", "compact"} /\ ~(pc = "top" /\ cancelled)
      BY <1>0, <1>4 DEF OverflowAgain, Item, StreamEnds, ChecksPass, ChecksFail, NoSummary, call, summary, count
    <2> QED BY <2>1, QuietKin, FreshQuiet DEF Kinship
  <1>5. CASE Cancel \/ Tick
    <2>1. /\ UNCHANGED <<memory, stored, adding, toHide, calls, batch>>
          /\ clock <= clock' /\ (pc # "idle" \/ (pc' = "idle" /\ asked' = asked))
          /\ (pc = "save" => pc' = "save")
          /\ (pc' = "tools" => born' = clock \/ (pc = "tools" /\ born' = born))
          /\ (~cancelled' => ~cancelled)
          /\ pc' \notin {"idle", "compact"} /\ ~(pc' = "top" /\ cancelled') =>
               pc \notin {"idle", "compact"} /\ ~(pc = "top" /\ cancelled)
      BY <1>0, <1>5 DEF Cancel, Tick, call, summary, count
    <2> QED BY <2>1, QuietKin, FreshQuiet DEF Kinship
  <1> QED BY <1>1, <1>2, <1>3, <1>4, <1>5

LEMMA AfterStreamKin ==
  ASSUME LoopType, LoopType', Shape, Shape', Kinship, AfterStream PROVE Kinship'
PROOF
  <1>1. /\ pc = "post" /\ pc' = "summarize" /\ batch = <<>> /\ batch' = <<>>
        /\ UNCHANGED <<memory, stored, toHide, calls, clock, cancelled>>
    BY DEF AfterStream, Shape, call, summary, count
  <1>2. CASE Add("user", clock) \/ Add("assistant", clock) BY <1>1, <1>2, PushTextKin
  <1>3. CASE adding' = adding
    <2>0. clock \in Nat BY BoundTypes DEF LoopType, Rest
    <2>1. /\ UNCHANGED <<memory, stored, adding, toHide, calls, batch>>
          /\ clock <= clock' /\ (pc # "idle" \/ (pc' = "idle" /\ asked' = asked))
          /\ (pc = "save" => pc' = "save")
          /\ (pc' = "tools" => born' = clock \/ (pc = "tools" /\ born' = born))
          /\ (~cancelled' => ~cancelled)
          /\ pc' \notin {"idle", "compact"} /\ ~(pc' = "top" /\ cancelled') =>
               pc \notin {"idle", "compact"} /\ ~(pc = "top" /\ cancelled)
      BY <1>1, <1>3, <2>0
    <2> QED BY <2>1, QuietKin, FreshQuiet DEF Kinship
  <1> QED BY <1>2, <1>3 DEF AfterStream

\* What the tools are recorded as: rows with new ids, and whole calls unless the
\* reply was cancelled
NewCalls(t) ==
  /\ NewIds(t) /\ Recorded(t) /\ (~cancelled => \A i \in Nat : OnePair(t, i))
  /\ \A i : Mentioned(t, i) => \E k \in DOMAIN batch : batch[k] = i
  /\ \A n \in DOMAIN t : t[n].created = clock \/ t[n].created = born

LEMMA ToolsDoneRows ==
  ASSUME LoopType, Shape, Kinship, ToolsDone
  PROVE  \E t \in Seq(Messages) : adding' = adding \o t /\ NewCalls(t)
PROOF
  <1>1. PICK parsed \in SUBSET Range(batch), thought \in Thoughts :
          \E answered \in SUBSET parsed :
            /\ cancelled \/ answered = parsed
            /\ adding' = adding \o Numbered(thought \o Records(parsed, answered))
    BY DEF ToolsDone
  <1>2. PICK answered \in SUBSET parsed :
          /\ cancelled \/ answered = parsed
          /\ adding' = adding \o Numbered(thought \o Records(parsed, answered))
    BY <1>1
  <1>3. batch \in Seq(Nat) /\ born \in 1 .. MaxClock /\ clock \in 1 .. MaxClock
    BY LoopTypeOK DEF Clocks, ToolsDone
  <1>4. born <= clock BY DEF Shape, ToolsDone
  <1>5. \A k, l \in DOMAIN batch : batch[k] = batch[l] => k = l BY DEF Kinship, Fresh
  <1>6. PICK e \in Seq(Seen(Messages)) :
           e = thought \o Records(parsed, answered) /\ RecordsOf(e, parsed, answered)
    <2>1. batch \in Seq(Nat) BY <1>3
    <2>2. born \in 1 .. MaxClock BY <1>3
    <2>3. clock \in 1 .. MaxClock BY <1>3
    <2> QED BY <2>1, <2>2, <2>3, <1>4, <1>5, RecordsCalls
  <1>7. e \in Seq(Messages) /\ DOMAIN e = 1 .. Len(e) /\ \A n \in 1 .. Len(e) : e[n].visible
    <2>1. \A n \in 1 .. Len(e) : e[n] \in Seen(Messages) OBVIOUS
    <2> QED BY <2>1 DEF Seen
  <1>8. PICK t \in Seq(Messages) : IsNumbered(t, e) BY <1>7, Numbering DEF LoopType
  <1>9. /\ Recorded(t) /\ (\A i : Mentioned(t, i) => Mentioned(e, i))
        /\ (\A i : OnePair(e, i) => OnePair(t, i))
        /\ \A n \in DOMAIN t : t[n].created = e[n].created /\ n \in DOMAIN e
    <2>1. \A n \in DOMAIN e : e[n].visible BY <1>7
    <2>2. Recorded(e) BY <1>6 DEF CallsOf, RecordsOf
    <2> QED BY <1>7, <1>8, <2>1, <2>2, NumberedCalls
  <1>10. adding' = adding \o t /\ NewIds(t) BY <1>2, <1>6, <1>8 DEF IsNumbered
  <1>11. ~cancelled => \A i \in Nat : OnePair(t, i) BY <1>2, <1>6, <1>9 DEF CallsOf, RecordsOf
  <1>12. \A i : Mentioned(t, i) => \E k \in DOMAIN batch : batch[k] = i BY <1>6, <1>9 DEF CallsOf, RecordsOf
  <1>13. \A n \in DOMAIN t : t[n].created = clock \/ t[n].created = born BY <1>6, <1>9 DEF CallsOf, RecordsOf
  <1> QED BY <1>9, <1>10, <1>11, <1>12, <1>13 DEF NewCalls

LEMMA ToolsDoneKin ==
  ASSUME LoopType, LoopType', Shape, Kinship, ToolsDone PROVE Kinship'
PROOF
  <1>1. PICK t \in Seq(Messages) : adding' = adding \o t /\ NewCalls(t) BY ToolsDoneRows
  <1>2. Dimmed(memory', memory, {})
    <2>1. memory \in Seq(Messages) BY DEF LoopType, Talks
    <2>2. Dimmed(memory, memory, {}) BY <2>1, DimmedSelf
    <2> QED BY <2>2 DEF ToolsDone
  <1>3. HideIds' = {}
    <2>1. toHide' = <<>> BY DEF Shape, ToolsDone, summary
    <2> QED BY <2>1 DEF HideIds
  <1>4. /\ pc = "tools" /\ pc' = "stream" /\ batch' = <<>> /\ memory' = memory
        /\ UNCHANGED <<stored, calls, clock, cancelled>>
    BY DEF ToolsDone, count
  <1> QED BY <1>1, <1>2, <1>3, <1>4, PushKin DEF NewCalls

LEMMA MentionsBusy == ASSUME NEW m, NEW i, Mentions(m, i) PROVE Busy(m)
PROOF
  <1>1. PICK n \in DOMAIN m.items : m.items[n] \in {Request(i), Response(i)} BY DEF Mentions
  <1>2. IsCall(m.items[n]) BY <1>1, PlainKinds
  <1>3. Has(m.items, m.items[n]) BY <1>1 DEF Has
  <1> QED BY <1>2, <1>3 DEF Busy

LEMMA SummarizeKin ==
  ASSUME LoopType, LoopType', Shape, Kinship, Summarize PROVE Kinship'
PROOF
  <1> DEFINE K == {n \in DOMAIN memory : Mentions(memory[n], task)}
  <1>0. memory \in Seq(Messages) BY DEF LoopType, Talks
  <1>1. PICK p \in Seq(Messages) : p = Matching BY MatchingType
  <1>2. Len(p) = 2 /\ toHide' = MapSeq(LAMBDA msg : msg.mid, p) /\ Add("user", Last(p).created)
    BY <1>1 DEF Summarize
  <1>3. DOMAIN p = 1 .. 2 /\ p # <<>>
    <2>1. Len(p) = 2 BY <1>2
    <2> QED BY <2>1
  <1>4. Last(p) \in Messages BY <1>3, LastType
  <1>5. PICK created \in 1 .. MaxClock : created = Last(p).created BY <1>4 DEF Messages
  <1>6. PICK t \in Seq(Messages) :
           /\ t = Numbered(<<New("user", <<Text("text")>>, created)>>) /\ NewIds(t)
           /\ DOMAIN t = {1} /\ Message(t[1], "user", <<Text("text")>>, created)
           /\ \A n \in DOMAIN t : Plain(t[n])
    BY TextRow
  <1>7. adding' = adding \o t BY <1>2, <1>5, <1>6 DEF Add
  <1>8. Recorded(t) /\ (\A i : ~Mentioned(t, i)) /\ (\A i : OnePair(t, i)) BY <1>6, PlainRows
  <1>9. \A n \in DOMAIN t : Speaks(t[n]) BY <1>6, TextSpeaks
  <1>10. PICK r \in Seq(Messages) :
          r = [n \in DOMAIN memory |-> IF n \in K THEN Hidden(memory[n]) ELSE memory[n]] /\ Dimmed(r, memory, K)
    <2> HIDE DEF K
    <2> QED BY <1>0, Dimming
  <1>11. memory' = [n \in DOMAIN memory |->
                     IF Mentions(memory[n], task) THEN Hidden(memory[n]) ELSE memory[n]]
    BY DEF Summarize, MapSeq
  <1>12. memory' = r BY <1>10, <1>11
  <1>13. OneCallSeen(memory) BY DEF Summarize, Kinship, Sends
  <1>14. \A j \in Nat : OnePair(memory, j) => OnePair(memory', j)
    <2>1. \A n \in K : Mentions(memory[n], task) OBVIOUS
    <2>2. \A n \in DOMAIN memory : Mentions(memory[n], task) => n \in K OBVIOUS
    <2> HIDE DEF K
    <2>3. ASSUME NEW j \in Nat, OnePair(memory, j) PROVE OnePair(r, j)
      BY <1>10, <1>13, <2>1, <2>2, <2>3, DimmedPairs
    <2> QED BY <1>12, <2>3
  <1>15. HideIds' \subseteq BusyIds(memory)
    <2>1. DOMAIN toHide' = 1 .. 2 /\ \A k \in 1 .. 2 : toHide'[k] = p[k].mid
      BY <1>2, <1>3 DEF MapSeq
    <2>2. ASSUME NEW k \in 1 .. 2 PROVE p[k].mid \in BusyIds(memory)
      <3>1. p = Picked(memory, K) BY <1>1 DEF Matching, Keep
      <3>2. Has(p, p[k]) BY <1>3 DEF Has
      <3>3. PICK n \in DOMAIN memory : n \in K /\ memory[n] = p[k]
        <4> HIDE DEF K
        <4> QED BY <1>0, <3>1, <3>2, PickedHas
      <3>4. Busy(memory[n]) BY <3>3, MentionsBusy
      <3> QED BY <3>3, <3>4 DEF BusyIds
    <2> QED BY <2>1, <2>2 DEF HideIds
  <1>16. /\ pc = "summarize" /\ pc' = "save" /\ batch' = <<>>
         /\ UNCHANGED <<stored, calls, clock, cancelled>>
    BY DEF Summarize, Shape, call, count
  <1>17. Dimmed(memory', memory, K) BY <1>10, <1>12
  <1> HIDE DEF K
  <1> QED BY <1>6, <1>7, <1>8, <1>9, <1>14, <1>15, <1>16, <1>17, PushKin

\* A question to the user, or the answer, is a row of its own
LEMMA AskRow ==
  ASSUME LoopType, Elicit \/ Answer
  PROVE  \E t \in Seq(Messages) :
           /\ stored' = stored \o t /\ NewIds(t)
           /\ \A n \in DOMAIN t : Plain(t[n]) /\ t[n].created = clock
PROOF
  <1>1. Elicitation \in Content
    <2>1. 0 \in Nat OBVIOUS
    <2> QED BY <2>1, ItemTypes
  <1>2. <<Elicitation>> \in Seq(Content) BY <1>1
  <1>3. clock \in 1 .. MaxClock BY DEF LoopType, Rest
  <1>4. PICK role \in {"user", "assistant"} :
          stored' = stored \o Numbered(<<New(role, <<Elicitation>>, clock)>>)
    BY DEF Elicit, Answer
  <1>5. PICK t \in Seq(Messages) :
          /\ t = Numbered(<<New(role, <<Elicitation>>, clock)>>) /\ NewIds(t)
          /\ 1 \in DOMAIN t /\ Len(t) = 1 /\ Message(t[1], role, <<Elicitation>>, clock)
    BY <1>2, <1>3, NumberedOne DEF LoopType
  <1>6. DOMAIN t = {1} BY <1>5
  <1>7. Plain(t[1]) /\ t[1].created = clock BY <1>5, PlainItem, PlainKinds DEF Message
  <1> QED BY <1>4, <1>5, <1>6, <1>7

LEMMA AskKin ==
  ASSUME LoopType, LoopType', Shape, Kinship, Elicit \/ Answer PROVE Kinship'
PROOF
  <1>1. PICK t \in Seq(Messages) :
          /\ stored' = stored \o t /\ NewIds(t)
          /\ \A n \in DOMAIN t : Plain(t[n]) /\ t[n].created = clock
    BY AskRow
  <1>2. UNCHANGED <<pc, memory, adding, toHide, batch, born, calls, clock, cancelled>>
        /\ (pc # "idle" \/ asked) /\ pc # "save"
    BY DEF Elicit, Answer, summary, count
  <1> QED BY <1>1, <1>2, GrowKin

LEMMA CompactedSendable ==
  ASSUME NEW s \in Seq(Messages), NEW w \in DOMAIN s, Speaks(s[w]),
         \A n \in DOMAIN s : s[n].visible => w <= n, \A i : ~Mentioned(s, i), OneCallSeen(s)
  PROVE  Sendable(Visible(s))
PROOF
  <1> DEFINE K == {n \in DOMAIN s : s[n].visible}
  <1>1. PICK v \in Seq(Messages) : v = Picked(s, K) /\ \E c : Picks(c, v, s, K) BY PickedPlaces
  <1>2. PICK c : Picks(c, v, s, K) BY <1>1
  <1>3. Visible(s) = v BY <1>1 DEF Visible, Keep
  <1>4. DOMAIN v = 1 .. Len(v) /\ DOMAIN s = 1 .. Len(s) OBVIOUS
  <1>5. \A j \in DOMAIN v : c[j] \in DOMAIN s /\ s[c[j]].visible /\ v[j] = s[c[j]]
    BY <1>2, <1>4 DEF Picks
  <1>6. \A n \in DOMAIN s : s[n].visible => \E j \in DOMAIN v : c[j] = n BY <1>2, <1>4 DEF Picks
  <1>7. \A j, k \in DOMAIN v : j < k => c[j] < c[k] BY <1>2, <1>4 DEF Picks
  <1> HIDE DEF K
  <1>8. BeginsWithWords(v)
    <2>1. PICK j \in DOMAIN v : c[j] = w BY <1>6 DEF Speaks
    <2>2. v # <<>> /\ 1 \in DOMAIN v BY <1>4, <2>1
    <2>3. Speaks(v[1])
      <3>1. w <= c[1] BY <1>5, <2>2
      <3>2. w \in Nat /\ c[1] \in Nat BY <1>4, <1>5, <2>2
      <3>3. ~(1 < j) BY <1>7, <2>1, <2>2, <3>1, <3>2
      <3>4. j = 1 BY <1>4, <3>3
      <3> QED BY <1>5, <2>1, <3>4
    <2> QED BY <2>2, <2>3 DEF Speaks, BeginsWithWords, HasWords, IsWord
  <1>9. OneCallEach(v) BY <1>5 DEF OneCallEach, OneCallSeen
  <1>10. ASSUME NEW i \in Nat, NEW j \in DOMAIN v
         PROVE  ~Has(v[j].items, Request(i)) /\ ~Has(v[j].items, Response(i))
    <2>1. ~Tells(s[c[j]], i) BY <1>5 DEF Mentioned
    <2> QED BY <1>5, <2>1 DEF Tells
  <1>11. \A i \in Nat : AskedOnce(v, i)
    <2>1. \A i \in Nat, j \in DOMAIN v : Once(v[j].items, Request(i)) BY <1>10 DEF Once, Has
    <2> QED BY <1>10, <2>1 DEF AskedOnce
  <1>12. \A i \in Nat : Near(v, i) BY <1>10 DEF Near, In
  <1> QED BY <1>3, <1>8, <1>9, <1>11, <1>12 DEF Sendable

\* The conversations are made anew, and no message of a turn is at hand
LEMMA EntryKin ==
  ASSUME LoopType, LoopType', NEW w, First(stored', w), stored'[w].created <= clock,
         Recorded(stored'), \A i : Mentioned(stored', i) => Known(i),
         \A i : Mentioned(memory', i) => Mentioned(stored', i),
         BusyIds(memory') \subseteq BusyIds(stored'), SpeakIds(stored') \cap BusyIds(stored') = {},
         pc' = "compact" \/ ((\A i \in Nat : OnePair(memory', i)) /\ OneCallSeen(memory')),
         Fresh, clock' = clock, calls' = calls, adding' = <<>>, toHide' = <<>>, batch' = <<>>,
         pc' # "tools"
  PROVE  Kinship'
PROOF
  <1>1. stored' \in Seq(Messages) /\ adding' \in Seq(Messages) BY DEF LoopType, Talks
  <1>2. Ordered'
    <2>1. Earliest(stored[w].created)' BY DEF Earliest
    <2> QED BY <2>1 DEF Ordered
  <1>3. Saving'
    <2>1. NoneSaved(stored', adding') BY Nothing
    <2> QED BY <1>1, <2>1, NothingSaved DEF Saving
  <1>4. Fresh'
    <2>1. \A i : ~Mentioned(adding', i) BY Nothing
    <2>2. \A i : Known(i)' => Known(i) BY <2>1 DEF Known
    <2> QED BY <2>2 DEF Fresh
  <1>5. Adds' BY Nothing DEF Adds
  <1>6. Sends' BY DEF Sends
  <1>7. Apart'
    <2>1. HideIds' = {} BY DEF HideIds
    <2>2. SpeakIds(adding') = {} /\ BusyIds(adding') = {} BY Nothing
    <2> QED BY <2>1, <2>2 DEF Apart
  <1> QED BY <1>2, <1>3, <1>4, <1>5, <1>6, <1>7 DEF Kinship

LEMMA SpeakApart ==
  \A s, I : SpeakIds(s) \cap I = {} <=> \A n \in DOMAIN s : Speaks(s[n]) => s[n].mid \notin I
PROOF BY DEF SpeakIds

LEMMA ReplaceKin ==
  ASSUME LoopType, LoopType', Shape, Shape', Kinship,
         AutoCompact \/ (Overflow /\ Replace /\ memory' = stored')
  PROVE  Kinship'
PROOF
  <1>1. clock \in 1 .. MaxClock /\ clock \in Nat BY BoundTypes DEF LoopType, Rest
  <1>2. PICK r \in Seq(Messages) : Compacts(r, memory) BY <1>1, Compacting DEF LoopType, Talks
  <1>3. stored' = r BY <1>2 DEF AutoCompact, Replace, Compacts
  <1>4. /\ Recorded(r) /\ (\A i : ~Mentioned(r, i)) /\ OneCallSeen(r)
        /\ \E w : /\ First(r, w) /\ r[w].created = clock
                  /\ \A n \in DOMAIN r : r[n].visible => w <= n
        /\ \A n \in DOMAIN r : Speaks(r[n]) => r[n].mid \notin BusyIds(r)
    BY <1>1, <1>2, CompactedCalls DEF LoopType
  <1>5. PICK w : First(r, w) /\ r[w].created = clock /\ \A n \in DOMAIN r : r[n].visible => w <= n
    BY <1>4
  <1>6. Sendable(Visible(r)) BY <1>4, <1>5, CompactedSendable DEF First
  <1>7. PICK f \in Seq(Messages) :
           /\ f = Fixed(r) /\ (\A i \in Nat : OnePair(f, i)) /\ OneCallSeen(f)
           /\ \A i : Mentioned(f, i) => Mentioned(r, i)
           /\ BusyIds(f) \subseteq BusyIds(r)
    BY <1>6, FixedCalls
  <1>8. memory' = f \/ memory' = r BY <1>3, <1>7 DEF AutoCompact
  <1>9. \A i \in Nat : OnePair(r, i) BY <1>4 DEF OnePair
  <1>10. /\ \A i : Mentioned(memory', i) => Mentioned(stored', i)
         /\ BusyIds(memory') \subseteq BusyIds(stored')
         /\ (\A i \in Nat : OnePair(memory', i)) /\ OneCallSeen(memory')
    BY <1>3, <1>4, <1>7, <1>8, <1>9
  <1>11. SpeakIds(r) \cap BusyIds(r) = {} BY <1>4, SpeakApart
  <1>12. /\ clock' = clock /\ calls' = calls /\ adding' = <<>> /\ toHide' = <<>> /\ batch' = <<>>
         /\ pc' # "tools"
    BY DEF AutoCompact, Overflow, Item, Shape, call, summary
  <1>13. r[w].created <= clock BY <1>1, <1>5
  <1>14. Fresh BY DEF Kinship
  <1>15. \A i : Mentioned(stored', i) => Known(i) BY <1>3, <1>4
  <1> QED BY <1>3, <1>4, <1>5, <1>10, <1>11, <1>12, <1>13, <1>14, <1>15, EntryKin

LEMMA OverflowKin ==
  ASSUME LoopType, LoopType', Shape, Shape', Kinship, Overflow PROVE Kinship'
PROOF
  <1>1. CASE Replace /\ memory' = stored' BY <1>1, ReplaceKin
  <1>2. CASE UNCHANGED <<memory, stored>>
    <2>0. clock \in Nat BY BoundTypes DEF LoopType, Rest
    <2>1. /\ UNCHANGED <<memory, stored, adding, toHide, calls, batch>>
          /\ clock <= clock' /\ (pc # "idle" \/ (pc' = "idle" /\ asked' = asked))
          /\ (pc = "save" => pc' = "save")
          /\ (pc' = "tools" => born' = clock \/ (pc = "tools" /\ born' = born))
          /\ (~cancelled' => ~cancelled)
          /\ pc' \notin {"idle", "compact"} /\ ~(pc' = "top" /\ cancelled') =>
               pc \notin {"idle", "compact"} /\ ~(pc = "top" /\ cancelled)
      BY <1>2, <2>0 DEF Overflow, Item, call, summary
    <2> QED BY <2>1, QuietKin, FreshQuiet DEF Kinship
  <1> QED BY <1>1, <1>2 DEF Overflow

\* The prompt is a row of its own
LEMMA PromptRow ==
  ASSUME LoopType, StartReply
  PROVE  \E t \in Seq(Messages) :
           /\ stored' = stored \o t /\ NewIds(t) /\ DOMAIN t = {1}
           /\ Plain(t[1]) /\ Speaks(t[1]) /\ t[1].created = clock
PROOF
  <1>1. clock \in 1 .. MaxClock BY DEF LoopType, Rest
  <1>2. PICK p \in Nat : p = prompts + 1 BY DEF LoopType, Rest, Counted
  <1>3. Prompt(p) \in Content BY ItemTypes
  <1>4. <<Prompt(p)>> \in Seq(Content) BY <1>3
  <1>5. PICK t \in Seq(Messages) :
          /\ t = Numbered(<<New("user", <<Prompt(p)>>, clock)>>) /\ NewIds(t)
          /\ 1 \in DOMAIN t /\ Len(t) = 1 /\ Message(t[1], "user", <<Prompt(p)>>, clock)
    BY <1>1, <1>4, NumberedOne DEF LoopType
  <1>6. DOMAIN t = {1} BY <1>5
  <1>7. Plain(t[1]) /\ t[1].created = clock BY <1>5, PlainItem, PlainKinds DEF Message
  <1>8. Speaks(t[1])
    <2>1. IsWord(Prompt(p)) BY DEF IsWord, Prompt
    <2>2. Has(<<Prompt(p)>>, Prompt(p)) BY OnlyItem
    <2> QED BY <1>5, <2>1, <2>2 DEF Speaks, Message
  <1>9. stored' = stored \o t BY <1>2, <1>5 DEF StartReply
  <1> QED BY <1>5, <1>6, <1>7, <1>8, <1>9

LEMMA StartReplyKin ==
  ASSUME LoopType, LoopType', Shape, Shape', Kinship, StartReply PROVE Kinship'
PROOF
  <1> USE DEF Kinship
  <1>1. clock \in Nat BY BoundTypes DEF LoopType, Rest
  <1>2. PICK t \in Seq(Messages) :
          /\ stored' = stored \o t /\ NewIds(t) /\ DOMAIN t = {1}
          /\ Plain(t[1]) /\ Speaks(t[1]) /\ t[1].created = clock
    BY PromptRow
  <1>3. stored \in Seq(Messages) BY DEF LoopType, Talks
  <1>4. PICK r \in Seq(Messages) : Chain(r, stored, t) BY <1>3, Chained
  <1>5. stored' = r BY <1>2, <1>4 DEF Chain
  <1>6. Recorded(t) /\ \A i : ~Mentioned(t, i) BY <1>2, PlainRows
  <1>7. Recorded(r) BY <1>4, <1>6, ChainRecorded DEF Ordered
  <1>8. \A i : Mentioned(r, i) => Mentioned(stored, i) BY <1>4, <1>6, ChainShown
  <1>9. PICK w : First(r, w) /\ r[w].created <= clock
    <2>1. CASE stored = <<>>
      <3>1. DOMAIN stored = {} /\ Len(stored) = 0 BY <2>1
      <3>2. \A k \in DOMAIN r : \E j \in DOMAIN t : k = Len(stored) + j BY <1>4, <3>1 DEF Chain
      <3>3. \A k \in DOMAIN r : k = 1 BY <1>2, <3>1, <3>2
      <3>4. 1 \in DOMAIN r /\ r[1] = t[1] BY <1>2, <1>4, <3>1 DEF Chain
      <3>5. First(r, 1) BY <1>2, <3>3, <3>4 DEF First
      <3>6. r[1].created <= clock BY <1>1, <1>2, <3>4
      <3> QED BY <3>5, <3>6
    <2>2. CASE stored # <<>>
      <3>1. PICK u : First(stored, u) /\ Earliest(stored[u].created) BY <2>2 DEF Ordered
      <3>2. stored[u].created <= clock BY <3>1 DEF Earliest
      <3>3. \A n \in DOMAIN t : t[n].visible /\ ~Speaks(t[n]) => stored[u].created <= t[n].created
        BY <1>2
      <3>4. First(r, u) /\ r[u] = stored[u] BY <1>3, <1>4, <3>1, <3>3, ChainFirst
      <3> QED BY <3>2, <3>4
    <2> QED BY <2>1, <2>2
  <1>10. SpeakIds(r) \cap BusyIds(r) = {}
    <2>1. SpeakIds(stored) \cap BusyIds(stored) = {} BY DEF Apart
    <2>2. SpeakIds(stored) \cup BusyIds(stored) \subseteq Mids(stored) \cup Mids(memory) \cup Mids(adding)
      BY SpeakMids
    <2>3. (SpeakIds(stored) \cup SpeakIds(t)) \cap (BusyIds(stored) \cup BusyIds(t)) = {}
      BY <1>2, <1>6, <2>1, <2>2, NewApart
    <2> QED BY <1>4, <2>3, ChainSpeaks, ChainRows
  <1>11. PICK l \in Seq(Messages) :
           /\ l = Reload(r) /\ BusyIds(l) \subseteq BusyIds(r)
           /\ \A i : Mentioned(l, i) => Mentioned(r, i)
    BY ReloadRows
  <1>12. Sendable(Visible(l)) BY <1>7, <1>9, <1>11, ReloadSendable
  <1>13. PICK f \in Seq(Messages) :
           /\ f = Fixed(l) /\ (\A i \in Nat : OnePair(f, i)) /\ OneCallSeen(f)
           /\ \A i : Mentioned(f, i) => Mentioned(l, i)
           /\ BusyIds(f) \subseteq BusyIds(l)
    BY <1>12, FixedCalls
  <1>14. (pc' = "compact" /\ memory' = l) \/ (pc' = "top" /\ memory' = f)
    BY <1>5, <1>11, <1>13 DEF StartReply
  <1>15. /\ \A i : Mentioned(memory', i) => Mentioned(stored', i)
         /\ BusyIds(memory') \subseteq BusyIds(stored')
         /\ pc' = "compact" \/ ((\A i \in Nat : OnePair(memory', i)) /\ OneCallSeen(memory'))
    BY <1>5, <1>11, <1>13, <1>14
  <1>16. /\ clock' = clock /\ calls' = calls /\ adding' = <<>> /\ toHide' = <<>> /\ batch' = <<>>
         /\ pc' # "tools"
    BY DEF StartReply, Shape, call, summary
  <1>17. \A i : Mentioned(stored', i) => Known(i) BY <1>5, <1>8 DEF Known
  <1> QED BY <1>5, <1>7, <1>9, <1>10, <1>15, <1>16, <1>17, EntryKin

LEMMA DimmedSpeaks == ASSUME NEW r, NEW s, NEW K, Dimmed(r, s, K) PROVE SpeakIds(r) \subseteq SpeakIds(s)
PROOF
  <1>1. ASSUME NEW n \in DOMAIN r, Speaks(r[n])
        PROVE  n \in DOMAIN s /\ Speaks(s[n]) /\ r[n].mid = s[n].mid
    BY <1>1 DEF Dimmed, Speaks
  <1> QED BY <1>1 DEF SpeakIds

LEMMA HideStoredKin ==
  ASSUME LoopType, LoopType', Shape, Kinship, HideStored PROVE Kinship'
PROOF
  <1> USE DEF Kinship
  <1> DEFINE K == {n \in DOMAIN stored : stored[n].mid = Head(toHide)}
  <1>0. stored \in Seq(Messages) BY DEF LoopType, Talks
  <1>1. PICK r \in Seq(Messages) :
          r = [n \in DOMAIN stored |-> IF n \in K THEN Hidden(stored[n]) ELSE stored[n]] /\ Dimmed(r, stored, K)
    <2> HIDE DEF K
    <2> QED BY <1>0, Dimming
  <1>2. stored' = [n \in DOMAIN stored |->
                     IF stored[n].mid = Head(toHide) THEN Hidden(stored[n]) ELSE stored[n]]
    BY DEF HideStored, MapSeq
  <1>3. stored' = r BY <1>1, <1>2
  <1>4. HideIds' \subseteq HideIds /\ Head(toHide) \in HideIds
    <2>1. toHide \in Seq(Nat) /\ toHide # <<>> /\ toHide' = Tail(toHide) BY DEF HideStored, LoopType
    <2>2. DOMAIN toHide = 1 .. Len(toHide) /\ Len(toHide) \in Nat /\ 1 \in DOMAIN toHide BY <2>1
    <2>3. DOMAIN toHide' = 1 .. Len(toHide) - 1 /\ \A k \in DOMAIN toHide' : toHide'[k] = toHide[k + 1]
      BY <2>1
    <2>4. \A k \in DOMAIN toHide' : k + 1 \in DOMAIN toHide BY <2>2, <2>3
    <2>5. Head(toHide) = toHide[1] BY <2>1
    <2> QED BY <2>2, <2>3, <2>4, <2>5 DEF HideIds
  <1>5. UNCHANGED <<pc, memory, adding, batch, born, calls, clock, cancelled>>
    BY DEF HideStored, call, count
  <1>6. Ordered'
    <2>1. PICK w : First(stored, w) /\ Earliest(stored[w].created) BY DEF Ordered, HideStored
    <2>2. w \notin K
      <3>1. w \in DOMAIN stored /\ Speaks(stored[w]) BY <2>1 DEF First
      <3>2. stored[w].mid \in SpeakIds(stored) BY <3>1 DEF SpeakIds
      <3> QED BY <1>4, <3>2 DEF Apart
    <2> HIDE DEF K
    <2>3. First(r, w) BY <1>1, <2>1, <2>2, DimmedFirst
    <2>4. r[w].created = stored[w].created BY <1>1, <2>1 DEF Dimmed, First
    <2>5. Recorded(r) BY <1>1, DimmedCalls DEF Ordered
    <2>6. Earliest(r[w].created)' BY <1>5, <2>1, <2>4 DEF Earliest
    <2>7. Earliest(stored[w].created)' BY <1>3, <2>6 DEF Earliest
    <2> QED BY <1>3, <2>3, <2>5, <2>7 DEF Ordered
  <1> HIDE DEF K
  <1>7. Saving'
    <2>1. NoneSaved(stored, adding) BY NoneSavedYet DEF LoopType, HideStored
    <2>2. ASSUME NEW k \in DOMAIN r PROVE Unsaved(r[k], adding)
      <3>1. k \in DOMAIN stored BY <1>1 DEF Dimmed
      <3>2. Unsaved(stored[k], adding) BY <2>1, <3>1 DEF NoneSaved
      <3>3. r[k].mid = stored[k].mid /\ \A i : Tells(r[k], i) => Tells(stored[k], i)
        BY <1>1, <3>1 DEF Dimmed, Tells
      <3> QED BY <3>2, <3>3 DEF Unsaved
    <2>3. NoneSaved(r, adding) BY <2>2 DEF NoneSaved
    <2>4. \E l, c \in Nat : c = 0 /\ Written(r, adding, l, c)
      BY <2>3, NothingSaved DEF LoopType, Talks
    <2> QED BY <1>3, <1>5, <2>4 DEF Saving
  <1>8. Fresh'
    <2>1. \A i : Mentioned(r, i) => Mentioned(stored, i) BY <1>1, DimmedCalls
    <2>2. \A i : Known(i)' => Known(i) BY <1>3, <1>5, <2>1 DEF Known
    <2> QED BY <1>5, <2>2 DEF Fresh
  <1>9. Adds' BY <1>5 DEF Adds
  <1>10. Sends' BY <1>5 DEF Sends
  <1>11. Apart'
    <2>1. SpeakIds(r) \subseteq SpeakIds(stored) /\ BusyIds(r) = BusyIds(stored)
      BY <1>1, DimmedSpeaks, DimmedCalls
    <2>2. (SpeakIds(r) \cup SpeakIds(adding))
            \cap (BusyIds(r) \cup BusyIds(adding) \cup BusyIds(memory) \cup HideIds') = {}
      BY <1>4, <2>1 DEF Apart
    <2> QED BY <1>3, <1>5, <2>2 DEF Apart
  <1> QED BY <1>6, <1>7, <1>8, <1>9, <1>10, <1>11
-----------------------------------------------------------------------------
\* One more message of the turn is written
LEMMA WrittenMore ==
  ASSUME NEW s \in Seq(Messages), NEW a \in Seq(Messages), NEW l \in Nat, NEW c \in Nat,
         Written(s, a, l, c), c + 1 \in DOMAIN a, NEW r \in Seq(Messages),
         Len(r) = Len(s) + 1, \A k \in DOMAIN s : r[k] = s[k], r[Len(s) + 1] = a[c + 1]
  PROVE  Written(r, a, l, c + 1)
PROOF
  <1>1. Len(s) = l + c /\ DOMAIN s = 1 .. l + c BY DEF Written
  <1>2. Len(r) = l + (c + 1) /\ c + 1 <= Len(a) BY <1>1
  <1>3. ASSUME NEW k \in 1 .. (c + 1) PROVE r[l + k] = a[k]
    <2>1. CASE k = c + 1
      <3>1. l + k = Len(s) + 1 BY <1>1, <2>1
      <3> QED BY <2>1, <3>1
    <2>2. CASE k # c + 1
      <3>1. k \in 1 .. c BY <2>2
      <3>2. l + k \in DOMAIN s BY <1>1, <3>1
      <3>3. s[l + k] = a[k] BY <3>1 DEF Written
      <3> QED BY <3>2, <3>3
    <2> QED BY <2>1, <2>2
  <1>4. ASSUME NEW k \in 1 .. l PROVE Unsaved(r[k], a)
    <2>1. k \in DOMAIN s BY <1>1
    <2> QED BY <2>1 DEF Written
  <1> QED BY <1>2, <1>3, <1>4 DEF Written

LEMMA WrittenRecorded ==
  ASSUME NEW s \in Seq(Messages), NEW a \in Seq(Messages), NEW l \in Nat, NEW c \in Nat,
         NEW r \in Seq(Messages), Written(r, a, l, c), Recorded(a),
         \A k \in 1 .. l : k \in DOMAIN s /\ r[k] = s[k], Recorded(s)
  PROVE  Recorded(r)
PROOF
  <1>1. DOMAIN r = 1 .. l + c /\ 1 .. c \subseteq DOMAIN a BY DEF Written
  <1>2. ASSUME NEW n \in DOMAIN r
        PROVE  n \in 1 .. l \/ \E j \in 1 .. c : n = l + j
    <2>1. CASE n <= l BY <1>1, <2>1
    <2>2. CASE ~(n <= l)
      <3>1. n - l \in 1 .. c /\ n = l + (n - l) BY <1>1, <2>2
      <3> QED BY <3>1
    <2> QED BY <2>1, <2>2
  <1>3. \A j \in 1 .. c : j \in DOMAIN a /\ r[l + j] = a[j] BY <1>1 DEF Written
  <1>4. ASSUME NEW x, NEW n, Shown(r, x, n)
        PROVE  (n \in 1 .. l /\ Shown(s, x, n)) \/ \E j \in 1 .. c : n = l + j /\ Shown(a, x, j)
    <2>1. n \in DOMAIN r BY <1>4 DEF Shown, In
    <2>2. CASE n \in 1 .. l BY <1>4, <2>2 DEF Shown, In
    <2>3. CASE \E j \in 1 .. c : n = l + j BY <1>3, <1>4, <2>3 DEF Shown, In
    <2> QED BY <1>2, <2>1, <2>2, <2>3
  <1>5. ASSUME NEW i, NEW x \in {Request(i), Response(i)}, NEW y \in {Request(i), Response(i)},
               NEW n, NEW j, n \in 1 .. l, Shown(r, x, n), Shown(a, y, j)
        PROVE  FALSE
    <2>1. Tells(r[n], i) BY <1>5 DEF Shown, In, Tells
    <2>2. Mentioned(a, i) BY <1>5, MentionedShown
    <2>3. Unsaved(r[n], a) BY <1>5 DEF Written
    <2> QED BY <2>1, <2>2, <2>3 DEF Unsaved
  <1>6. ASSUME NEW i, NEW x \in {Request(i), Response(i)}, NEW y \in {Request(i), Response(i)},
               NEW m, NEW n, Shown(r, x, m), Shown(r, y, n)
        PROVE  \/ Shown(s, x, m) /\ Shown(s, y, n) /\ m \in 1 .. l /\ n \in 1 .. l
               \/ \E j, k \in 1 .. c : m = l + j /\ n = l + k /\ Shown(a, x, j) /\ Shown(a, y, k)
    <2>1. CASE m \in 1 .. l /\ n \in 1 .. l
      <3>1. ~(\E j \in 1 .. c : m = l + j) /\ ~(\E j \in 1 .. c : n = l + j) BY <2>1
      <3> QED BY <1>4, <1>6, <2>1, <3>1
    <2>2. CASE m \in 1 .. l /\ n \notin 1 .. l
      <3>1. PICK j \in 1 .. c : Shown(a, y, j) BY <1>4, <1>6, <2>2
      <3> QED BY <1>5, <1>6, <2>2, <3>1
    <2>3. CASE m \notin 1 .. l /\ n \in 1 .. l
      <3>1. PICK j \in 1 .. c : Shown(a, x, j) BY <1>4, <1>6, <2>3
      <3> QED BY <1>5, <1>6, <2>3, <3>1
    <2>4. CASE m \notin 1 .. l /\ n \notin 1 .. l BY <1>4, <1>6, <2>4
    <2> QED BY <2>1, <2>2, <2>3, <2>4
  <1>7. ASSUME NEW n \in DOMAIN r, r[n].visible PROVE OneSaid(r[n])
    <2>1. CASE n \in 1 .. l BY <1>7, <2>1 DEF Recorded
    <2>2. CASE \E j \in 1 .. c : n = l + j BY <1>3, <1>7, <2>2 DEF Recorded
    <2> QED BY <1>2, <2>1, <2>2
  <1>8. ASSUME NEW i, NEW m, NEW n, Shown(r, Request(i), m), Shown(r, Request(i), n) PROVE m = n
    <2>1. \/ Shown(s, Request(i), m) /\ Shown(s, Request(i), n) /\ m \in 1 .. l /\ n \in 1 .. l
          \/ \E j, k \in 1 .. c :
               m = l + j /\ n = l + k /\ Shown(a, Request(i), j) /\ Shown(a, Request(i), k)
      BY <1>6, <1>8
    <2> QED BY <2>1 DEF Recorded
  <1>9. ASSUME NEW i, NEW m, NEW n, Shown(r, Request(i), m), Shown(r, Response(i), n)
        PROVE  n = m + 1 /\ r[n].created <= r[m].created
    <2>1. \/ Shown(s, Request(i), m) /\ Shown(s, Response(i), n) /\ m \in 1 .. l /\ n \in 1 .. l
          \/ \E j, k \in 1 .. c :
               m = l + j /\ n = l + k /\ Shown(a, Request(i), j) /\ Shown(a, Response(i), k)
      BY <1>6, <1>9
    <2>2. CASE Shown(s, Request(i), m) /\ Shown(s, Response(i), n) /\ m \in 1 .. l /\ n \in 1 .. l
      BY <2>2 DEF Recorded
    <2>3. CASE \E j, k \in 1 .. c :
                 m = l + j /\ n = l + k /\ Shown(a, Request(i), j) /\ Shown(a, Response(i), k)
      <3>1. PICK j \in 1 .. c, k \in 1 .. c :
              m = l + j /\ n = l + k /\ Shown(a, Request(i), j) /\ Shown(a, Response(i), k)
        BY <2>3
      <3>2. k = j + 1 /\ a[k].created <= a[j].created BY <3>1 DEF Recorded
      <3>3. n = m + 1 BY <3>1, <3>2
      <3>4. r[m] = a[j] /\ r[n] = a[k] BY <1>3, <3>1
      <3> QED BY <3>2, <3>3, <3>4
    <2> QED BY <2>1, <2>2, <2>3
  <1> QED BY <1>7, <1>8, <1>9 DEF Recorded

LEMMA SavedCount ==
  ASSUME Talks, Distinct(adding), NEW l \in Nat, NEW c \in Nat, Written(stored, adding, l, c)
  PROVE  Saved = 1 .. c /\ Cardinality(Saved) = c
PROOF
  <1>1. /\ DOMAIN stored = 1 .. l + c /\ DOMAIN adding = 1 .. Len(adding) /\ Len(adding) \in Nat
        /\ c <= Len(adding)
    BY DEF Talks, Written
  <1>2. ASSUME NEW n \in 1 .. c PROVE n \in Saved
    <2>1. n \in DOMAIN adding /\ l + n \in DOMAIN stored /\ stored[l + n] = adding[n]
      BY <1>1 DEF Written
    <2>2. adding[n].mid \in Mids(stored) BY <2>1 DEF Mids
    <2> QED BY <2>1, <2>2 DEF Saved
  <1>3. ASSUME NEW n \in Saved PROVE n \in 1 .. c
    <2>1. n \in DOMAIN adding /\ adding[n].mid \in Mids(stored) BY DEF Saved
    <2>2. PICK k \in DOMAIN stored : stored[k].mid = adding[n].mid BY <2>1 DEF Mids
    <2>3. CASE k \in 1 .. l
      <3>1. stored[k].mid \notin Mids(adding) BY <2>3 DEF Written, Unsaved
      <3> QED BY <2>1, <2>2, <3>1 DEF Mids
    <2>4. CASE k \notin 1 .. l
      <3>1. PICK j \in 1 .. c : k = l + j
        <4>1. k - l \in 1 .. c /\ k = l + (k - l) BY <1>1, <2>4
        <4> QED BY <4>1
      <3>2. stored[k] = adding[j] /\ j \in DOMAIN adding BY <1>1, <3>1 DEF Written
      <3>3. adding[j].mid = adding[n].mid BY <2>2, <3>2
      <3>4. j = n BY <2>1, <3>2, <3>3 DEF Distinct
      <3> QED BY <3>4
    <2> QED BY <2>3, <2>4
  <1>4. Saved = 1 .. c BY <1>2, <1>3
  <1>5. Cardinality(1 .. c) = c
    <2>1. 1 \in Int /\ c \in Int OBVIOUS
    <2>2. Cardinality(1 .. c) = IF 1 > c THEN 0 ELSE c - 1 + 1 BY <2>1, FS_Interval
    <2>3. c - 1 + 1 = c /\ (1 > c => c = 0) OBVIOUS
    <2> QED BY <2>2, <2>3
  <1> QED BY <1>4, <1>5

\* The next message of the turn is stored
LEMMA NextSaved ==
  ASSUME LoopType, Adds, Saving, SaveMessage
  PROVE  \E l \in Nat, c \in Nat :
           /\ Written(stored, adding, l, c) /\ Saved = 1 .. c /\ c + 1 \in DOMAIN adding
           /\ stored' = Append(stored, adding[c + 1])
PROOF
  <1>0. stored \in Seq(Messages) /\ adding \in Seq(Messages) BY DEF LoopType, Talks
  <1>1. PICK l \in Nat, c \in Nat : Written(stored, adding, l, c) BY DEF Saving
  <1>2. Saved = 1 .. c /\ Cardinality(Saved) = c BY <1>1, SavedCount DEF LoopType, Adds
  <1>3. c + 1 \in DOMAIN adding
    <2>1. DOMAIN adding = 1 .. Len(adding) /\ Len(adding) \in Nat /\ c <= Len(adding)
      BY <1>0, <1>1 DEF Written
    <2>2. c # Len(adding)
      <3> SUFFICES ASSUME c = Len(adding) PROVE FALSE OBVIOUS
      <3>1. Saved = DOMAIN adding BY <1>2, <2>1
      <3> QED BY <3>1 DEF SaveMessage
    <2>3. PICK u \in Nat : u = Len(adding) BY <2>1
    <2>4. c <= u /\ c # u BY <2>1, <2>2, <2>3
    <2>5. c + 1 \in 1 .. u
      <3> SUFFICES ASSUME NEW d \in Nat, d = c, d <= u, d # u PROVE d + 1 \in 1 .. u BY <2>4
      <3> QED OBVIOUS
    <2> QED BY <2>1, <2>3, <2>5
  <1>4. stored' = Append(stored, adding[c + 1]) BY <1>2 DEF SaveMessage
  <1> QED BY <1>1, <1>2, <1>3, <1>4

LEMMA SaveMessageKin ==
  ASSUME LoopType, LoopType', Shape, Kinship, SaveMessage PROVE Kinship'
PROOF
  <1> USE DEF Kinship
  <1>0. stored \in Seq(Messages) /\ adding \in Seq(Messages) BY DEF LoopType, Talks
  <1>1. PICK l \in Nat, c \in Nat :
          /\ Written(stored, adding, l, c) /\ Saved = 1 .. c /\ c + 1 \in DOMAIN adding
          /\ stored' = Append(stored, adding[c + 1])
    BY NextSaved
  <1>2. PICK m \in Messages : m = adding[c + 1] BY <1>0, <1>1
  <1>3. PICK t \in Seq(Messages) : t = <<m>> /\ Len(t) = 1 /\ DOMAIN t = {1} /\ t[1] = m
    <2>1. <<m>> \in Seq(Messages) /\ Len(<<m>>) = 1 /\ DOMAIN <<m>> = {1} /\ <<m>>[1] = m OBVIOUS
    <2> QED BY <2>1
  <1>4. PICK r \in Seq(Messages) : Chain(r, stored, t) BY <1>0, Chained
  <1>5. stored' = r
    <2>1. stored' = Append(stored, m) BY <1>1, <1>2
    <2>2. Append(stored, m) = stored \o <<m>> BY <1>0
    <2> QED BY <1>3, <1>4, <2>1, <2>2 DEF Chain
  <1>6. UNCHANGED <<pc, memory, adding, toHide, batch, born, calls, clock, cancelled>>
    BY DEF SaveMessage, call, summary, count
  <1>7. Len(r) = Len(stored) + 1 /\ (\A k \in DOMAIN stored : r[k] = stored[k]) /\ r[Len(stored) + 1] = m
    BY <1>3, <1>4 DEF Chain
  <1>8. Written(r, adding, l, c + 1) BY <1>0, <1>1, <1>2, <1>7, WrittenMore
  <1>9. Recorded(r)
    <2>1. Recorded(adding) /\ Recorded(stored) BY DEF Ordered, Adds
    <2>2. \A k \in 1 .. l : k \in DOMAIN stored /\ r[k] = stored[k]
      <3>1. DOMAIN stored = 1 .. l + c BY <1>0, <1>1 DEF Written
      <3>2. \A k \in 1 .. l : k \in 1 .. l + c OBVIOUS
      <3> QED BY <1>7, <3>1, <3>2
    <2>3. PICK d \in Nat : d = c + 1 OBVIOUS
    <2>4. Written(r, adding, l, d) BY <1>8, <2>3
    <2> QED BY <1>0, <2>1, <2>2, <2>4, WrittenRecorded
  <1>10. Has(adding, m) BY <1>1, <1>2 DEF Has
  <1>11. Ordered'
    <2>1. PICK w : First(stored, w) /\ Earliest(stored[w].created) BY DEF Ordered, SaveMessage
    <2>2. First(r, w) /\ r[w] = stored[w]
      <3>1. ~Speaks(m) => stored[w].created <= m.created BY <1>1, <1>2, <2>1 DEF Earliest
      <3>2. \A n \in DOMAIN t : t[n].visible /\ ~Speaks(t[n]) => stored[w].created <= t[n].created
        BY <1>3, <3>1
      <3> QED BY <1>0, <1>4, <2>1, <3>2, ChainFirst
    <2>3. Earliest(r[w].created)' BY <1>6, <2>1, <2>2 DEF Earliest
    <2>4. Earliest(stored[w].created)' BY <1>5, <2>3 DEF Earliest
    <2> QED BY <1>5, <1>9, <2>2, <2>4 DEF Ordered
  <1>12. Saving'
    <2>1. PICK d \in Nat : d = c + 1 OBVIOUS
    <2>2. Written(stored', adding', l, d) BY <1>5, <1>6, <1>8, <2>1
    <2>3. pc' = "save" /\ toHide' = <<>> BY <1>6 DEF SaveMessage
    <2> QED BY <2>2, <2>3 DEF Saving
  <1>13. Fresh'
    <2>1. ASSUME NEW i, Mentioned(t, i) PROVE Mentioned(adding, i)
      <3>1. Tells(m, i) BY <1>3, <2>1 DEF Mentioned
      <3> QED BY <1>1, <1>2, <3>1 DEF Mentioned
    <2>2. \A i : Mentioned(r, i) => Mentioned(stored, i) \/ Mentioned(adding, i)
      BY <1>4, <2>1, ChainShown
    <2>3. \A i : Known(i)' => Known(i) BY <1>5, <1>6, <2>2 DEF Known
    <2> QED BY <1>6, <2>3 DEF Fresh
  <1>14. Adds' BY <1>6 DEF Adds
  <1>15. Sends' BY <1>6 DEF Sends
  <1>16. Apart'
    <2>1. SpeakIds(t) \subseteq SpeakIds(adding) BY <1>1, <1>2, <1>3 DEF SpeakIds
    <2>2. BusyIds(t) \subseteq BusyIds(adding) BY <1>1, <1>2, <1>3 DEF BusyIds
    <2>3. SpeakIds(r) = SpeakIds(stored) \cup SpeakIds(t) BY <1>4, ChainSpeaks
    <2>4. BusyIds(r) = BusyIds(stored) \cup BusyIds(t) BY <1>4, ChainRows
    <2>5. HideIds' = HideIds BY <1>6 DEF HideIds
    <2>6. (SpeakIds(r) \cup SpeakIds(adding))
            \cap (BusyIds(r) \cup BusyIds(adding) \cup BusyIds(memory) \cup HideIds') = {}
      BY <2>1, <2>2, <2>3, <2>4, <2>5 DEF Apart
    <2> QED BY <1>5, <1>6, <2>6 DEF Apart
  <1> QED BY <1>11, <1>12, <1>13, <1>14, <1>15, <1>16

LEMMA TurnEndsKin ==
  ASSUME LoopType, LoopType', Shape, Kinship, TurnEnds PROVE Kinship'
PROOF
  <1>1. CASE exit /\ Gone
    <2>1. UNCHANGED <<stored, calls, clock>> /\ pc # "idle" BY DEF TurnEnds
    <2> QED BY <1>1, <2>1, GoneKin
  <1>2. CASE ~exit /\ pc' = "top" /\ memory' = memory \o adding /\ adding' = <<>>
             /\ UNCHANGED <<batch, born, summary, cancelled>>
    <2> USE <1>2 DEF Kinship
    <2>1. memory \in Seq(Messages) /\ adding \in Seq(Messages) BY DEF LoopType, Talks
    <2>2. PICK r \in Seq(Messages) : Chain(r, memory, adding) BY <2>1, Chained
    <2>3. memory' = r BY <2>2 DEF Chain
    <2>4. /\ UNCHANGED <<stored, batch, born, toHide, cancelled, calls, clock>>
          /\ pc = "save" /\ batch = <<>>
      BY DEF TurnEnds, call, summary, Shape
    <2>5. Ordered'
      <3>1. \A c : Earliest(c) => Earliest(c)' BY <2>4 DEF Earliest
      <3>2. PICK w : First(stored, w) /\ Earliest(stored[w].created) BY <2>4 DEF Ordered
      <3>3. PICK c : c = stored[w].created OBVIOUS
      <3>4. Earliest(c)' BY <3>1, <3>2, <3>3
      <3>5. Earliest(stored[w].created)' BY <2>4, <3>3, <3>4 DEF Earliest
      <3> QED BY <2>4, <3>2, <3>5 DEF Ordered
    <2>6. Saving'
      <3>1. NoneSaved(stored', adding') BY Nothing
      <3>2. stored' \in Seq(Messages) /\ adding' \in Seq(Messages) BY DEF LoopType, Talks
      <3> QED BY <3>1, <3>2, NothingSaved DEF Saving
    <2>7. \A i : Mentioned(r, i) <=> Mentioned(memory, i) \/ Mentioned(adding, i)
      BY <2>2, ChainShown
    <2>8. Fresh'
      <3>1. \A i : ~Mentioned(adding', i) BY Nothing
      <3>2. \A i : Known(i)' => Known(i) BY <2>3, <2>4, <2>7, <3>1 DEF Known
      <3> QED BY <2>4, <3>2 DEF Fresh
    <2>9. Adds' BY Nothing DEF Adds
    <2>10. Sends'
      <3> SUFFICES ASSUME ~cancelled PROVE (\A i \in Nat : OnePair(r, i)) /\ OneCallSeen(r)
        BY <2>3, <2>4 DEF Sends
      <3>1. (\A i \in Nat : OnePair(memory, i)) /\ OneCallSeen(memory) BY <2>4 DEF Sends
      <3>2. \A i \in Nat : OnePair(adding, i) BY DEF Adds
      <3>3. \A i : ~(Mentioned(memory, i) /\ Mentioned(adding, i)) BY DEF Adds
      <3>4. \A i \in Nat : OnePair(r, i) BY <2>2, <3>1, <3>2, <3>3, ChainPairs
      <3>5. OneCallSeen(adding) BY <2>1, RecordedSeen DEF Adds
      <3> QED BY <2>2, <3>1, <3>4, <3>5, ChainRows
    <2>11. Apart'
      <3>1. BusyIds(r) = BusyIds(memory) \cup BusyIds(adding) BY <2>2, ChainRows
      <3>2. SpeakIds(adding') = {} /\ BusyIds(adding') = {} BY Nothing
      <3>3. HideIds' = HideIds BY <2>4 DEF HideIds
      <3>4. (SpeakIds(stored) \cup SpeakIds(adding'))
              \cap (BusyIds(stored) \cup BusyIds(adding') \cup BusyIds(r) \cup HideIds') = {}
        BY <3>1, <3>2, <3>3 DEF Apart
      <3> QED BY <2>3, <2>4, <3>4 DEF Apart
    <2> QED BY <2>5, <2>6, <2>8, <2>9, <2>10, <2>11
  <1> QED BY <1>1, <1>2 DEF TurnEnds

LEMMA KinNext == ASSUME LoopType, Shape, Kinship, [Next]_vars PROVE Kinship'
PROOF
  <1>1. LoopType' /\ Shape' BY LoopNext, ShapeNext
  <1>2. CASE UNCHANGED vars BY <1>1, <1>2, PlainKin
  <1>3. CASE StartReply BY <1>1, <1>3, StartReplyKin
  <1>4. CASE Elicit \/ Answer BY <1>1, <1>4, AskKin
  <1>5. CASE Drop \/ AutoCompactFails \/ Leave
    <2>1. Gone /\ UNCHANGED <<stored, calls, clock>> /\ pc # "idle"
      BY <1>5 DEF Drop, AutoCompactFails, Leave
    <2> QED BY <1>1, <2>1, GoneKin
  <1>6. CASE StartTurn \/ CallTools \/ OverflowAgain \/ StreamEnds
             \/ ChecksPass \/ ChecksFail \/ NoSummary \/ Cancel \/ Tick
    BY <1>1, <1>6, PlainKin
  <1>7. CASE AutoCompact BY <1>1, <1>7, ReplaceKin
  <1>8. CASE Overflow BY <1>1, <1>8, OverflowKin
  <1>9. CASE SayText BY <1>1, <1>9, SayTextKin
  <1>10. CASE ToolsDone BY <1>1, <1>10, ToolsDoneKin
  <1>11. CASE AfterStream BY <1>1, <1>11, AfterStreamKin
  <1>12. CASE Summarize BY <1>1, <1>12, SummarizeKin
  <1>13. CASE HideStored BY <1>1, <1>13, HideStoredKin
  <1>14. CASE SaveMessage BY <1>1, <1>14, SaveMessageKin
  <1>15. CASE TurnEnds BY <1>1, <1>15, TurnEndsKin
  <1> QED BY <1>2, <1>3, <1>4, <1>5, <1>6, <1>7, <1>8, <1>9, <1>10, <1>11, <1>12, <1>13, <1>14,
             <1>15 DEF Next, Step

LEMMA KinInit == Init => Shape /\ Kinship
PROOF
  <1> SUFFICES ASSUME Init PROVE Shape /\ Kinship OBVIOUS
  <1>1. Shape BY DEF Init, Shape
  <1>2. /\ memory = <<>> /\ stored = <<>> /\ adding = <<>> /\ toHide = <<>> /\ batch = <<>>
        /\ pc = "idle" /\ ~asked
    BY DEF Init
  <1>3. Ordered BY <1>2, Nothing DEF Ordered
  <1>4. Saving
    <2>1. NoneSaved(stored, adding) BY <1>2, Nothing
    <2>2. stored \in Seq(Messages) /\ adding \in Seq(Messages) BY <1>2
    <2> QED BY <2>1, <2>2, NothingSaved DEF Saving
  <1>5. Fresh
    <2>1. \A i : ~Known(i) BY <1>2, Nothing DEF Known
    <2> QED BY <1>2, <2>1 DEF Fresh
  <1>6. Adds BY <1>2, Nothing DEF Adds
  <1>7. Sends BY <1>2 DEF Sends
  <1>8. Apart BY <1>2, Nothing DEF Apart, HideIds
  <1> QED BY <1>1, <1>3, <1>4, <1>5, <1>6, <1>7, <1>8 DEF Kinship

\* Each turn sends the model every call once, with one response after it, and no
\* response without its call, after whatever merges, compactions, summaries,
\* dropped replies and cancelled tools came before
THEOREM SentIsPaired == Spec => []SentPaired
PROOF
  <1> DEFINE Inv == LoopType /\ Shape /\ Kinship
  <1>1. Init => Inv BY LoopInit, KinInit
  <1>2. Inv /\ [Next]_vars => Inv' BY LoopNext, ShapeNext, KinNext
  <1>3. Inv => SentPaired
    <2> SUFFICES ASSUME Inv, pc = "stream", NEW i \in 1 .. calls
                 PROVE  \/ /\ Places(Visible(memory), Request(i)) = {}
                           /\ Places(Visible(memory), Response(i)) = {}
                        \/ \E m, n \in DOMAIN Visible(memory) :
                             /\ m < n
                             /\ Places(Visible(memory), Request(i)) = {m}
                             /\ Places(Visible(memory), Response(i)) = {n}
      BY DEF SentPaired
    <2>1. i \in Nat BY DEF LoopType, Rest, Counted
    <2>2. OnePair(memory, i) BY <2>1 DEF Kinship, Sends
    <2>3. memory \in Seq(Messages) BY DEF LoopType, Talks
    <2> QED BY <2>2, <2>3, SeenPairs
  <1> QED BY <1>1, <1>2, <1>3, PTL DEF Spec

-----------------------------------------------------------------------------
(***************************************************************************)
(* The calls of the memory and of a reload of the store.                   *)
(***************************************************************************)
\* The model sees both messages of call i
Both(s, i) == \E m, n : Shown(s, Request(i), m) /\ Shown(s, Response(i), n)

\* and they were created in the same second
Together(s, i) ==
  \E m, n : /\ Shown(s, Request(i), m) /\ Shown(s, Response(i), n)
            /\ s[m].created = s[n].created

\* No other message has the row of one that tells of a call
OwnRows(s) ==
  \A i, k, l : k \in DOMAIN s /\ l \in DOMAIN s /\ Tells(s[k], i) /\ s[l].mid = s[k].mid => l = k

\* What r tells of call i is in the rows of s in which s tells it
SameRows(r, s, i) ==
  /\ \A x, k, n :
       /\ x \in {Request(i), Response(i)} /\ Mentioned(r, i)
       /\ Shown(s, x, k) /\ n \in DOMAIN r /\ r[n].mid = s[k].mid
       => Shown(r, x, n)
  /\ \A k, n : Shown(r, Response(i), n) /\ Shown(s, Response(i), k) => r[n].mid = s[k].mid

\* A reload of s has the calls of s whose messages are of one second: a result
\* that is older than its call comes before it, and both are dropped
LEMMA ReloadReplied ==
  ASSUME NEW s \in Seq(Messages), Recorded(s), NEW v \in Seq(Messages), NEW e, InOrder(e, v, s), NEW i
  PROVE  (Together(s, i) => Replied(v, i)) /\ (Follows(v, i) => Together(s, i))
PROOF
  <1>1. /\ \A j \in DOMAIN v : e[j] \in DOMAIN s /\ s[e[j]].visible /\ v[j] = s[e[j]]
        /\ \A n \in DOMAIN s : s[n].visible => \E j \in DOMAIN v : e[j] = n
        /\ \A j, k \in DOMAIN v : j < k => Before(s, e[j], e[k])
        /\ \A j, k \in DOMAIN v : e[j] = e[k] => j = k
    BY DEF InOrder
  <1>2. \A x, j : In(v, x, j) => Shown(s, x, e[j]) BY <1>1 DEF In, Shown
  <1>3. DOMAIN v = 1 .. Len(v) /\ DOMAIN s = 1 .. Len(s) OBVIOUS
  <1>4. \A n \in DOMAIN s : s[n].created \in Nat /\ n \in Nat
    <2>1. \A n \in DOMAIN s : s[n] \in Messages OBVIOUS
    <2> QED BY <1>3, <2>1, CreatedNat
  <1>5. ASSUME Together(s, i) PROVE Replied(v, i)
    <2>1. PICK m, n : /\ Shown(s, Request(i), m) /\ Shown(s, Response(i), n)
                      /\ s[m].created = s[n].created
      BY <1>5 DEF Together
    <2>2. n = m + 1 BY <2>1 DEF Recorded
    <2>3. /\ m \in DOMAIN s /\ n \in DOMAIN s /\ s[m].visible /\ s[n].visible
          /\ Has(s[m].items, Request(i)) /\ Has(s[n].items, Response(i))
      BY <2>1 DEF Shown, In
    <2>4. PICK a \in DOMAIN v : e[a] = m BY <1>1, <2>3
    <2>5. PICK b \in DOMAIN v : e[b] = n BY <1>1, <2>3
    <2>6. v[a] = s[m] /\ v[b] = s[n] BY <1>1, <2>4, <2>5
    <2>7. a < b
      <3>1. m \in Nat /\ s[m].created \in Nat BY <1>4, <2>3
      <3>2. ~Before(s, n, m) BY <2>1, <2>2, <3>1 DEF Before
      <3>3. ~(b < a) BY <1>1, <2>4, <2>5, <3>2
      <3>4. a # b BY <2>2, <2>4, <2>5, <3>1
      <3> QED BY <1>3, <3>3, <3>4
    <2>8. v[a].role = "assistant" /\ v[b].role = "user"
      <3>1. OneSaid(s[m]) /\ OneSaid(s[n]) BY <2>3 DEF Recorded
      <3>2. s[m].role = "assistant" /\ s[n].role = "user" BY <2>3, <3>1 DEF OneSaid
      <3> QED BY <2>6, <3>2
    <2>9. ASSUME NEW k, In(v, Request(i), k) PROVE k = a
      <3>1. Shown(s, Request(i), e[k]) BY <1>2, <2>9
      <3>2. e[k] = m BY <2>1, <3>1 DEF Recorded
      <3> QED BY <1>1, <2>4, <2>9, <3>2 DEF In
    <2>10. ASSUME NEW k, In(v, Response(i), k) PROVE k = b
      <3>1. Shown(s, Response(i), e[k]) BY <1>2, <2>10
      <3>2. e[k] = n BY <2>1, <2>2, <3>1 DEF Recorded
      <3> QED BY <1>1, <2>5, <2>10, <3>2 DEF In
    <2>11. In(v, Request(i), a) /\ In(v, Response(i), b) BY <2>3, <2>6 DEF In
    <2>12. RepliedAt(v, i, a, b) BY <2>7, <2>8, <2>9, <2>10, <2>11 DEF RepliedAt
    <2> QED BY <2>12 DEF Replied
  <1>6. ASSUME Follows(v, i) PROVE Together(s, i)
    <2>1. PICK m, n : In(v, Request(i), m) /\ In(v, Response(i), n) /\ m < n BY <1>6 DEF Follows
    <2>2. Shown(s, Request(i), e[m]) /\ Shown(s, Response(i), e[n]) BY <1>2, <2>1
    <2>3. s[e[n]].created <= s[e[m]].created BY <2>2 DEF Recorded
    <2>4. Before(s, e[m], e[n]) BY <1>1, <2>1 DEF In
    <2>5. s[e[m]].created \in Nat /\ s[e[n]].created \in Nat BY <1>4, <2>2 DEF Shown, In
    <2>6. s[e[m]].created = s[e[n]].created BY <2>3, <2>4, <2>5 DEF Before
    <2> QED BY <2>2, <2>6 DEF Together
  <1> QED BY <1>5, <1>6

\* A reload of s tells of the calls whose messages are of one second, in their rows
LEMMA ReloadReads ==
  ASSUME NEW s \in Seq(Messages), Recorded(s), OwnRows(s), NEW w, First(s, w), NEW i \in Nat
  PROVE  /\ Mentioned(Fixed(Reload(s)), i) <=> Together(s, i)
         /\ SameRows(Fixed(Reload(s)), s, i)
PROOF
  <1>1. PICK l \in Seq(Messages) : \E d : l = Reload(s) /\ Sorted(d, l, s, DOMAIN s) BY ReloadSorted
  <1>2. PICK d : Sorted(d, l, s, DOMAIN s) BY <1>1
  <1>3. PICK v \in Seq(Messages) : \E e : v = Visible(Reload(s)) /\ InOrder(e, v, s) BY ReloadPlaces
  <1>4. PICK e : InOrder(e, v, s) BY <1>3
  <1>5. v = Visible(l) BY <1>1, <1>3
  <1>6. Sendable(v) BY <1>3, ReloadSendable
  <1>7. PICK r \in Seq(Messages) : r = Fixed(l) BY <1>5, <1>6, FixedCalls
  <1>8. v # <<>> /\ Visible(r) = FixMessages(v)
    <2>1. v # <<>> BY <1>6 DEF Sendable, BeginsWithWords
    <2> QED BY <1>5, <1>7, <2>1, MessagesFit, FixedVisible
  <1>9. PICK f \in Seq(Messages) : f = Visible(r) BY <1>7, VisibleType
  <1>10. WellPaired(f, i) BY <1>6, <1>8, <1>9, MessagesFit, FixMessagesPaired DEF Sendable
  <1>11. From(f, v) /\ ((\E j : In(f, Request(i), j)) => Follows(v, i))
    BY <1>6, <1>8, <1>9, MessagesFit, FixMessagesCalls DEF Sendable
  <1>12. /\ \A n \in DOMAIN r : r[n].visible => \E j \in DOMAIN f : f[j] = r[n]
         /\ \A j \in DOMAIN f : \E n \in DOMAIN r : r[n].visible /\ f[j] = r[n]
    BY <1>7, <1>9, VisiblePlaces
  <1>13. \A n \in DOMAIN r : Has(f, r[n]) \/ (Has(l, r[n]) /\ ~r[n].visible)
    <2>1. r = Placed(f, l).msgs BY <1>5, <1>7, <1>8, <1>9 DEF Fixed
    <2> QED BY <2>1, PlacedFrom
  <1>14. /\ \A j \in DOMAIN v : e[j] \in DOMAIN s /\ s[e[j]].visible /\ v[j] = s[e[j]]
         /\ \A j \in DOMAIN l : d[j] \in DOMAIN s /\ l[j] = s[d[j]]
    BY <1>2, <1>4 DEF InOrder, Sorted
  <1>15. Together(s, i) => Replied(v, i) BY <1>4, ReloadReplied
  <1>16. Follows(v, i) => Together(s, i) BY <1>4, ReloadReplied
  <1>17. ASSUME Together(s, i) PROVE KeepsRows(f, v, i) /\ \E j : In(f, Request(i), j)
    <2>1. Replied(v, i) BY <1>15, <1>17
    <2> QED BY <1>6, <1>8, <1>9, <2>1, MessagesFit, FixMessagesHold DEF Sendable
  <1>18. ASSUME Mentioned(r, i) PROVE Together(s, i)
    <2>1. PICK n \in DOMAIN r : Tells(r[n], i) BY <1>18 DEF Mentioned
    <2>2. PICK j \in DOMAIN f : f[j] = r[n] BY <1>12, <2>1 DEF Tells
    <2>3. In(f, Request(i), j) \/ In(f, Response(i), j) BY <2>1, <2>2 DEF Tells, In
    <2>4. \E k : In(f, Request(i), k) BY <1>10, <2>3 DEF WellPaired
    <2> QED BY <1>11, <1>16, <2>4
  <1>19. ASSUME Together(s, i) PROVE Mentioned(r, i)
    <2>1. PICK j : In(f, Request(i), j) BY <1>17, <1>19
    <2>2. PICK n \in DOMAIN r : r[n].visible /\ f[j] = r[n] BY <1>12, <2>1 DEF In
    <2> QED BY <2>1, <2>2 DEF In, Mentioned, Tells
  <1>20. ASSUME NEW x \in {Request(i), Response(i)}, NEW k, NEW n, Mentioned(r, i), Shown(s, x, k),
                n \in DOMAIN r, r[n].mid = s[k].mid
         PROVE  Shown(r, x, n)
    <2>1. k \in DOMAIN s /\ Tells(s[k], i) /\ Has(s[k].items, x) /\ s[k].visible
      BY <1>20 DEF Shown, In, Tells
    <2>2. \A a \in DOMAIN s : s[a].mid = s[k].mid => a = k BY <2>1 DEF OwnRows
    <2>3. Has(f, r[n])
      <3> SUFFICES ASSUME Has(l, r[n]), ~r[n].visible PROVE FALSE BY <1>13, <1>20
      <3>1. PICK j \in DOMAIN l : l[j] = r[n] BY DEF Has
      <3>2. d[j] = k BY <1>14, <1>20, <2>2, <3>1
      <3> QED BY <1>14, <2>1, <3>1, <3>2
    <2>4. PICK j \in DOMAIN f : f[j] = r[n] BY <2>3 DEF Has
    <2>5. RowHas(v, x, s[k].mid)
      <3> SUFFICES ASSUME NEW a \in DOMAIN v, v[a].mid = s[k].mid PROVE Has(v[a].items, x)
        BY DEF RowHas
      <3>1. e[a] = k BY <1>14, <2>2
      <3> QED BY <1>14, <2>1, <3>1
    <2>6. RowHas(f, x, s[k].mid) BY <1>17, <1>18, <1>20, <2>5 DEF KeepsRows
    <2>7. Has(r[n].items, x) BY <1>20, <2>4, <2>6 DEF RowHas
    <2>8. r[n].visible
      <3>1. PICK a \in DOMAIN r : r[a].visible /\ f[j] = r[a] BY <1>12
      <3> QED BY <2>4, <3>1
    <2> QED BY <1>20, <2>7, <2>8 DEF Shown, In
  <1>21. ASSUME NEW k, NEW n, Shown(r, Response(i), n), Shown(s, Response(i), k)
         PROVE  r[n].mid = s[k].mid
    <2>1. PICK j \in DOMAIN f : f[j] = r[n] BY <1>12, <1>21 DEF Shown, In
    <2>2. In(f, Response(i), j) /\ IsCall(Response(i)) /\ Response(i).kind = "response"
      BY <1>21, <2>1 DEF Shown, In, IsCall, Response
    <2>3. PICK a : In(v, Response(i), a) /\ f[j].mid = v[a].mid BY <1>11, <2>2 DEF From
    <2>4. Shown(s, Response(i), e[a]) /\ v[a] = s[e[a]] BY <1>14, <2>3 DEF In, Shown
    <2>5. Mentioned(r, i) BY <1>21, MentionedShown
    <2>6. PICK q : Shown(s, Request(i), q) BY <1>18, <2>5 DEF Together
    <2>7. e[a] = k BY <1>21, <2>4, <2>6 DEF Recorded
    <2> QED BY <2>1, <2>3, <2>4, <2>7
  <1>22. SameRows(r, s, i) BY <1>20, <1>21 DEF SameRows
  <1> QED BY <1>1, <1>7, <1>18, <1>19, <1>22

\* r, which the model is sent, a, which the turn adds, and s, of which the rows in
\* H are yet to be hidden, agree on call i
Agree(r, a, s, H, i) ==
  /\ Mentioned(r, i) => Both(s, i)
  /\ Together(s, i) =>
       Mentioned(r, i) \/ Mentioned(a, i) \/ \E n : Shown(s, Response(i), n) /\ s[n].mid \in H
  /\ SameRows(r, s, i)
  /\ \A k \in DOMAIN s : Mentioned(r, i) /\ Tells(s[k], i) => s[k].mid \notin H

LEMMA ReloadAgree ==
  ASSUME NEW s \in Seq(Messages), Recorded(s), OwnRows(s), NEW w, First(s, w), NEW i \in Nat, NEW a
  PROVE  Agree(Fixed(Reload(s)), a, s, {}, i)
PROOF
  <1>1. PICK r : r = Fixed(Reload(s)) OBVIOUS
  <1>2. (Mentioned(r, i) <=> Together(s, i)) /\ SameRows(r, s, i) BY <1>1, ReloadReads
  <1>3. Together(s, i) => Both(s, i) BY DEF Together, Both
  <1>4. Agree(r, a, s, {}, i) BY <1>2, <1>3 DEF Agree
  <1> QED BY <1>1, <1>4

\* Nothing is told of the call
LEMMA SilentAgree ==
  ASSUME NEW r, NEW a, NEW s, NEW H, NEW i, ~Mentioned(r, i), ~Mentioned(s, i)
  PROVE  Agree(r, a, s, H, i)
PROOF
  <1>1. \A n : ~Shown(r, Response(i), n) /\ ~Shown(s, Response(i), n) BY MentionedShown
  <1> QED BY <1>1 DEF Agree, SameRows, Together

LEMMA AgreeAdds ==
  ASSUME NEW r, NEW a, NEW b, NEW s, NEW H, NEW i, Agree(r, a, s, H, i),
         Mentioned(a, i) => Mentioned(b, i)
  PROVE  Agree(r, b, s, H, i)
PROOF BY DEF Agree

\* The store grows by what the turn adds, or by what tells of no call
LEMMA AgreeGrows ==
  ASSUME NEW r, NEW a, NEW s, NEW H, NEW i, Agree(r, a, s, H, i), NEW u, NEW t, Chain(u, s, t),
         Mentioned(t, i) => Mentioned(a, i) /\ ~Mentioned(r, i)
  PROVE  Agree(r, a, u, H, i)
PROOF
  <1>1. \A x, k : Shown(s, x, k) => Shown(u, x, k) /\ u[k] = s[k]
    BY ChainShown DEF Chain, Shown, In
  <1>2. ASSUME ~Mentioned(t, i), NEW x \in {Request(i), Response(i)}, NEW k, Shown(u, x, k)
        PROVE  Shown(s, x, k)
    <2>1. Shown(s, x, k) \/ \E j \in DOMAIN t : Shown(t, x, j) BY <1>2, ChainShown
    <2> QED BY <1>2, <2>1, MentionedShown
  <1>3. Mentioned(r, i) => Both(u, i) BY <1>1 DEF Agree, Both
  <1>4. ASSUME Together(u, i), ~Mentioned(a, i)
        PROVE  Mentioned(r, i) \/ \E n : Shown(u, Response(i), n) /\ u[n].mid \in H
    <2>1. PICK m, n : /\ Shown(u, Request(i), m) /\ Shown(u, Response(i), n)
                      /\ u[m].created = u[n].created
      BY <1>4 DEF Together
    <2>2. Shown(s, Request(i), m) /\ Shown(s, Response(i), n) BY <1>2, <1>4, <2>1
    <2>3. Together(s, i) BY <1>1, <2>1, <2>2 DEF Together
    <2> QED BY <1>1, <1>4, <2>3 DEF Agree
  <1>5. SameRows(r, u, i)
    <2>1. ASSUME NEW x, NEW k, NEW n, x \in {Request(i), Response(i)}, Mentioned(r, i),
                 Shown(u, x, k), n \in DOMAIN r, r[n].mid = u[k].mid
          PROVE  Shown(r, x, n)
      <3>1. Shown(s, x, k) BY <1>2, <2>1
      <3>2. r[n].mid = s[k].mid BY <1>1, <2>1, <3>1
      <3> QED BY <2>1, <3>1, <3>2 DEF Agree, SameRows
    <2>2. ASSUME NEW k, NEW n, Shown(r, Response(i), n), Shown(u, Response(i), k)
          PROVE  r[n].mid = u[k].mid
      <3>1. Mentioned(r, i) BY <2>2, MentionedShown
      <3>2. Shown(s, Response(i), k) BY <1>2, <2>2, <3>1
      <3> QED BY <1>1, <2>2, <3>2 DEF Agree, SameRows
    <2> QED BY <2>1, <2>2 DEF SameRows
  <1>6. ASSUME NEW k \in DOMAIN u, Mentioned(r, i), Tells(u[k], i) PROVE u[k].mid \notin H
    <2>1. PICK x \in {Request(i), Response(i)} : Shown(u, x, k) BY <1>6 DEF Tells, Shown, In
    <2>2. Shown(s, x, k) BY <1>2, <1>6, <2>1
    <2>3. Tells(s[k], i) /\ k \in DOMAIN s BY <2>2 DEF Tells, Shown, In
    <2> QED BY <1>1, <1>6, <2>2, <2>3 DEF Agree
  <1> QED BY <1>3, <1>4, <1>5, <1>6 DEF Agree

\* One row more of the call that was summarized is hidden in the store
LEMMA AgreeHides ==
  ASSUME NEW r, NEW a, NEW s, NEW H, NEW i, Agree(r, a, s, H, i), Recorded(s),
         NEW h, h \in H, NEW G, H = G \cup {h}, NEW u, NEW K, Dimmed(u, s, K),
         \A n \in DOMAIN s : n \in K <=> s[n].mid = h
  PROVE  Agree(r, a, u, G, i)
PROOF
  <1>1. \A x, n : Shown(u, x, n) <=> Shown(s, x, n) /\ n \notin K BY DimmedCalls
  <1>2. \A n \in DOMAIN s : u[n].created = s[n].created /\ u[n].mid = s[n].mid BY DEF Dimmed
  <1>3. \A x, n : Shown(s, x, n) => n \in DOMAIN s BY DEF Shown, In
  <1>4. ASSUME Mentioned(r, i), NEW x \in {Request(i), Response(i)}, NEW n, Shown(s, x, n)
        PROVE  Shown(u, x, n)
    <2>1. Tells(s[n], i) /\ n \in DOMAIN s BY <1>4 DEF Shown, In, Tells
    <2>2. s[n].mid \notin H BY <1>4, <2>1 DEF Agree
    <2>3. n \notin K BY <2>1, <2>2
    <2> QED BY <1>1, <1>4, <2>3
  <1>5. Mentioned(r, i) => Both(u, i) BY <1>4 DEF Agree, Both
  <1>6. ASSUME Together(u, i), ~Mentioned(r, i), ~Mentioned(a, i)
        PROVE  \E n : Shown(u, Response(i), n) /\ u[n].mid \in G
    <2>1. PICK m, n : /\ Shown(u, Request(i), m) /\ Shown(u, Response(i), n)
                      /\ u[m].created = u[n].created
      BY <1>6 DEF Together
    <2>2. Shown(s, Request(i), m) /\ Shown(s, Response(i), n) /\ n \notin K BY <1>1, <2>1
    <2>3. Together(s, i) BY <1>2, <1>3, <2>1, <2>2 DEF Together
    <2>4. PICK k : Shown(s, Response(i), k) /\ s[k].mid \in H BY <1>6, <2>3 DEF Agree
    <2>5. k = n BY <2>2, <2>4 DEF Recorded
    <2>6. s[n].mid # h BY <1>3, <2>2
    <2>7. u[n].mid \in G BY <1>2, <1>3, <2>2, <2>4, <2>5, <2>6
    <2> QED BY <2>1, <2>7
  <1>7. SameRows(r, u, i)
    <2>1. ASSUME NEW x, NEW k, Shown(u, x, k) PROVE Shown(s, x, k) /\ u[k].mid = s[k].mid
      BY <1>1, <1>2, <1>3, <2>1
    <2> QED BY <2>1 DEF Agree, SameRows
  <1>8. ASSUME NEW k \in DOMAIN u, Mentioned(r, i), Tells(u[k], i) PROVE u[k].mid \notin G
    <2>1. k \in DOMAIN s /\ Tells(s[k], i) BY <1>8 DEF Dimmed, Tells
    <2>2. s[k].mid \notin H BY <1>8, <2>1 DEF Agree
    <2> QED BY <1>2, <2>1, <2>2
  <1> QED BY <1>5, <1>6, <1>7, <1>8 DEF Agree

\* q is r without call c, at K, whose rows are H
Summarized(q, r, c, K, H) ==
  /\ OneCallSeen(r) /\ OnePair(r, c) /\ Dimmed(q, r, K)
  /\ \A n \in DOMAIN r : n \in K <=> Mentions(r[n], c)
  /\ \A h : h \in H <=> \E n \in DOMAIN r : n \in K /\ r[n].mid = h

\* The memory hides a call, whose rows are to be hidden in the store
LEMMA AgreeSummarized ==
  ASSUME NEW r, NEW a, NEW s, NEW i, Agree(r, a, s, {}, i),
         NEW q, NEW c, NEW K, NEW H, Summarized(q, r, c, K, H)
  PROVE  Agree(q, a, s, H, i)
PROOF
  <1> USE DEF Summarized
  <1>1. \A x, n : Shown(q, x, n) <=> Shown(r, x, n) /\ n \notin K BY DimmedCalls
  <1>2. \A n \in DOMAIN r : q[n].mid = r[n].mid BY DEF Dimmed
  <1>3. DOMAIN q = DOMAIN r BY DEF Dimmed
  <1>4. \A x, n : Shown(r, x, n) => n \in DOMAIN r BY DEF Shown, In
  <1>5. ASSUME NEW n, NEW x \in {Request(i), Response(i)}, Shown(r, x, n), n \in K PROVE i = c
    <2>1. Mentions(r[n], c) /\ n \in DOMAIN r /\ r[n].visible /\ Has(r[n].items, x)
      BY <1>4, <1>5 DEF Shown, In
    <2>2. PICK y \in {Request(c), Response(c)} : Has(r[n].items, y) BY <2>1 DEF Mentions, Has
    <2>3. IsCall(x) /\ IsCall(y) /\ x.id = i /\ y.id = c BY DEF IsCall, Request, Response
    <2>4. OneCall(r[n]) BY <2>1 DEF OneCallSeen
    <2>5. x.id = y.id BY <2>1, <2>2, <2>3, <2>4 DEF OneCall
    <2> QED BY <2>3, <2>5
  <1>6. ~Mentioned(q, c)
    <2> SUFFICES ASSUME Mentioned(q, c) PROVE FALSE OBVIOUS
    <2>1. PICK n, x : x \in {Request(c), Response(c)} /\ Shown(q, x, n) BY MentionedShown
    <2>2. Shown(r, x, n) /\ n \notin K BY <1>1, <2>1
    <2>3. n \in DOMAIN r /\ Mentions(r[n], c) BY <2>1, <2>2 DEF Shown, In, Has, Mentions
    <2> QED BY <2>2, <2>3
  <1>7. ASSUME Mentioned(q, i) PROVE Mentioned(r, i) /\ i # c BY <1>6, <1>7, DimmedCalls
  <1>8. Mentioned(q, i) => Both(s, i) BY <1>7 DEF Agree
  <1>9. ASSUME Together(s, i), ~Mentioned(q, i), ~Mentioned(a, i)
        PROVE  \E n : Shown(s, Response(i), n) /\ s[n].mid \in H
    <2>1. Mentioned(r, i) BY <1>9 DEF Agree
    <2>2. PICK n, x : x \in {Request(i), Response(i)} /\ Shown(r, x, n) BY <2>1, MentionedShown
    <2>3. ~Shown(q, x, n) BY <1>9, <2>2, MentionedShown
    <2>4. i = c BY <1>1, <1>5, <2>2, <2>3
    <2>5. PICK k : Shown(r, Response(i), k) BY <2>1, <2>4 DEF OnePair
    <2>6. k \in DOMAIN r /\ Mentions(r[k], c) BY <2>4, <2>5 DEF Shown, In, Has, Mentions
    <2>7. PICK l : Shown(s, Response(i), l) BY <1>9 DEF Together
    <2>8. r[k].mid = s[l].mid BY <2>5, <2>7 DEF Agree, SameRows
    <2>9. s[l].mid \in H BY <2>6, <2>8
    <2> QED BY <2>7, <2>9
  <1>10. SameRows(q, s, i)
    <2>1. ASSUME NEW x, NEW k, NEW n, x \in {Request(i), Response(i)}, Mentioned(q, i),
                 Shown(s, x, k), n \in DOMAIN q, q[n].mid = s[k].mid
          PROVE  Shown(q, x, n)
      <3>1. r[n].mid = s[k].mid /\ n \in DOMAIN r BY <1>2, <1>3, <2>1
      <3>2. Shown(r, x, n) BY <1>7, <2>1, <3>1 DEF Agree, SameRows
      <3>3. n \notin K BY <1>5, <1>7, <2>1, <3>2
      <3> QED BY <1>1, <3>2, <3>3
    <2>2. ASSUME NEW k, NEW n, Shown(q, Response(i), n), Shown(s, Response(i), k)
          PROVE  q[n].mid = s[k].mid
      <3>1. Shown(r, Response(i), n) /\ n \in DOMAIN r BY <1>1, <1>4, <2>2
      <3>2. r[n].mid = s[k].mid BY <2>2, <3>1 DEF Agree, SameRows
      <3> QED BY <1>2, <3>1, <3>2
    <2> QED BY <2>1, <2>2 DEF SameRows
  <1>11. ASSUME NEW k \in DOMAIN s, Mentioned(q, i), Tells(s[k], i), s[k].mid \in H PROVE FALSE
    <2>1. PICK n \in DOMAIN r : n \in K /\ r[n].mid = s[k].mid BY <1>11
    <2>2. PICK x \in {Request(i), Response(i)} : Shown(s, x, k) BY <1>11 DEF Tells, Shown, In
    <2>3. Shown(r, x, n) BY <1>7, <1>11, <2>1, <2>2 DEF Agree, SameRows
    <2> QED BY <1>5, <1>7, <1>11, <2>1, <2>3
  <1> QED BY <1>8, <1>9, <1>10, <1>11 DEF Agree

\* The turn ends: all it adds is stored, and joins the memory
LEMMA AgreeJoined ==
  ASSUME NEW r, NEW a \in Seq(Messages), NEW s \in Seq(Messages), NEW i, Agree(r, a, s, {}, i),
         NEW l \in Nat, Written(s, a, l, Len(a)), OnePair(a, i), Recorded(s), OwnRows(s), Distinct(a),
         Mids(a) \cap Mids(r) = {}, ~(Mentioned(r, i) /\ Mentioned(a, i)), NEW q, Chain(q, r, a)
  PROVE  Agree(q, <<>>, s, {}, i)
PROOF
  <1>1. PICK c \in Nat : c = Len(a) /\ DOMAIN a = 1 .. c OBVIOUS
  <1>2. DOMAIN s = 1 .. l + c
    <2>1. Len(s) = l + c BY <1>1 DEF Written
    <2> QED BY <2>1
  <1>3. \A j \in 1 .. c : l + j \in DOMAIN s /\ s[l + j] = a[j] BY <1>1, <1>2 DEF Written
  <1>4. \A k \in DOMAIN s : k \in 1 .. l \/ \E j \in 1 .. c : k = l + j
    <2> SUFFICES ASSUME NEW k \in 1 .. l + c, k \notin 1 .. l PROVE \E j \in 1 .. c : k = l + j BY <1>2
    <2>1. k - l \in 1 .. c /\ k = l + (k - l) OBVIOUS
    <2> QED BY <2>1
  <1>5. \A x, j : Shown(a, x, j) => Shown(s, x, l + j) /\ j \in 1 .. c BY <1>1, <1>3 DEF Shown, In
  <1>6. Mentioned(q, i) <=> Mentioned(r, i) \/ Mentioned(a, i) BY ChainShown
  <1>7. Mentioned(a, i) => Both(s, i)
    <2> SUFFICES ASSUME Mentioned(a, i) PROVE Both(s, i) OBVIOUS
    <2>1. PICK m, n : Shown(a, Request(i), m) /\ Shown(a, Response(i), n) BY DEF OnePair
    <2> QED BY <1>5, <2>1 DEF Both
  <1>8. Mentioned(q, i) => Both(s, i) BY <1>6, <1>7 DEF Agree
  <1>9. Together(s, i) => Mentioned(q, i) BY <1>6 DEF Agree
  <1>10. ASSUME NEW k, NEW x \in {Request(i), Response(i)}, Shown(s, x, k), Mentioned(a, i)
         PROVE  \E j \in 1 .. c : k = l + j /\ Shown(a, x, j)
    <2>1. k \in DOMAIN s /\ Tells(s[k], i) BY <1>10 DEF Shown, In, Tells
    <2>2. k \notin 1 .. l BY <1>10, <2>1 DEF Written, Unsaved
    <2>3. PICK j \in 1 .. c : k = l + j BY <1>4, <2>1, <2>2
    <2>4. Shown(a, x, j) BY <1>1, <1>3, <1>10, <2>3 DEF Shown, In
    <2> QED BY <2>3, <2>4
  <1>11. ASSUME NEW x, NEW k, NEW n, x \in {Request(i), Response(i)}, Mentioned(q, i),
                Shown(s, x, k), n \in DOMAIN q, q[n].mid = s[k].mid
         PROVE  Shown(q, x, n)
    <2>0. k \in DOMAIN s /\ Tells(s[k], i) BY <1>11 DEF Shown, In, Tells
    <2>1. CASE Mentioned(r, i)
      <3>1. ~Mentioned(a, i) BY <2>1
      <3>2. n \in DOMAIN r
        <4> SUFFICES ASSUME NEW j \in DOMAIN a, n = Len(r) + j PROVE FALSE BY <1>11 DEF Chain
        <4>1. q[n] = a[j] BY DEF Chain
        <4>2. l + j \in DOMAIN s /\ s[l + j] = a[j] BY <1>1, <1>3
        <4>3. l + j = k BY <1>11, <2>0, <4>1, <4>2 DEF OwnRows
        <4>4. Tells(a[j], i) BY <2>0, <4>2, <4>3
        <4> QED BY <3>1, <4>4 DEF Mentioned
      <3>3. q[n] = r[n] BY <3>2 DEF Chain
      <3>4. Shown(r, x, n) BY <1>11, <2>1, <3>2, <3>3 DEF Agree, SameRows
      <3> QED BY <3>4, ChainShown
    <2>2. CASE Mentioned(a, i)
      <3>1. PICK j \in 1 .. c : k = l + j /\ Shown(a, x, j) BY <1>10, <1>11, <2>2
      <3>2. s[k] = a[j] BY <1>3, <3>1
      <3>3. n \notin DOMAIN r
        <4> SUFFICES ASSUME n \in DOMAIN r PROVE FALSE OBVIOUS
        <4>1. r[n].mid = a[j].mid BY <1>11, <3>2 DEF Chain
        <4>2. r[n].mid \in Mids(r) /\ a[j].mid \in Mids(a) BY <1>1 DEF Mids
        <4> QED BY <4>1, <4>2
      <3>4. PICK b \in DOMAIN a : n = Len(r) + b BY <1>11, <3>3 DEF Chain
      <3>5. q[n] = a[b] BY <3>4 DEF Chain
      <3>6. b = j BY <1>1, <1>11, <3>2, <3>5 DEF Distinct
      <3> QED BY <3>1, <3>4, <3>6, ChainShown
    <2> QED BY <1>6, <1>11, <2>1, <2>2
  <1>12. ASSUME NEW k, NEW n, Shown(q, Response(i), n), Shown(s, Response(i), k)
         PROVE  q[n].mid = s[k].mid
    <2>1. CASE Shown(r, Response(i), n)
      <3>1. r[n].mid = s[k].mid BY <1>12, <2>1 DEF Agree, SameRows
      <3>2. q[n] = r[n] BY <2>1 DEF Chain, Shown, In
      <3> QED BY <3>1, <3>2
    <2>2. CASE ~Shown(r, Response(i), n)
      <3>1. PICK j \in DOMAIN a : n = Len(r) + j /\ Shown(a, Response(i), j) BY <1>12, <2>2, ChainShown
      <3>2. q[n] = a[j] /\ s[l + j] = a[j] BY <1>1, <1>3, <3>1 DEF Chain
      <3>3. Mentioned(a, i) BY <3>1, MentionedShown
      <3>4. PICK m : Shown(s, Request(i), m) BY <1>7, <3>3 DEF Both
      <3>5. Shown(s, Response(i), l + j) BY <1>5, <3>1
      <3>6. k = l + j BY <1>12, <3>4, <3>5 DEF Recorded
      <3> QED BY <3>2, <3>6
    <2> QED BY <2>1, <2>2
  <1>13. SameRows(q, s, i) BY <1>11, <1>12 DEF SameRows
  <1> QED BY <1>8, <1>9, <1>13 DEF Agree

LEMMA OwnDistinct == ASSUME NEW t, Distinct(t) PROVE OwnRows(t)
PROOF BY DEF OwnRows, Distinct

LEMMA OwnSilent == ASSUME NEW t, \A i : ~Mentioned(t, i) PROVE OwnRows(t)
PROOF BY DEF OwnRows, Mentioned

LEMMA OwnDimmed == ASSUME NEW r, NEW s, NEW K, Dimmed(r, s, K), OwnRows(s) PROVE OwnRows(r)
PROOF
  <1>1. DOMAIN r = DOMAIN s /\ \A n \in DOMAIN s : r[n].mid = s[n].mid BY DEF Dimmed
  <1>2. \A i : \A n \in DOMAIN s : Tells(r[n], i) => Tells(s[n], i) BY DEF Dimmed, Tells
  <1> QED BY <1>1, <1>2 DEF OwnRows

LEMMA OwnChain ==
  ASSUME NEW u, NEW s, NEW t, Chain(u, s, t), OwnRows(s), OwnRows(t), Mids(s) \cap Mids(t) = {}
  PROVE  OwnRows(u)
PROOF
  <1> SUFFICES ASSUME NEW i, NEW k \in DOMAIN u, NEW l \in DOMAIN u, Tells(u[k], i), u[l].mid = u[k].mid
               PROVE  l = k
    BY DEF OwnRows
  <1>1. \A n \in DOMAIN s : \A j \in DOMAIN t : s[n].mid # t[j].mid BY DEF Mids
  <1>2. CASE k \in DOMAIN s /\ l \in DOMAIN s BY <1>2 DEF Chain, OwnRows
  <1>3. CASE k \in DOMAIN s /\ l \notin DOMAIN s BY <1>1, <1>3 DEF Chain
  <1>4. CASE k \notin DOMAIN s /\ l \in DOMAIN s BY <1>1, <1>4 DEF Chain
  <1>5. CASE k \notin DOMAIN s /\ l \notin DOMAIN s
    <2>1. PICK a \in DOMAIN t : k = Len(s) + a /\ u[k] = t[a] BY <1>5 DEF Chain
    <2>2. PICK b \in DOMAIN t : l = Len(s) + b /\ u[l] = t[b] BY <1>5 DEF Chain
    <2>3. a = b BY <2>1, <2>2 DEF OwnRows
    <2> QED BY <2>1, <2>2, <2>3
  <1> QED BY <1>2, <1>3, <1>4, <1>5

\* Where the memory is what the model is sent
Sending == pc \notin {"idle", "compact"} /\ ~(pc = "top" /\ cancelled)

Agreeing ==
  /\ OwnRows(stored)
  /\ Sending => \A i \in Nat : Agree(memory, adding, stored, HideIds, i)

\* Steps that leave the conversations as they are, or end the reply
LEMMA QuietAgreeing ==
  ASSUME Agreeing, stored' = stored,
         ~Sending' \/ (UNCHANGED <<memory, adding, toHide>> /\ Sending)
  PROVE  Agreeing'
PROOF
  <1>1. OwnRows(stored') BY DEF Agreeing
  <1>2. CASE ~Sending' BY <1>1, <1>2 DEF Agreeing
  <1>3. CASE UNCHANGED <<memory, adding, toHide>> /\ Sending
    <2>1. HideIds' = HideIds BY <1>3 DEF HideIds
    <2>2. \A i \in Nat : Agree(memory, adding, stored, HideIds, i) BY <1>3 DEF Agreeing
    <2>3. \A i \in Nat : Agree(memory', adding', stored', HideIds', i) BY <1>3, <2>1, <2>2
    <2> QED BY <1>1, <2>3 DEF Agreeing
  <1> QED BY <1>2, <1>3

\* Messages more among those of the turn
LEMMA PushAgreeing ==
  ASSUME Talks, Agreeing, Sending, NEW t \in Seq(Messages), adding' = adding \o t,
         UNCHANGED <<memory, stored, toHide>>
  PROVE  Agreeing'
PROOF
  <1>1. PICK u \in Seq(Messages) : Chain(u, adding, t) BY Chained DEF Talks
  <1>2. adding' = u BY <1>1 DEF Chain
  <1>3. \A i : Mentioned(adding, i) => Mentioned(u, i) BY <1>1, ChainShown
  <1>4. HideIds' = HideIds BY DEF HideIds
  <1>5. ASSUME NEW i \in Nat PROVE Agree(memory, u, stored, HideIds, i)
    <2>1. Agree(memory, adding, stored, HideIds, i) BY DEF Agreeing
    <2> QED BY <1>3, <2>1, AgreeAdds
  <1>6. \A i \in Nat : Agree(memory', adding', stored', HideIds', i) BY <1>2, <1>4, <1>5
  <1>7. OwnRows(stored') BY DEF Agreeing
  <1> QED BY <1>6, <1>7 DEF Agreeing

LEMMA TextAgreeing ==
  ASSUME LoopType, Agreeing, Sending, NEW role \in {"user", "assistant"}, Add(role, clock),
         UNCHANGED <<memory, stored, toHide>>
  PROVE  Agreeing'
PROOF
  <1>1. clock \in 1 .. MaxClock BY DEF LoopType, Rest
  <1>2. PICK t \in Seq(Messages) : t = Numbered(<<New(role, <<Text("text")>>, clock)>>)
    BY <1>1, TextRow
  <1>3. adding' = adding \o t BY <1>2 DEF Add
  <1> QED BY <1>3, PushAgreeing DEF LoopType

\* The store grows by a message that tells of no call
LEMMA StoredAgreeing ==
  ASSUME Talks, Agreeing, NEW t \in Seq(Messages), stored' = stored \o t, NewIds(t),
         \A n \in DOMAIN t : Plain(t[n])
  PROVE  /\ OwnRows(stored')
         /\ Sending /\ UNCHANGED <<memory, adding, toHide>> => Agreeing'
PROOF
  <1>1. PICK u \in Seq(Messages) : Chain(u, stored, t) BY Chained DEF Talks
  <1>2. stored' = u BY <1>1 DEF Chain
  <1>3. \A i : ~Mentioned(t, i) BY PlainRows
  <1>4. OwnRows(u)
    <2>1. Mids(stored) \cap Mids(t) = {} BY DEF NewIds, Mids
    <2>2. OwnRows(t) BY <1>3, OwnSilent
    <2> QED BY <1>1, <2>1, <2>2, OwnChain DEF Agreeing
  <1>5. ASSUME Sending, UNCHANGED <<memory, adding, toHide>> PROVE Agreeing'
    <2>1. HideIds' = HideIds BY <1>5 DEF HideIds
    <2>2. ASSUME NEW i \in Nat PROVE Agree(memory, adding, u, HideIds, i)
      <3>1. Agree(memory, adding, stored, HideIds, i) BY <1>5 DEF Agreeing
      <3> QED BY <1>1, <1>3, <3>1, AgreeGrows
    <2>3. \A i \in Nat : Agree(memory', adding', stored', HideIds', i) BY <1>2, <1>5, <2>1, <2>2
    <2> QED BY <1>2, <1>4, <2>3 DEF Agreeing
  <1> QED BY <1>2, <1>4, <1>5

LEMMA AskAgreeing ==
  ASSUME LoopType, Agreeing, Elicit \/ Answer PROVE Agreeing'
PROOF
  <1>1. PICK t \in Seq(Messages) :
          stored' = stored \o t /\ NewIds(t) /\ \A n \in DOMAIN t : Plain(t[n])
    BY AskRow
  <1>2. UNCHANGED <<memory, adding, toHide>> /\ (Sending' <=> Sending)
    BY DEF Elicit, Answer, Sending, summary, count
  <1>3. OwnRows(stored') /\ (Sending => Agreeing') BY <1>1, <1>2, StoredAgreeing DEF LoopType
  <1> QED BY <1>2, <1>3 DEF Agreeing

LEMMA StartReplyAgreeing ==
  ASSUME LoopType, LoopType', Shape', Kinship', Agreeing, StartReply PROVE Agreeing'
PROOF
  <1>1. PICK t \in Seq(Messages) :
          stored' = stored \o t /\ NewIds(t) /\ \A n \in DOMAIN t : Plain(t[n])
    BY PromptRow
  <1>2. OwnRows(stored') BY <1>1, StoredAgreeing DEF LoopType
  <1>3. PICK s \in Seq(Messages) : s = stored' BY DEF LoopType, Talks
  <1>4. pc' # "idle" BY DEF StartReply
  <1>5. Recorded(s) /\ \E w : First(s, w) BY <1>3, <1>4 DEF Kinship, Ordered
  <1>6. PICK w : First(s, w) BY <1>5
  <1>7. ASSUME Sending' PROVE \A i \in Nat : Agree(memory', adding', stored', HideIds', i)
    <2>1. pc' = "top" BY <1>7 DEF Sending, StartReply
    <2>2. memory' = Fixed(Reload(s)) BY <1>3, <2>1 DEF StartReply
    <2>3. HideIds' = {} BY <2>1 DEF Shape, HideIds
    <2>4. PICK a : a = adding' OBVIOUS
    <2>5. \A i \in Nat : Agree(Fixed(Reload(s)), a, s, {}, i) BY <1>2, <1>3, <1>5, <1>6, ReloadAgree
    <2> QED BY <1>3, <2>2, <2>3, <2>4, <2>5
  <1> QED BY <1>2, <1>7 DEF Agreeing

LEMMA ReplaceAgreeing ==
  ASSUME LoopType, Agreeing, AutoCompact \/ (Overflow /\ Replace /\ memory' = stored')
  PROVE  Agreeing'
PROOF
  <1>1. clock \in 1 .. MaxClock BY DEF LoopType, Rest
  <1>2. PICK r \in Seq(Messages) : Compacts(r, memory) BY <1>1, Compacting DEF LoopType, Talks
  <1>3. stored' = r BY <1>2 DEF AutoCompact, Replace, Compacts
  <1>4. /\ (\A i : ~Mentioned(r, i)) /\ OneCallSeen(r)
        /\ \E w : First(r, w) /\ \A n \in DOMAIN r : r[n].visible => w <= n
    BY <1>1, <1>2, CompactedCalls DEF LoopType
  <1>5. Sendable(Visible(r)) BY <1>4, CompactedSendable DEF First
  <1>6. \A i : Mentioned(Fixed(r), i) => Mentioned(r, i) BY <1>5, FixedCalls
  <1>7. memory' = Fixed(r) \/ memory' = r BY <1>3 DEF AutoCompact
  <1>8. PICK m, a, H : m = memory' /\ a = adding' /\ H = HideIds' OBVIOUS
  <1>9. \A i : ~Mentioned(m, i) BY <1>4, <1>6, <1>7, <1>8
  <1>10. \A i \in Nat : Agree(m, a, r, H, i) BY <1>4, <1>9, SilentAgree
  <1>11. OwnRows(r) BY <1>4, OwnSilent
  <1> QED BY <1>3, <1>8, <1>10, <1>11 DEF Agreeing

LEMMA OverflowAgreeing ==
  ASSUME LoopType, Agreeing, Overflow PROVE Agreeing'
PROOF
  <1>1. CASE Replace /\ memory' = stored' BY <1>1, ReplaceAgreeing
  <1>2. CASE UNCHANGED <<memory, stored>>
    <2>1. UNCHANGED <<memory, stored, adding, toHide>> /\ Sending
      BY <1>2 DEF Overflow, Item, summary, Sending
    <2> QED BY <2>1, QuietAgreeing
  <1> QED BY <1>1, <1>2 DEF Overflow

LEMMA SummarizeAgreeing ==
  ASSUME LoopType, Shape, Kinship, Agreeing, Summarize PROVE Agreeing'
PROOF
  <1> DEFINE K == {n \in DOMAIN memory : Mentions(memory[n], task)}
  <1>0. memory \in Seq(Messages) /\ task \in Nat BY DEF LoopType, Talks, Rest
  <1>1. PICK t \in Seq(Messages) : adding' = adding \o t
    <2>1. PICK p \in Seq(Messages) : p = Matching BY MatchingType
    <2>2. Len(p) = 2 /\ Add("user", Last(p).created) BY <2>1 DEF Summarize
    <2>3. p # <<>> BY <2>2
    <2>4. Last(p) \in Messages BY <2>3, LastType
    <2>5. PICK created \in 1 .. MaxClock : created = Last(p).created BY <2>4 DEF Messages
    <2>6. PICK t \in Seq(Messages) : t = Numbered(<<New("user", <<Text("text")>>, created)>>)
      BY TextRow
    <2>7. adding' = adding \o t BY <2>2, <2>5, <2>6 DEF Add
    <2> QED BY <2>7
  <1>2. PICK u \in Seq(Messages) : Chain(u, adding, t) BY Chained DEF LoopType, Talks
  <1>3. adding' = u BY <1>1, <1>2 DEF Chain
  <1>4. \A i : Mentioned(adding, i) => Mentioned(u, i) BY <1>2, ChainShown
  <1>5. PICK r \in Seq(Messages) :
          r = [n \in DOMAIN memory |-> IF n \in K THEN Hidden(memory[n]) ELSE memory[n]] /\ Dimmed(r, memory, K)
    <2> HIDE DEF K
    <2> QED BY <1>0, Dimming
  <1>6. memory' = r
    <2>1. memory' = [n \in DOMAIN memory |->
                       IF Mentions(memory[n], task) THEN Hidden(memory[n]) ELSE memory[n]]
      BY DEF Summarize, MapSeq
    <2> QED BY <1>5, <2>1
  <1>7. Sending /\ stored' = stored /\ toHide = <<>> BY DEF Summarize, Sending, Shape
  <1>8. HideIds = {} BY <1>7 DEF HideIds
  <1>9. OneCallSeen(memory) /\ OnePair(memory, task)
    BY <1>0, <1>7 DEF Kinship, Sends, Sending
  <1>10. \A n \in DOMAIN memory : n \in K <=> Mentions(memory[n], task) OBVIOUS
  <1>11. PICK p \in Seq(Messages) : p = Matching BY MatchingType
  <1>12. p = Picked(memory, K) BY <1>11 DEF Matching, Keep
  <1> HIDE DEF K
  <1>13. \A h : h \in HideIds' <=> \E n \in DOMAIN memory : n \in K /\ memory[n].mid = h
    <2>1. DOMAIN p = 1 .. Len(p) OBVIOUS
    <2>2. toHide' = MapSeq(LAMBDA msg : msg.mid, p) BY <1>11 DEF Summarize
    <2>3. DOMAIN toHide' = DOMAIN p /\ \A k \in DOMAIN p : toHide'[k] = p[k].mid BY <2>2 DEF MapSeq
    <2>4. \A h : h \in HideIds' <=> \E k \in DOMAIN p : p[k].mid = h BY <2>3 DEF HideIds
    <2>5. \A x : Has(p, x) <=> \E n \in DOMAIN memory : n \in K /\ memory[n] = x
      BY <1>0, <1>12, PickedHas
    <2> QED BY <2>4, <2>5 DEF Has
  <1>14. ASSUME NEW i \in Nat PROVE Agree(r, u, stored, HideIds', i)
    <2>1. Agree(memory, adding, stored, {}, i) BY <1>7, <1>8 DEF Agreeing
    <2>2. PICK H : H = HideIds' OBVIOUS
    <2>3. Agree(r, adding, stored, H, i)
      <3>1. \A h : h \in H <=> \E n \in DOMAIN memory : n \in K /\ memory[n].mid = h BY <1>13, <2>2
      <3>2. Summarized(r, memory, task, K, H) BY <1>5, <1>9, <1>10, <3>1 DEF Summarized
      <3> QED BY <2>1, <3>2, AgreeSummarized
    <2>4. Agree(r, u, stored, H, i) BY <1>4, <2>3, AgreeAdds
    <2> QED BY <2>2, <2>4
  <1>15. \A i \in Nat : Agree(memory', adding', stored', HideIds', i) BY <1>3, <1>6, <1>7, <1>14
  <1>16. OwnRows(stored') BY <1>7 DEF Agreeing
  <1> QED BY <1>15, <1>16 DEF Agreeing

LEMMA HideStoredAgreeing ==
  ASSUME LoopType, Kinship, Agreeing, HideStored PROVE Agreeing'
PROOF
  <1> DEFINE K == {n \in DOMAIN stored : stored[n].mid = Head(toHide)}
  <1>0. stored \in Seq(Messages) BY DEF LoopType, Talks
  <1>1. PICK r \in Seq(Messages) :
          r = [n \in DOMAIN stored |-> IF n \in K THEN Hidden(stored[n]) ELSE stored[n]] /\ Dimmed(r, stored, K)
    <2> HIDE DEF K
    <2> QED BY <1>0, Dimming
  <1>2. stored' = r
    <2>1. stored' = [n \in DOMAIN stored |->
                       IF stored[n].mid = Head(toHide) THEN Hidden(stored[n]) ELSE stored[n]]
      BY DEF HideStored, MapSeq
    <2> QED BY <1>1, <2>1
  <1>3. PICK h : h = Head(toHide) OBVIOUS
  <1>4. \A n \in DOMAIN stored : n \in K <=> stored[n].mid = h BY <1>3
  <1> HIDE DEF K
  <1>5. HideIds = HideIds' \cup {h}
    <2>1. toHide \in Seq(Nat) /\ toHide # <<>> /\ toHide' = Tail(toHide) BY DEF HideStored, LoopType
    <2>2. PICK l \in Nat : l = Len(toHide) BY <2>1
    <2>3. DOMAIN toHide = 1 .. l /\ 1 \in DOMAIN toHide BY <2>1, <2>2
    <2>4. DOMAIN toHide' = 1 .. l - 1 /\ \A k \in DOMAIN toHide' : toHide'[k] = toHide[k + 1]
      BY <2>1, <2>2
    <2>5. \A k \in 1 .. l - 1 : k + 1 \in 1 .. l BY <2>2
    <2>6. \A k \in 1 .. l : k = 1 \/ (k - 1 \in 1 .. l - 1 /\ (k - 1) + 1 = k) BY <2>2
    <2>7. h = toHide[1] BY <1>3, <2>1
    <2>8. \A x : x \in HideIds' => x \in HideIds BY <2>3, <2>4, <2>5 DEF HideIds
    <2>9. \A x : x \in HideIds => x = h \/ x \in HideIds'
      <3> SUFFICES ASSUME NEW k \in DOMAIN toHide, k # 1 PROVE toHide[k] \in HideIds'
        BY <2>7 DEF HideIds
      <3>1. PICK j : j = k - 1 OBVIOUS
      <3>2. j \in DOMAIN toHide' /\ j + 1 = k BY <2>3, <2>4, <2>6, <3>1
      <3>3. toHide'[j] = toHide[k] BY <2>4, <3>2
      <3> QED BY <3>2, <3>3 DEF HideIds
    <2>10. h \in HideIds BY <2>3, <2>7 DEF HideIds
    <2> QED BY <2>8, <2>9, <2>10
  <1>6. UNCHANGED <<memory, adding>> /\ Sending BY DEF HideStored, Sending
  <1>7. PICK H, G : H = HideIds /\ G = HideIds' OBVIOUS
  <1>8. H = G \cup {h} /\ h \in H BY <1>5, <1>7
  <1>9. ASSUME NEW i \in Nat PROVE Agree(memory, adding, r, G, i)
    <2>1. Agree(memory, adding, stored, H, i) BY <1>6, <1>7 DEF Agreeing
    <2>2. Recorded(stored) BY DEF Kinship, Ordered
    <2> QED BY <1>1, <1>4, <1>8, <2>1, <2>2, AgreeHides
  <1>10. \A i \in Nat : Agree(memory', adding', stored', HideIds', i) BY <1>2, <1>6, <1>7, <1>9
  <1>11. OwnRows(r) BY <1>1, OwnDimmed DEF Agreeing
  <1> QED BY <1>2, <1>10, <1>11 DEF Agreeing

LEMMA SaveMessageAgreeing ==
  ASSUME LoopType, Kinship, Agreeing, SaveMessage PROVE Agreeing'
PROOF
  <1>0. stored \in Seq(Messages) /\ adding \in Seq(Messages) BY DEF LoopType, Talks
  <1>1. PICK c \in Nat : /\ Saved = 1 .. c /\ c + 1 \in DOMAIN adding
                         /\ stored' = Append(stored, adding[c + 1])
    BY NextSaved DEF LoopType, Kinship
  <1>2. PICK m \in Messages : m = adding[c + 1] BY <1>0, <1>1
  <1>3. PICK t \in Seq(Messages) : t = <<m>> /\ DOMAIN t = {1} /\ t[1] = m
    <2>1. <<m>> \in Seq(Messages) /\ DOMAIN <<m>> = {1} /\ <<m>>[1] = m OBVIOUS
    <2> QED BY <2>1
  <1>4. PICK r \in Seq(Messages) : Chain(r, stored, t) BY <1>0, Chained
  <1>5. stored' = r
    <2>1. Append(stored, m) = stored \o <<m>> BY <1>0
    <2> QED BY <1>1, <1>2, <1>3, <1>4, <2>1 DEF Chain
  <1>6. UNCHANGED <<memory, adding, toHide>> /\ Sending BY DEF SaveMessage, summary, Sending
  <1>7. HideIds' = HideIds BY <1>6 DEF HideIds
  <1>8. \A i : Mentioned(t, i) => Mentioned(adding, i)
    <2> SUFFICES ASSUME NEW i, Mentioned(t, i) PROVE Mentioned(adding, i) OBVIOUS
    <2>1. Tells(m, i) BY <1>3 DEF Mentioned
    <2> QED BY <1>1, <1>2, <2>1 DEF Mentioned
  <1>9. \A i : ~(Mentioned(memory, i) /\ Mentioned(adding, i)) BY DEF Kinship, Adds
  <1>10. ASSUME NEW i \in Nat PROVE Agree(memory, adding, r, HideIds, i)
    <2>1. Agree(memory, adding, stored, HideIds, i) BY <1>6 DEF Agreeing
    <2>2. Mentioned(t, i) => Mentioned(adding, i) /\ ~Mentioned(memory, i) BY <1>8, <1>9
    <2> QED BY <1>4, <2>1, <2>2, AgreeGrows
  <1>11. \A i \in Nat : Agree(memory', adding', stored', HideIds', i) BY <1>5, <1>6, <1>7, <1>10
  <1>12. OwnRows(r)
    <2>1. c + 1 \notin Saved BY <1>1
    <2>2. m.mid \notin Mids(stored) BY <1>1, <1>2, <2>1 DEF Saved
    <2>3. Mids(stored) \cap Mids(t) = {} BY <1>3, <2>2 DEF Mids
    <2>4. OwnRows(t) BY <1>3 DEF OwnRows
    <2> QED BY <1>4, <2>3, <2>4, OwnChain DEF Agreeing
  <1> QED BY <1>5, <1>11, <1>12 DEF Agreeing

LEMMA TurnEndsAgreeing ==
  ASSUME LoopType, Kinship, Agreeing, TurnEnds PROVE Agreeing'
PROOF
  <1>1. stored' = stored BY DEF TurnEnds
  <1>2. CASE exit /\ Gone
    <2>1. ~Sending' BY <1>2 DEF Gone, Sending
    <2> QED BY <1>1, <2>1, QuietAgreeing
  <1>3. CASE ~exit /\ pc' = "top" /\ memory' = memory \o adding /\ adding' = <<>>
             /\ UNCHANGED <<summary, cancelled>>
    <2>1. adding \in Seq(Messages) /\ stored \in Seq(Messages) /\ memory \in Seq(Messages)
      BY DEF LoopType, Talks
    <2>2. PICK q \in Seq(Messages) : Chain(q, memory, adding) BY <2>1, Chained
    <2>3. memory' = q BY <1>3, <2>2 DEF Chain
    <2>4. pc = "save" /\ toHide = <<>> /\ toHide' = <<>> BY <1>3 DEF TurnEnds, summary
    <2>5. HideIds = {} /\ HideIds' = {} BY <2>4 DEF HideIds
    <2>6. PICK l \in Nat : Written(stored, adding, l, Len(adding))
      <3>1. PICK l \in Nat, c \in Nat : Written(stored, adding, l, c) BY DEF Kinship, Saving
      <3>2. 1 .. c = DOMAIN adding BY <3>1, SavedCount DEF LoopType, Kinship, Adds, TurnEnds
      <3>3. c = Len(adding)
        <4>1. PICK n \in Nat : n = Len(adding) /\ DOMAIN adding = 1 .. n BY <2>1
        <4>2. 1 .. c = 1 .. n BY <3>2, <4>1
        <4>3. c = n
          <5>1. c > n => c \in 1 .. c /\ c \notin 1 .. n OBVIOUS
          <5>2. n > c => n \in 1 .. n /\ n \notin 1 .. c OBVIOUS
          <5> QED BY <4>2, <5>1, <5>2
        <4> QED BY <4>1, <4>3
      <3> QED BY <3>1, <3>3
    <2>7. ASSUME Sending', NEW i \in Nat PROVE Agree(q, <<>>, stored, {}, i)
      <3>1. Sending /\ ~cancelled BY <1>3, <2>4, <2>7 DEF Sending
      <3>2. Agree(memory, adding, stored, {}, i) BY <2>5, <3>1 DEF Agreeing
      <3>3. /\ OnePair(adding, i) /\ Distinct(adding) /\ Mids(adding) \cap Mids(memory) = {}
            /\ ~(Mentioned(memory, i) /\ Mentioned(adding, i))
        BY <3>1 DEF Kinship, Adds
      <3>4. Recorded(stored) /\ OwnRows(stored) BY DEF Kinship, Ordered, Agreeing
      <3> QED BY <2>1, <2>2, <2>6, <3>2, <3>3, <3>4, AgreeJoined
    <2>8. Sending' => \A i \in Nat : Agree(memory', adding', stored', HideIds', i)
      BY <1>1, <1>3, <2>3, <2>5, <2>7
    <2> QED BY <1>1, <2>8 DEF Agreeing
  <1> QED BY <1>2, <1>3 DEF TurnEnds

LEMMA AfterStreamAgreeing ==
  ASSUME LoopType, Agreeing, AfterStream PROVE Agreeing'
PROOF
  <1>1. UNCHANGED <<memory, stored, toHide>> /\ Sending BY DEF AfterStream, summary, Sending
  <1>2. CASE Add("user", clock) \/ Add("assistant", clock) BY <1>1, <1>2, TextAgreeing
  <1>3. CASE adding' = adding BY <1>1, <1>3, QuietAgreeing
  <1> QED BY <1>2, <1>3 DEF AfterStream

LEMMA AgreeingNext ==
  ASSUME LoopType, Shape, Kinship, Agreeing, [Next]_vars PROVE Agreeing'
PROOF
  <1>1. LoopType' /\ Shape' /\ Kinship' BY LoopNext, ShapeNext, KinNext
  <1>2. CASE UNCHANGED vars
    <2>1. UNCHANGED <<pc, cancelled, memory, stored, adding, toHide>> BY <1>2 DEF vars, summary
    <2>2. Sending' => Sending BY <2>1 DEF Sending
    <2> QED BY <2>1, <2>2, QuietAgreeing
  <1>3. CASE StartReply BY <1>1, <1>3, StartReplyAgreeing
  <1>4. CASE Elicit \/ Answer BY <1>4, AskAgreeing
  <1>5. CASE Drop \/ AutoCompactFails \/ Leave
    <2>1. stored' = stored /\ ~Sending' BY <1>5 DEF Drop, AutoCompactFails, Leave, Gone, Sending
    <2> QED BY <2>1, QuietAgreeing
  <1>6. CASE CallTools \/ OverflowAgain \/ StreamEnds \/ ChecksPass \/ ChecksFail \/ NoSummary
    <2>1. UNCHANGED <<memory, stored, adding, toHide>> /\ Sending
      BY <1>6 DEF CallTools, OverflowAgain, StreamEnds, ChecksPass, ChecksFail, NoSummary, Item,
                  summary, Sending
    <2> QED BY <2>1, QuietAgreeing
  <1>7. CASE StartTurn
    <2>1. /\ UNCHANGED <<memory, stored, toHide>> /\ Sending
          /\ adding' = <<>> /\ adding = <<>>
      BY <1>7 DEF StartTurn, Stops, Sending, Shape
    <2> QED BY <2>1, QuietAgreeing
  <1>8. CASE Cancel \/ Tick
    <2>1. /\ UNCHANGED <<memory, stored, adding, toHide>> /\ pc' = pc
          /\ cancelled => cancelled'
      BY <1>8 DEF Cancel, Tick, summary
    <2>2. Sending' => Sending BY <2>1 DEF Sending
    <2> QED BY <2>1, <2>2, QuietAgreeing
  <1>9. CASE AutoCompact BY <1>9, ReplaceAgreeing
  <1>10. CASE Overflow BY <1>10, OverflowAgreeing
  <1>11. CASE SayText
    <2>1. UNCHANGED <<memory, stored, toHide>> /\ Sending /\ Add("assistant", clock)
      BY <1>11 DEF SayText, Item, summary, Sending
    <2> QED BY <2>1, TextAgreeing
  <1>12. CASE ToolsDone
    <2>1. PICK t \in Seq(Messages) : adding' = adding \o t BY <1>12, ToolsDoneRows
    <2>2. UNCHANGED <<memory, stored, toHide>> /\ Sending BY <1>12 DEF ToolsDone, summary, Sending
    <2> QED BY <2>1, <2>2, PushAgreeing DEF LoopType
  <1>13. CASE AfterStream BY <1>13, AfterStreamAgreeing
  <1>14. CASE Summarize BY <1>14, SummarizeAgreeing
  <1>15. CASE HideStored BY <1>15, HideStoredAgreeing
  <1>16. CASE SaveMessage BY <1>16, SaveMessageAgreeing
  <1>17. CASE TurnEnds BY <1>17, TurnEndsAgreeing
  <1> QED BY <1>2, <1>3, <1>4, <1>5, <1>6, <1>7, <1>8, <1>9, <1>10, <1>11, <1>12, <1>13, <1>14,
             <1>15, <1>16, <1>17 DEF Next, Step

\* What the model is sent of a conversation with whole calls is the calls it tells of
LEMMA SentTells ==
  ASSUME NEW s \in Seq(Messages), NEW i, OnePair(s, i)
  PROVE  Places(Visible(s), Request(i)) # {} <=> Mentioned(s, i)
PROOF
  <1>1. PICK v \in Seq(Messages) : v = Visible(s) BY VisibleType
  <1>2. \A n \in DOMAIN s : s[n].visible => \E k \in DOMAIN v : v[k] = s[n] BY <1>1, VisiblePlaces
  <1>3. \A k \in DOMAIN v : \E n \in DOMAIN s : s[n].visible /\ v[k] = s[n] BY <1>1, VisiblePlaces
  <1>4. \A m : Request(i) \in Range(m.items) <=> Has(m.items, Request(i)) BY DEF Range, Has
  <1>5. Places(v, Request(i)) # {} <=> \E k \in DOMAIN v : Has(v[k].items, Request(i))
    BY <1>4 DEF Places
  <1>6. (\E k \in DOMAIN v : Has(v[k].items, Request(i))) <=> \E n : Shown(s, Request(i), n)
    BY <1>2, <1>3 DEF Shown, In
  <1>7. Mentioned(s, i) <=> \E n : Shown(s, Request(i), n)
    <2>1. CASE ~Mentioned(s, i) BY <2>1, MentionedShown
    <2>2. CASE Mentioned(s, i) BY <2>2 DEF OnePair
    <2> QED BY <2>1, <2>2
  <1> QED BY <1>1, <1>5, <1>6, <1>7

\* Between two turns, and while all messages are of one second, a reload of the
\* session would show the model the very calls it is being shown: a reply that is
\* dropped there can be taken up where it was
THEOREM ReloadsAgree == Spec => []ReloadAgreesInASecond
PROOF
  <1> DEFINE Inv == LoopType /\ Shape /\ Kinship /\ Agreeing
  <1>1. Init => Inv
    <2> SUFFICES ASSUME Init PROVE Inv OBVIOUS
    <2>1. LoopType /\ Shape /\ Kinship BY LoopInit, KinInit
    <2>2. stored = <<>> /\ pc = "idle" BY DEF Init
    <2>3. OwnRows(stored) BY <2>2, Nothing, OwnSilent
    <2>4. ~Sending BY <2>2 DEF Sending
    <2> QED BY <2>1, <2>3, <2>4 DEF Agreeing
  <1>2. Inv /\ [Next]_vars => Inv' BY LoopNext, ShapeNext, KinNext, AgreeingNext
  <1>3. Inv => ReloadAgreesInASecond
    <2> SUFFICES ASSUME Inv, \A n \in DOMAIN stored : stored[n].created = clock,
                        pc = "top", ~cancelled
                 PROVE  SentCalls(Fixed(Reload(stored))) = SentCalls(memory)
      BY DEF ReloadAgreesInASecond, ReloadAgrees
    <2>1. memory \in Seq(Messages) /\ stored \in Seq(Messages) /\ calls \in Nat
      BY DEF LoopType, Talks, Rest, Counted
    <2>2. Sending BY DEF Sending
    <2>3. adding = <<>> /\ HideIds = {} BY DEF Shape, HideIds
    <2>4. Recorded(stored) /\ OwnRows(stored) BY DEF Kinship, Ordered, Agreeing
    <2>5. PICK w : First(stored, w) BY DEF Kinship, Ordered
    <2>6. PICK l \in Seq(Messages) : l = Reload(stored) BY <2>1, Reloaded
    <2>7. Sendable(Visible(l)) BY <2>1, <2>4, <2>5, <2>6, ReloadSendable
    <2>8. PICK r \in Seq(Messages) : r = Fixed(l) /\ \A i \in Nat : OnePair(r, i) BY <2>7, FixedCalls
    <2>9. ASSUME NEW i \in 1 .. calls
          PROVE  Places(Visible(r), Request(i)) # {} <=> Places(Visible(memory), Request(i)) # {}
      <3>1. i \in Nat BY <2>1
      <3>2. Agree(memory, adding, stored, {}, i) BY <2>2, <2>3, <3>1 DEF Agreeing
      <3>3. Both(stored, i) <=> Together(stored, i) BY DEF Both, Together, Shown, In
      <3>4. ~Mentioned(adding, i) BY <2>3, Nothing
      <3>5. Mentioned(memory, i) <=> Together(stored, i) BY <3>2, <3>3, <3>4 DEF Agree
      <3>6. Mentioned(r, i) <=> Together(stored, i)
        BY <2>1, <2>4, <2>5, <2>6, <2>8, <3>1, ReloadReads
      <3>7. OnePair(memory, i) BY <2>2, <3>1 DEF Kinship, Sends, Sending
      <3>8. OnePair(r, i) BY <2>8, <3>1
      <3> QED BY <2>1, <3>5, <3>6, <3>7, <3>8, SentTells
    <2>10. SentCalls(r) = SentCalls(memory) BY <2>9 DEF SentCalls
    <2> QED BY <2>6, <2>8, <2>10
  <1> QED BY <1>1, <1>2, <1>3, PTL DEF Spec
=============================================================================
