------------------------ MODULE ToolApproval_proofs ------------------------
(***************************************************************************)
(* For any replies, calls, tools, modes and stored permissions, a tool     *)
(* runs only if the inspectors approved its call or the user allowed it,   *)
(* and a recorded call has one response.                                   *)
(*                                                                         *)
(* The first invariant follows an allowance from the user to the tool:     *)
(* what is in the channel was sent for that call (Carried), and what is    *)
(* dispatched was approved or allowed (Dispatched), which a tool that runs *)
(* was first.                                                              *)
(***************************************************************************)
EXTENDS ToolApproval, SequenceTheorems, TLAPS

Cleared(i) == i \in approved \/ sent[i] \cap Allows # {}

Carried == \A k \in 1 .. Len(channel) : channel[k].decision \in sent[channel[k].id]

Dispatched == \A r \in Replies : \A i \in futures[r] : Cleared(i)

IInv == TypeOK /\ Carried /\ Dispatched /\ RunsOnlyIfAllowed

Answers == [id : Ids, decision : Decisions]

Places == {"idle", "ask", "lock", "wait", "collect", "poll", "pair"}

\* A received answer is an answer, and the rest of the channel is a channel
LEMMA Receive ==
  ASSUME TypeOK, channel # <<>>
  PROVE  /\ Head(channel) \in Answers
         /\ Tail(channel) \in Seq(Answers)
         /\ Len(Tail(channel)) = Len(channel) - 1
         /\ Head(channel) = channel[1]
         /\ \A k \in 1 .. Len(Tail(channel)) : Tail(channel)[k] = channel[k + 1]
         /\ Len(channel) \in Nat \ {0}
PROOF
  <1>1. channel \in Seq(Answers) BY DEF TypeOK, Answers
  <1>2. Len(channel) \in Nat \ {0} BY <1>1, EmptySeq, SMT
  <1> QED BY <1>1, <1>2, HeadTailProperties, SMT

\* Taking an answer leaves a channel of answers that were sent
LEMMA CarriedTail ==
  ASSUME TypeOK, Carried, channel # <<>>, channel' = Tail(channel), sent' = sent
  PROVE  Carried'
PROOF
  <1>1. SUFFICES ASSUME NEW k \in 1 .. Len(Tail(channel))
                 PROVE  Tail(channel)[k].decision \in sent[Tail(channel)[k].id]
    BY DEF Carried
  <1>2. Tail(channel)[k] = channel[k + 1] /\ k + 1 \in 1 .. Len(channel) BY Receive
  <1> QED BY <1>2 DEF Carried

\* What a reply hears about its call was sent for that call
LEMMA HeardSent ==
  ASSUME TypeOK, Carried, NEW r \in Replies, channel # <<>>, Matches(Head(channel), asking[r])
  PROVE  asking[r] \in Ids /\ Head(channel).decision \in sent[asking[r]]
PROOF
  <1>1. Head(channel) \in Answers /\ Head(channel) = channel[1] /\ 1 \in 1 .. Len(channel)
    BY Receive
  <1> QED BY <1>1 DEF Matches, Carried, Answers
-----------------------------------------------------------------------------
LEMMA TypeInit == Init => TypeOK
PROOF
  <1>1. SUFFICES ASSUME Init PROVE TypeOK OBVIOUS
  <1>2. <<>> \in Seq([id : Ids, decision : Decisions]) /\ Len(<<>>) <= Capacity
    BY ToolSets
  <1> QED BY <1>1, <1>2, ToolSets, Settings DEF Init, TypeOK

LEMMA TypeStep == TypeOK /\ [Next]_vars => TypeOK'
PROOF
  <1> USE DEF Places
  <1>1. SUFFICES ASSUME TypeOK, [Next]_vars PROVE TypeOK' OBVIOUS
  <1>2. ASSUME NEW r \in Replies, Inspect(r) PROVE TypeOK'
    <2>1. PICK new \in SUBSET {i \in Ids : tool[i] = None} :
            \E t \in [new -> Tools], other \in [new -> OtherVerdicts] :
              /\ tool' = [i \in Ids |-> IF i \in new THEN t[i] ELSE tool[i]]
              /\ batch' = [batch EXCEPT ![r] = new]
              /\ IF mode = "Chat" THEN Skip(r, new) ELSE Sort(r, new, t, other)
      BY <1>2 DEF Inspect
    <2>2. PICK t \in [new -> Tools], other \in [new -> OtherVerdicts] :
            /\ tool' = [i \in Ids |-> IF i \in new THEN t[i] ELSE tool[i]]
            /\ batch' = [batch EXCEPT ![r] = new]
            /\ IF mode = "Chat" THEN Skip(r, new) ELSE Sort(r, new, t, other)
      BY <2>1
    <2>3. UNCHANGED <<mode, level, asking, holder, channel, shown, sent, repeats, paired, cancelled>>
      BY <1>2 DEF Inspect
    <2>4. tool' \in [Ids -> Tools \cup {None}] /\ batch' \in [Replies -> SUBSET Ids]
      BY <1>1, <2>2 DEF TypeOK
    <2>5. CASE mode = "Chat"
      <3>1. Skip(r, new) BY <2>2, <2>5
      <3>2. responses' \in [Ids -> Nat] /\ pc' \in [Replies -> Places]
        BY <1>1, <3>1 DEF TypeOK, Skip, Goto
      <3>3. UNCHANGED <<approved, denied, toAsk, futures, ran>> BY <3>1 DEF Skip
      <3> QED BY <1>1, <2>3, <2>4, <3>2, <3>3 DEF TypeOK
    <2>6. CASE mode # "Chat"
      <3>1. Sort(r, new, t, other) BY <2>2, <2>6
      <3>2. responses' \in [Ids -> Nat] /\ pc' \in [Replies -> Places]
        BY <1>1, <3>1 DEF TypeOK, Sort, Goto
      <3>3. /\ toAsk' \in [Replies -> SUBSET Ids] /\ futures' \in [Replies -> SUBSET Ids]
            /\ approved' \subseteq Ids /\ denied' \subseteq Ids /\ ran' \subseteq Ids
        BY <1>1, <3>1 DEF TypeOK, Sort
      <3> QED BY <1>1, <2>3, <2>4, <3>2, <3>3 DEF TypeOK
    <2> QED BY <2>5, <2>6
  <1>3. ASSUME NEW r \in Replies, Lock(r) PROVE TypeOK'
    BY <1>1, <1>3 DEF TypeOK, Lock, Goto, static, user
  <1>4. ASSUME NEW r \in Replies, AsksDone(r) PROVE TypeOK'
    BY <1>1, <1>4 DEF TypeOK, AsksDone, Goto, static, user
  <1>5. ASSUME NEW r \in Replies, Collect(r) PROVE TypeOK'
    BY <1>1, <1>5 DEF TypeOK, Collect, Goto, static, user
  <1>6. ASSUME NEW r \in Replies, Poll(r) PROVE TypeOK'
    BY <1>1, <1>6 DEF TypeOK, Poll, Goto, static, user
  <1>7. ASSUME NEW r \in Replies, Tick(r) PROVE TypeOK'
    BY <1>1, <1>7 DEF TypeOK, Tick, Goto, static, user
  <1>8. ASSUME NEW r \in Replies, Pair(r) PROVE TypeOK'
    BY <1>1, <1>8 DEF TypeOK, Pair, Goto, static, user
  <1>9. ASSUME NEW r \in Replies, Cancel(r) PROVE TypeOK'
    BY <1>1, <1>9 DEF TypeOK, Cancel, Goto, static, user
  <1>10. ASSUME NEW r \in Replies, Drop(r) PROVE TypeOK'
    BY <1>1, <1>10 DEF TypeOK, Drop, ReleasedBy, Goto, static, user
  <1>11. ASSUME NEW r \in Replies, NEW i \in Ids, Ask(r, i) PROVE TypeOK'
    BY <1>1, <1>11 DEF TypeOK, Ask, Goto, static, user
  <1>12. ASSUME NEW r \in Replies, NEW i \in Ids, ToolEnds(r, i) PROVE TypeOK'
    BY <1>1, <1>12 DEF TypeOK, ToolEnds, Goto, static, user
  <1>13. ASSUME NEW r \in Replies, Discard(r) PROVE TypeOK'
    <2>1. channel' \in Seq(Answers) /\ Len(channel') <= Capacity
      BY <1>1, <1>13, Receive, ToolSets DEF Discard, TypeOK
    <2> QED BY <1>1, <1>13, <2>1 DEF TypeOK, Discard, static, user, Answers
  <1>14. ASSUME NEW r \in Replies, Allowed(r) PROVE TypeOK'
    <2>1. channel # <<>> /\ Matches(Head(channel), asking[r]) BY <1>14 DEF Allowed, Heard
    <2>2. channel' \in Seq(Answers) /\ Len(channel') <= Capacity
      BY <1>1, <1>14, <2>1, Receive, ToolSets DEF Allowed, Heard, TypeOK
    <2>3. asking[r] \in Ids BY <1>1, <2>1, Receive DEF Matches, Answers
    <2>4. /\ holder' \in Replies \cup {None} /\ asking' \in [Replies -> Ids \cup {None}]
          /\ pc' \in [Replies -> Places]
      BY <1>1, <1>14 DEF Allowed, Heard, Goto, TypeOK
    <2>5. level' \in [Tools -> Levels]
      BY <1>1, <1>14 DEF Allowed, SetLevel, TypeOK, Levels
    <2>6. futures' \in [Replies -> SUBSET Ids] /\ ran' \subseteq Ids /\ responses' \in [Ids -> Nat]
      BY <1>1, <1>14, <2>3 DEF Allowed, TypeOK
    <2> QED BY <1>1, <1>14, <2>2, <2>4, <2>5, <2>6 DEF TypeOK, Allowed, static, user, Answers
  <1>15. ASSUME NEW r \in Replies, Declined(r) PROVE TypeOK'
    <2>1. channel # <<>> /\ Matches(Head(channel), asking[r]) BY <1>15 DEF Declined, Heard
    <2>2. channel' \in Seq(Answers) /\ Len(channel') <= Capacity
      BY <1>1, <1>15, <2>1, Receive, ToolSets DEF Declined, Heard, TypeOK
    <2>3. asking[r] \in Ids BY <1>1, <2>1, Receive DEF Matches, Answers
    <2>4. /\ holder' \in Replies \cup {None} /\ asking' \in [Replies -> Ids \cup {None}]
          /\ pc' \in [Replies -> Places]
      BY <1>1, <1>15 DEF Declined, Heard, Goto, TypeOK
    <2>5. level' \in [Tools -> Levels]
      BY <1>1, <1>15 DEF Declined, SetLevel, TypeOK, Levels
    <2>6. futures' \in [Replies -> SUBSET Ids] /\ ran' \subseteq Ids /\ responses' \in [Ids -> Nat]
      BY <1>1, <1>15, <2>3 DEF Declined, TypeOK
    <2> QED BY <1>1, <1>15, <2>2, <2>4, <2>5, <2>6 DEF TypeOK, Declined, static, user, Answers
  <1>16. ASSUME NEW i \in Ids, NEW d \in Decisions, Answer(i, d) PROVE TypeOK'
    <2>1. channel \in Seq(Answers) /\ [id |-> i, decision |-> d] \in Answers
      BY <1>1 DEF TypeOK, Answers
    <2>2. channel' = Append(channel, [id |-> i, decision |-> d]) /\ Len(channel) < Capacity
      BY <1>16 DEF Answer, Room
    <2>3. channel' \in Seq(Answers) /\ Len(channel') = Len(channel) + 1
      BY <2>1, <2>2, AppendProperties
    <2>4. Len(channel') <= Capacity BY <2>1, <2>2, <2>3, LenProperties, ToolSets
    <2>5. repeats' \in 0 .. MaxRepeats BY <1>1, <1>16, ToolSets DEF Answer, TypeOK
    <2> QED BY <1>1, <1>16, <2>3, <2>4, <2>5 DEF TypeOK, Answer, static, user, Answers
  <1>17. ASSUME UNCHANGED vars PROVE TypeOK'
    BY <1>1, <1>17 DEF TypeOK, vars, static, user
  <1> QED
    BY <1>1, <1>2, <1>3, <1>4, <1>5, <1>6, <1>7, <1>8, <1>9, <1>10, <1>11, <1>12, <1>13, <1>14, <1>15, <1>16, <1>17 DEF Next, Step
-----------------------------------------------------------------------------
\* What was approved or allowed stays so
LEMMA ClearedStays ==
  ASSUME NEW i, Cleared(i), approved \subseteq approved', sent[i] \subseteq sent'[i]
  PROVE  Cleared(i)'
  BY DEF Cleared

\* A step that dispatches and starts only cleared calls, and sends nothing
LEMMA KeepsCleared ==
  ASSUME IInv,
         approved \subseteq approved', sent' = sent,
         \A r \in Replies : \A i \in futures'[r] : i \in futures[r] \/ Cleared(i)',
         \A i \in ran' : i \in ran \/ Cleared(i)' \/ \E r \in Replies : i \in futures[r]
  PROVE  Dispatched' /\ RunsOnlyIfAllowed'
PROOF
  <1>1. \A i : Cleared(i) => Cleared(i)' BY ClearedStays
  <1>2. \A i \in ran : Cleared(i) BY DEF IInv, RunsOnlyIfAllowed, Cleared
  <1>3. \A r \in Replies : \A i \in futures[r] : Cleared(i) BY DEF IInv, Dispatched
  <1>4. Dispatched' BY <1>1, <1>3 DEF Dispatched
  <1>5. \A i \in ran' : Cleared(i)' BY <1>1, <1>2, <1>3
  <1>6. RunsOnlyIfAllowed' BY <1>5 DEF RunsOnlyIfAllowed, Cleared
  <1> QED BY <1>4, <1>6

LEMMA AllowInit == Init => Carried /\ Dispatched /\ RunsOnlyIfAllowed
  BY DEF Init, Carried, Dispatched, RunsOnlyIfAllowed

LEMMA AllowStep == IInv /\ [Next]_vars => Carried' /\ Dispatched' /\ RunsOnlyIfAllowed'
PROOF
  <1>1. SUFFICES ASSUME IInv, [Next]_vars
                 PROVE  Carried' /\ Dispatched' /\ RunsOnlyIfAllowed'
    OBVIOUS
  <1>2. TypeOK /\ Carried BY <1>1 DEF IInv
  <1>3. ASSUME NEW r \in Replies, Inspect(r)
        PROVE  Carried' /\ Dispatched' /\ RunsOnlyIfAllowed'
    <2>1. PICK new \in SUBSET Ids :
            \/ Skip(r, new)
            \/ \E t \in [new -> Tools], other \in [new -> OtherVerdicts] : Sort(r, new, t, other)
      BY <1>3 DEF Inspect
    <2>2. UNCHANGED <<sent, channel>> BY <1>3 DEF Inspect
    <2>3. Carried' BY <1>2, <2>2 DEF Carried
    <2>4. CASE Skip(r, new)
      BY <1>1, <2>2, <2>3, <2>4, KeepsCleared DEF Skip
    <2>5. CASE \E t \in [new -> Tools], other \in [new -> OtherVerdicts] : Sort(r, new, t, other)
      <3>1. PICK t \in [new -> Tools], other \in [new -> OtherVerdicts] : Sort(r, new, t, other)
        BY <2>5
      <3>2. PICK ok : /\ approved' = approved \cup ok
                      /\ futures' = [futures EXCEPT ![r] = ok]
                      /\ ran' \subseteq ran \cup ok
        BY <3>1 DEF Sort
      <3>3. \A i \in ok : Cleared(i)' BY <3>2 DEF Cleared
      <3>4. \A q \in Replies : \A i \in futures'[q] : i \in futures[q] \/ Cleared(i)'
        BY <1>2, <3>2, <3>3 DEF TypeOK
      <3> QED BY <1>1, <2>2, <2>3, <3>2, <3>3, <3>4, KeepsCleared
    <2> QED BY <2>1, <2>4, <2>5
  <1>4. ASSUME NEW r \in Replies, Lock(r)
        PROVE  Carried' /\ Dispatched' /\ RunsOnlyIfAllowed'
    <2>1. UNCHANGED <<sent, channel, approved>> BY <1>4 DEF Lock, static, user
    <2>2. Carried' BY <1>2, <2>1 DEF Carried
    <2>3. \A q \in Replies : futures'[q] \subseteq futures[q]
      BY <1>2, <1>4 DEF Lock, TypeOK
    <2>4. \A i \in ran' : i \in ran \/ \E q \in Replies : i \in futures[q]
      BY <1>4 DEF Lock
    <2> QED BY <1>1, <2>1, <2>2, <2>3, <2>4, KeepsCleared
  <1>5. ASSUME NEW r \in Replies, AsksDone(r)
        PROVE  Carried' /\ Dispatched' /\ RunsOnlyIfAllowed'
    <2>1. UNCHANGED <<sent, channel, approved>> BY <1>5 DEF AsksDone, static, user
    <2>2. Carried' BY <1>2, <2>1 DEF Carried
    <2>3. \A q \in Replies : futures'[q] \subseteq futures[q]
      BY <1>2, <1>5 DEF AsksDone, TypeOK
    <2>4. \A i \in ran' : i \in ran \/ \E q \in Replies : i \in futures[q]
      BY <1>5 DEF AsksDone
    <2> QED BY <1>1, <2>1, <2>2, <2>3, <2>4, KeepsCleared
  <1>6. ASSUME NEW r \in Replies, Collect(r)
        PROVE  Carried' /\ Dispatched' /\ RunsOnlyIfAllowed'
    <2>1. UNCHANGED <<sent, channel, approved>> BY <1>6 DEF Collect, static, user
    <2>2. Carried' BY <1>2, <2>1 DEF Carried
    <2>3. \A q \in Replies : futures'[q] \subseteq futures[q]
      BY <1>2, <1>6 DEF Collect, TypeOK
    <2>4. \A i \in ran' : i \in ran \/ \E q \in Replies : i \in futures[q]
      BY <1>6 DEF Collect
    <2> QED BY <1>1, <2>1, <2>2, <2>3, <2>4, KeepsCleared
  <1>7. ASSUME NEW r \in Replies, Poll(r)
        PROVE  Carried' /\ Dispatched' /\ RunsOnlyIfAllowed'
    <2>1. UNCHANGED <<sent, channel, approved>> BY <1>7 DEF Poll, static, user
    <2>2. Carried' BY <1>2, <2>1 DEF Carried
    <2>3. \A q \in Replies : futures'[q] \subseteq futures[q]
      BY <1>2, <1>7 DEF Poll, TypeOK
    <2>4. \A i \in ran' : i \in ran \/ \E q \in Replies : i \in futures[q]
      BY <1>7 DEF Poll
    <2> QED BY <1>1, <2>1, <2>2, <2>3, <2>4, KeepsCleared
  <1>8. ASSUME NEW r \in Replies, Tick(r)
        PROVE  Carried' /\ Dispatched' /\ RunsOnlyIfAllowed'
    <2>1. UNCHANGED <<sent, channel, approved>> BY <1>8 DEF Tick, static, user
    <2>2. Carried' BY <1>2, <2>1 DEF Carried
    <2>3. \A q \in Replies : futures'[q] \subseteq futures[q]
      BY <1>2, <1>8 DEF Tick, TypeOK
    <2>4. \A i \in ran' : i \in ran \/ \E q \in Replies : i \in futures[q]
      BY <1>8 DEF Tick
    <2> QED BY <1>1, <2>1, <2>2, <2>3, <2>4, KeepsCleared
  <1>9. ASSUME NEW r \in Replies, Pair(r)
        PROVE  Carried' /\ Dispatched' /\ RunsOnlyIfAllowed'
    <2>1. UNCHANGED <<sent, channel, approved>> BY <1>9 DEF Pair, static, user
    <2>2. Carried' BY <1>2, <2>1 DEF Carried
    <2>3. \A q \in Replies : futures'[q] \subseteq futures[q]
      BY <1>2, <1>9 DEF Pair, TypeOK
    <2>4. \A i \in ran' : i \in ran \/ \E q \in Replies : i \in futures[q]
      BY <1>9 DEF Pair
    <2> QED BY <1>1, <2>1, <2>2, <2>3, <2>4, KeepsCleared
  <1>10. ASSUME NEW r \in Replies, Cancel(r)
        PROVE  Carried' /\ Dispatched' /\ RunsOnlyIfAllowed'
    <2>1. UNCHANGED <<sent, channel, approved>> BY <1>10 DEF Cancel, static, user
    <2>2. Carried' BY <1>2, <2>1 DEF Carried
    <2>3. \A q \in Replies : futures'[q] \subseteq futures[q]
      BY <1>2, <1>10 DEF Cancel, TypeOK
    <2>4. \A i \in ran' : i \in ran \/ \E q \in Replies : i \in futures[q]
      BY <1>10 DEF Cancel
    <2> QED BY <1>1, <2>1, <2>2, <2>3, <2>4, KeepsCleared
  <1>11. ASSUME NEW r \in Replies, Drop(r)
        PROVE  Carried' /\ Dispatched' /\ RunsOnlyIfAllowed'
    <2>1. UNCHANGED <<sent, channel, approved>> BY <1>11 DEF Drop, static, user
    <2>2. Carried' BY <1>2, <2>1 DEF Carried
    <2>3. \A q \in Replies : futures'[q] \subseteq futures[q]
      BY <1>2, <1>11 DEF Drop, TypeOK
    <2>4. \A i \in ran' : i \in ran \/ \E q \in Replies : i \in futures[q]
      BY <1>11 DEF Drop
    <2> QED BY <1>1, <2>1, <2>2, <2>3, <2>4, KeepsCleared
  <1>12. ASSUME NEW r \in Replies, NEW j \in Ids, Ask(r, j)
        PROVE  Carried' /\ Dispatched' /\ RunsOnlyIfAllowed'
    <2>1. UNCHANGED <<sent, channel, approved>> BY <1>12 DEF Ask, static, user
    <2>2. Carried' BY <1>2, <2>1 DEF Carried
    <2>3. \A q \in Replies : futures'[q] \subseteq futures[q]
      BY <1>2, <1>12 DEF Ask, TypeOK
    <2>4. \A i \in ran' : i \in ran \/ \E q \in Replies : i \in futures[q]
      BY <1>12 DEF Ask
    <2> QED BY <1>1, <2>1, <2>2, <2>3, <2>4, KeepsCleared
  <1>13. ASSUME NEW r \in Replies, NEW j \in Ids, ToolEnds(r, j)
        PROVE  Carried' /\ Dispatched' /\ RunsOnlyIfAllowed'
    <2>1. UNCHANGED <<sent, channel, approved>> BY <1>13 DEF ToolEnds, static, user
    <2>2. Carried' BY <1>2, <2>1 DEF Carried
    <2>3. \A q \in Replies : futures'[q] \subseteq futures[q]
      BY <1>2, <1>13 DEF ToolEnds, TypeOK
    <2>4. \A i \in ran' : i \in ran \/ \E q \in Replies : i \in futures[q]
      BY <1>13 DEF ToolEnds
    <2> QED BY <1>1, <2>1, <2>2, <2>3, <2>4, KeepsCleared
  <1>14. ASSUME NEW r \in Replies, Discard(r)
        PROVE  Carried' /\ Dispatched' /\ RunsOnlyIfAllowed'
    <2>1. /\ channel # <<>> /\ channel' = Tail(channel) /\ sent' = sent
          /\ UNCHANGED <<approved, futures, ran>>
      BY <1>14 DEF Discard, static, user
    <2>2. Carried' BY <1>2, <2>1, CarriedTail
    <2> QED BY <1>1, <2>1, <2>2, KeepsCleared
  <1>15. ASSUME NEW r \in Replies, Allowed(r)
        PROVE  Carried' /\ Dispatched' /\ RunsOnlyIfAllowed'
    <2>1. /\ channel # <<>> /\ channel' = Tail(channel) /\ sent' = sent /\ approved' = approved
          /\ Matches(Head(channel), asking[r]) /\ Head(channel).decision \in Allows
          /\ futures' = [futures EXCEPT ![r] = @ \cup {asking[r]}]
          /\ ran' \subseteq ran \cup {asking[r]}
      BY <1>15 DEF Allowed, Heard, static, user
    <2>2. Carried' BY <1>2, <2>1, CarriedTail
    <2>3. Head(channel).decision \in sent[asking[r]] BY <1>2, <2>1, HeardSent
    <2>4. PICK c : c = asking[r] OBVIOUS
    <2>5. Cleared(c)' BY <2>1, <2>3, <2>4 DEF Cleared
    <2>6. \A q \in Replies : \A i \in futures'[q] : i \in futures[q] \/ Cleared(i)'
      BY <1>2, <2>1, <2>4, <2>5 DEF TypeOK
    <2>7. \A i \in ran' : i \in ran \/ Cleared(i)' BY <2>1, <2>4, <2>5
    <2> QED BY <1>1, <2>1, <2>2, <2>6, <2>7, KeepsCleared
  <1>16. ASSUME NEW r \in Replies, Declined(r)
        PROVE  Carried' /\ Dispatched' /\ RunsOnlyIfAllowed'
    <2>1. /\ channel # <<>> /\ channel' = Tail(channel) /\ sent' = sent
          /\ UNCHANGED <<approved, futures, ran>>
      BY <1>16 DEF Declined, Heard, static, user
    <2>2. Carried' BY <1>2, <2>1, CarriedTail
    <2> QED BY <1>1, <2>1, <2>2, KeepsCleared
  <1>17. ASSUME NEW j \in Ids, NEW d \in Decisions, Answer(j, d)
        PROVE  Carried' /\ Dispatched' /\ RunsOnlyIfAllowed'
    <2>1. /\ sent' = [sent EXCEPT ![j] = @ \cup {d}]
          /\ channel' = Append(channel, [id |-> j, decision |-> d])
          /\ UNCHANGED <<approved, futures, ran>>
      BY <1>17 DEF Answer, static, user
    <2>2. \A i \in Ids : sent[i] \subseteq sent'[i] BY <1>2, <2>1 DEF TypeOK
    <2>3. \A i \in Ids : Cleared(i) => Cleared(i)' BY <2>1, <2>2, ClearedStays
    <2>4. Dispatched'
      BY <1>1, <2>1, <2>3 DEF IInv, TypeOK, Dispatched
    <2>5. RunsOnlyIfAllowed'
      <3>1. \A i \in ran : Cleared(i) BY <1>1 DEF IInv, RunsOnlyIfAllowed, Cleared
      <3>2. \A i \in ran : Cleared(i)' BY <1>2, <2>3, <3>1 DEF TypeOK
      <3> QED BY <2>1, <3>2 DEF RunsOnlyIfAllowed, Cleared
    <2>6. Carried'
      <3>1. channel \in Seq(Answers) /\ [id |-> j, decision |-> d] \in Answers
        BY <1>2 DEF TypeOK, Answers
      <3>2. SUFFICES ASSUME NEW m \in 1 .. Len(channel')
                     PROVE  channel'[m].decision \in sent'[channel'[m].id]
        BY DEF Carried
      <3>3. CASE m = Len(channel) + 1
        <4>1. channel'[m] = [id |-> j, decision |-> d] BY <2>1, <3>1, <3>3, AppendProperties
        <4> QED BY <1>2, <2>1, <4>1 DEF TypeOK
      <3>4. CASE m # Len(channel) + 1
        <4>1. m \in 1 .. Len(channel) /\ channel'[m] = channel[m]
          BY <2>1, <3>1, <3>4, AppendProperties, LenProperties
        <4>2. channel[m] \in Answers BY <3>1, <4>1, ElementOfSeq
        <4>3. channel[m].id \in Ids BY <4>2 DEF Answers
        <4> QED BY <1>2, <2>2, <4>1, <4>3 DEF Carried
      <3> QED BY <3>3, <3>4
    <2> QED BY <2>4, <2>5, <2>6
  <1>18. ASSUME UNCHANGED vars
        PROVE  Carried' /\ Dispatched' /\ RunsOnlyIfAllowed'
    <2>1. UNCHANGED <<channel, sent, approved, futures, ran>> BY <1>18 DEF vars, static, user
    <2> QED BY <1>1, <2>1 DEF IInv, Carried, Dispatched, RunsOnlyIfAllowed, Cleared
  <1> QED
    BY <1>1, <1>3, <1>4, <1>5, <1>6, <1>7, <1>8, <1>9, <1>10, <1>11, <1>12, <1>13, <1>14, <1>15, <1>16, <1>17, <1>18 DEF Next, Step
-----------------------------------------------------------------------------
(***************************************************************************)
(* One response for each recorded call.  A call belongs to one batch and   *)
(* is in one place of it (to be asked about, asked about, dispatched), and *)
(* its responses are counted by what is left to do about it.               *)
(***************************************************************************)
\* A call is made once, and is in one batch at most
Apart ==
  /\ \A r, q \in Replies : r # q => batch[r] \cap batch[q] = {}
  /\ \A i \in Ids : tool[i] = None => i \notin paired \cup denied \cup shown /\ responses[i] = 0

Open(r, i) == i \in toAsk[r] \/ asking[r] = i \/ i \in futures[r]

\* A reply works on calls of its own batch that were parsed, each in one place,
\* and has shown the one it asks about
OfTheBatch(r) ==
  /\ \A i \in batch[r] : tool[i] # None /\ (Open(r, i) => tool[i] \notin Unparsable)
  /\ toAsk[r] \cup futures[r] \subseteq batch[r]
  /\ toAsk[r] \cap futures[r] = {}
  /\ asking[r] # None => asking[r] \in (batch[r] \cap shown) \ (toAsk[r] \cup futures[r])

\* What may be left to do at each place; only a cancelled reply leaves futures
LeftToDo(r) ==
  /\ asking[r] # None <=> pc[r] \in {"lock", "wait"}
  /\ toAsk[r] # {} => pc[r] \in {"ask", "lock", "wait"}
  /\ futures[r] # {} => pc[r] # "idle" /\ (pc[r] = "pair" => r \in cancelled)
  /\ pc[r] # "idle" => batch[r] \cap paired = {}

\* A call that was not denied has a response when nothing is left to do about
\* it; a denied one had its response, and is dispatched only when it was shown
Accounted(r) ==
  pc[r] # "idle" =>
    \A i \in batch[r] :
      IF i \in denied THEN i \in shown \/ (responses[i] = 1 /\ i \notin futures[r])
      ELSE responses[i] = IF Open(r, i) \/ (tool[i] \in Unparsable /\ mode # "Chat") THEN 0 ELSE 1

\* Of the calls a reply has recorded last
Recorded(r) ==
  \A i \in paired \cap batch[r] :
    \/ responses[i] = 1
    \/ responses[i] = 0 /\ (r \in cancelled \/ tool[i] \in Unparsable)
    \/ i \in denied \cap shown

InHand(r) == OfTheBatch(r) /\ LeftToDo(r) /\ Accounted(r) /\ Recorded(r)

RInv == TypeOK /\ Apart /\ \A r \in Replies : InHand(r)

\* A step of one reply leaves what the others have in hand
LEMMA StepOfOne ==
  ASSUME RInv, NEW r \in Replies,
         UNCHANGED <<batch, tool, mode, denied>>,
         cancelled \subseteq cancelled',
         shown \subseteq shown', shown' \subseteq shown \cup batch[r],
         paired \subseteq paired', paired' \subseteq paired \cup batch[r],
         \A i \in Ids \ batch[r] : responses'[i] = responses[i],
         \A q \in Replies \ {r} : /\ pc'[q] = pc[q] /\ toAsk'[q] = toAsk[q]
                                  /\ asking'[q] = asking[q] /\ futures'[q] = futures[q]
  PROVE  Apart' /\ \A q \in Replies \ {r} : InHand(q)'
PROOF
  <1>1. Apart'
    <2>1. \A i \in batch[r] : i \in Ids /\ tool[i] # None BY DEF RInv, InHand, OfTheBatch, Open, TypeOK
    <2>2. \A s, q \in Replies : s # q => batch'[s] \cap batch'[q] = {} BY DEF RInv, Apart
    <2>3. ASSUME NEW i \in Ids, tool'[i] = None
          PROVE  i \notin paired' \cup denied' \cup shown' /\ responses'[i] = 0
      BY <2>1, <2>3 DEF RInv, Apart
    <2> QED BY <2>2, <2>3 DEF Apart
  <1>2. ASSUME NEW q \in Replies \ {r} PROVE InHand(q)'
    <2>1. batch[q] \cap batch[r] = {} /\ batch[q] \subseteq Ids BY DEF RInv, Apart, TypeOK
    <2>2. /\ \A i \in batch[q] : responses'[i] = responses[i]
          /\ paired' \cap batch[q] = paired \cap batch[q]
      BY <2>1
    <2>3. InHand(q) BY DEF RInv
    <2>4. /\ pc'[q] = pc[q] /\ toAsk'[q] = toAsk[q] /\ asking'[q] = asking[q]
          /\ futures'[q] = futures[q]
      OBVIOUS
    <2>5. OfTheBatch(q)' BY <2>3, <2>4 DEF InHand, OfTheBatch, Open
    <2>6. LeftToDo(q)' BY <2>2, <2>3, <2>4 DEF InHand, LeftToDo
    <2>7. Accounted(q)' BY <2>2, <2>3, <2>4 DEF InHand, Accounted, Open
    <2>8. Recorded(q)' BY <2>2, <2>3 DEF InHand, Recorded
    <2> QED BY <2>5, <2>6, <2>7, <2>8 DEF InHand
  <1> QED BY <1>1, <1>2

LEMMA RecordInit == Init => Apart /\ \A r \in Replies : InHand(r)
  BY ToolSets DEF Init, Apart, InHand, OfTheBatch, Open, LeftToDo, Accounted, Recorded

\* A call that was parsed is approved, denied or to be asked about; an approved
\* one is nothing else
LEMMA Sorted ==
  ASSUME TypeOK, NEW t \in Tools, NEW other \in OtherVerdicts
  PROVE  /\ Approved(t, other) => ~Denied(t, other) /\ ~NeedsApproval(t, other)
         /\ Denied(t, other) \/ NeedsApproval(t, other) => t \notin Unparsable
         /\ Approved(t, other) => t \notin Unparsable
         /\ \/ Approved(t, other) \/ Denied(t, other)
            \/ NeedsApproval(t, other) \/ t \in Unparsable
PROOF
  <1>1. PermissionVerdict(t) \in {"Allow", "Ask", "Deny"}
    BY DEF TypeOK, Levels, PermissionVerdict
  <1>2. other \in {"Allow", "Ask", "Deny"} BY Settings
  <1> QED BY <1>1, <1>2 DEF Approved, Denied, NeedsApproval

\* Every action keeps what is in hand: one step per action, of one reply, of
\* which StepOfOne leaves only the reply's own part to show
LEMMA RecordStep == RInv /\ [Next]_vars => Apart' /\ \A r \in Replies : InHand(r)'
PROOF
  <1>1. SUFFICES ASSUME RInv, [Next]_vars PROVE Apart' /\ \A r \in Replies : InHand(r)'
    OBVIOUS
  <1> DEFINE Kept == Apart' /\ \A r \in Replies : InHand(r)'
  <1>2. TypeOK /\ Apart /\ \A r \in Replies : InHand(r) BY <1>1 DEF RInv
  <1>3. ASSUME NEW r \in Replies, Inspect(r) PROVE Kept
    <2>1. PICK new \in SUBSET {i \in Ids : tool[i] = None} :
            \E t \in [new -> Tools], other \in [new -> OtherVerdicts] :
              /\ tool' = [i \in Ids |-> IF i \in new THEN t[i] ELSE tool[i]]
              /\ batch' = [batch EXCEPT ![r] = new]
              /\ IF mode = "Chat" THEN Skip(r, new) ELSE Sort(r, new, t, other)
      BY <1>3 DEF Inspect
    <2>2. PICK t \in [new -> Tools], other \in [new -> OtherVerdicts] :
            /\ tool' = [i \in Ids |-> IF i \in new THEN t[i] ELSE tool[i]]
            /\ batch' = [batch EXCEPT ![r] = new]
            /\ IF mode = "Chat" THEN Skip(r, new) ELSE Sort(r, new, t, other)
      BY <2>1
    <2>3. UNCHANGED <<mode, asking, shown, paired, cancelled>> /\ pc[r] = "idle"
      BY <1>3 DEF Inspect
    <2>4. toAsk[r] = {} /\ futures[r] = {} /\ asking[r] = None
      BY <1>2, <2>3 DEF InHand, LeftToDo
    <2>5. PICK no \in SUBSET new :
            /\ denied' = denied \cup no
            /\ \A i \in Ids : responses'[i] = IF i \in no \/ (mode = "Chat" /\ i \in new) THEN 1 ELSE responses[i]
            /\ \A q \in Replies \ {r} : pc'[q] = pc[q] /\ toAsk'[q] = toAsk[q] /\ futures'[q] = futures[q]
      <3>1. CASE mode = "Chat"
        <4>1. Skip(r, new) BY <2>2, <3>1
        <4>2. /\ {} \in SUBSET new
              /\ denied' = denied \cup {}
              /\ \A i \in Ids : responses'[i] = IF i \in {} \/ (mode = "Chat" /\ i \in new) THEN 1 ELSE responses[i]
          BY <3>1, <4>1 DEF Skip
        <4>3. \A q \in Replies \ {r} : pc'[q] = pc[q] /\ toAsk'[q] = toAsk[q] /\ futures'[q] = futures[q]
          BY <1>2, <4>1 DEF Skip, Goto, TypeOK
        <4> QED BY <4>2, <4>3
      <3>2. CASE mode # "Chat"
        <4>1. Sort(r, new, t, other) BY <2>2, <3>2
        <4>2. PICK no \in SUBSET new :
                /\ denied' = denied \cup no
                /\ responses' = [i \in Ids |-> IF i \in no THEN 1 ELSE responses[i]]
          BY <4>1 DEF Sort
        <4>3. \A q \in Replies \ {r} : pc'[q] = pc[q] /\ toAsk'[q] = toAsk[q] /\ futures'[q] = futures[q]
          BY <1>2, <4>1 DEF Sort, Goto, TypeOK
        <4> QED BY <3>2, <4>2, <4>3
      <3> QED BY <3>1, <3>2
    <2>6. batch' = [batch EXCEPT ![r] = new] /\ \A i \in Ids : tool'[i] = IF i \in new THEN t[i] ELSE tool[i]
      BY <2>2
    <2>7. \A i \in new : i \in Ids /\ tool[i] = None /\ tool'[i] \in Tools /\ tool'[i] # None
      BY <2>6, ToolSets
    <2>8. \A q \in Replies : batch[q] \cap new = {} /\ batch[q] \subseteq Ids
      BY <1>2, <2>7 DEF InHand, OfTheBatch, Open, TypeOK
    <2>9. Apart'
      <3>1. \A s, q \in Replies : s # q => batch'[s] \cap batch'[q] = {}
        BY <1>2, <2>6, <2>8 DEF Apart, TypeOK
      <3>2. ASSUME NEW i \in Ids, tool'[i] = None
            PROVE  i \notin paired' \cup denied' \cup shown' /\ responses'[i] = 0
        <4>1. i \notin new /\ tool[i] = None BY <2>6, <2>7, <3>2
        <4> QED BY <1>2, <2>3, <2>5, <4>1 DEF Apart
      <3> QED BY <3>1, <3>2 DEF Apart
    <2>10. ASSUME NEW q \in Replies \ {r} PROVE InHand(q)'
      <3>1. batch'[q] = batch[q] /\ pc'[q] = pc[q] /\ toAsk'[q] = toAsk[q] /\ futures'[q] = futures[q]
            /\ asking'[q] = asking[q]
        BY <1>2, <2>3, <2>5, <2>6 DEF TypeOK
      <3>2. \A i \in batch[q] : /\ tool'[i] = tool[i] /\ responses'[i] = responses[i]
                                /\ i \in denied' <=> i \in denied
        BY <2>5, <2>6, <2>8
      <3>3. InHand(q) BY <1>2
      <3>4. OfTheBatch(q)' BY <2>3, <3>1, <3>2, <3>3 DEF InHand, OfTheBatch, Open
      <3>5. LeftToDo(q)' BY <2>3, <3>1, <3>3 DEF InHand, LeftToDo
      <3>6. Accounted(q)' BY <2>3, <3>1, <3>2, <3>3 DEF InHand, Accounted, Open
      <3>7. Recorded(q)' BY <2>3, <3>1, <3>2, <3>3 DEF InHand, Recorded
      <3> QED BY <3>4, <3>5, <3>6, <3>7 DEF InHand
    <2>11. batch'[r] = new /\ new \cap paired = {} /\ new \cap denied = {} /\ asking'[r] = None
           /\ \A i \in new : responses[i] = 0
      BY <1>2, <2>3, <2>4, <2>6, <2>7 DEF Apart, TypeOK
    <2>12. CASE mode = "Chat"
      <3>1. Skip(r, new) BY <2>2, <2>12
      <3>2. toAsk'[r] = {} /\ futures'[r] = {} /\ pc'[r] = "pair" /\ denied' = denied
            /\ \A i \in new : responses'[i] = 1
        BY <1>2, <2>4, <2>7, <3>1 DEF Skip, Goto, TypeOK
      <3>3. InHand(r)'
        BY <2>3, <2>7, <2>11, <2>12, <3>2, ToolSets
        DEF InHand, OfTheBatch, LeftToDo, Accounted, Open, Recorded
      <3> QED BY <2>9, <2>10, <3>3
    <2>13. CASE mode # "Chat"
      <3>1. Sort(r, new, t, other) BY <2>2, <2>13
      <3>2. /\ toAsk'[r] = {i \in new : NeedsApproval(t[i], other[i])}
            /\ futures'[r] = {i \in new : Approved(t[i], other[i])}
            /\ pc'[r] = "ask"
            /\ denied' = denied \cup {i \in new : Denied(t[i], other[i])}
            /\ \A i \in new : responses'[i] = IF Denied(t[i], other[i]) THEN 1 ELSE 0
        BY <1>2, <2>7, <2>11, <3>1 DEF Sort, Goto, TypeOK
      <3>3. ASSUME NEW i \in new
            PROVE  /\ Approved(t[i], other[i]) => ~Denied(t[i], other[i]) /\ ~NeedsApproval(t[i], other[i])
                   /\ Denied(t[i], other[i]) \/ NeedsApproval(t[i], other[i]) => t[i] \notin Unparsable
                   /\ Approved(t[i], other[i]) => t[i] \notin Unparsable
                   /\ \/ Approved(t[i], other[i]) \/ Denied(t[i], other[i])
                      \/ NeedsApproval(t[i], other[i]) \/ t[i] \in Unparsable
        BY <1>2, Sorted DEF TypeOK
      <3>4. OfTheBatch(r)'
        <4>1. ASSUME NEW i \in new
              PROVE  tool'[i] # None /\ (Open(r, i)' => tool'[i] \notin Unparsable)
          <5>1. tool'[i] = t[i] /\ i # None BY <2>6, <2>7, ToolSets
          <5>2. i \in toAsk'[r] \/ i \in futures'[r] => t[i] \notin Unparsable BY <3>2, <3>3
          <5> QED BY <2>7, <2>11, <5>1, <5>2 DEF Open
        <4>2. toAsk'[r] \cap futures'[r] = {} BY <3>2, <3>3
        <4> QED BY <2>11, <3>2, <4>1, <4>2 DEF OfTheBatch
      <3>5. LeftToDo(r)' BY <2>3, <2>11, <3>2 DEF LeftToDo
      <3>6. Accounted(r)'
        <4>1. SUFFICES ASSUME NEW i \in new
                       PROVE  (IF i \in denied THEN i \in shown \/ (responses[i] = 1 /\ i \notin futures[r])
                               ELSE responses[i] = IF Open(r, i) \/ (tool[i] \in Unparsable /\ mode # "Chat") THEN 0 ELSE 1)'
          BY <2>11 DEF Accounted
        <4>2. tool'[i] = t[i] /\ (i \in denied' <=> Denied(t[i], other[i])) BY <2>6, <2>11, <3>2
        <4>3. CASE Denied(t[i], other[i]) BY <3>2, <3>3, <4>2, <4>3
        <4>4. CASE ~Denied(t[i], other[i])
          <5>1. responses'[i] = 0 /\ i \notin denied' BY <3>2, <4>2, <4>4
          <5>2. Open(r, i)' \/ (tool'[i] \in Unparsable /\ mode' # "Chat")
            BY <2>3, <2>13, <3>2, <3>3, <4>2, <4>4 DEF Open
          <5> QED BY <5>1, <5>2
        <4> QED BY <4>3, <4>4
      <3>7. Recorded(r)' BY <2>3, <2>11 DEF Recorded
      <3> QED BY <2>9, <2>10, <3>4, <3>5, <3>6, <3>7 DEF InHand
    <2> QED BY <2>12, <2>13
  <1>4. ASSUME NEW r \in Replies, Lock(r) PROVE Kept
    <2>1. InHand(r) BY <1>2
    <2>2. InHand(r)'
      BY <1>2, <1>4, <2>1, ToolSets
      DEF Lock, Goto, static, user, TypeOK, InHand, OfTheBatch, LeftToDo, Accounted, Open, Recorded
    <2> QED BY <1>1, <1>2, <1>4, <2>2, StepOfOne DEF Lock, Goto, static, user, TypeOK
  <1>5. ASSUME NEW r \in Replies, Discard(r) PROVE Kept
    <2>1. InHand(r) BY <1>2
    <2>2. InHand(r)'
      BY <1>2, <1>5, <2>1, ToolSets
      DEF Discard, Goto, static, user, TypeOK, InHand, OfTheBatch, LeftToDo, Accounted, Open, Recorded
    <2> QED BY <1>1, <1>2, <1>5, <2>2, StepOfOne DEF Discard, Goto, static, user, TypeOK
  <1>6. ASSUME NEW r \in Replies, AsksDone(r) PROVE Kept
    <2>1. InHand(r) BY <1>2
    <2>2. InHand(r)'
      BY <1>2, <1>6, <2>1, ToolSets
      DEF AsksDone, Goto, static, user, TypeOK, InHand, OfTheBatch, LeftToDo, Accounted, Open, Recorded
    <2> QED BY <1>1, <1>2, <1>6, <2>2, StepOfOne DEF AsksDone, Goto, static, user, TypeOK
  <1>7. ASSUME NEW r \in Replies, Collect(r) PROVE Kept
    <2>1. InHand(r) BY <1>2
    <2>2. InHand(r)'
      BY <1>2, <1>7, <2>1, ToolSets
      DEF Collect, Goto, static, user, TypeOK, InHand, OfTheBatch, LeftToDo, Accounted, Open, Recorded
    <2> QED BY <1>1, <1>2, <1>7, <2>2, StepOfOne DEF Collect, Goto, static, user, TypeOK
  <1>8. ASSUME NEW r \in Replies, Poll(r) PROVE Kept
    <2>1. InHand(r) BY <1>2
    <2>2. InHand(r)'
      BY <1>2, <1>8, <2>1, ToolSets
      DEF Poll, Goto, static, user, TypeOK, InHand, OfTheBatch, LeftToDo, Accounted, Open, Recorded
    <2> QED BY <1>1, <1>2, <1>8, <2>2, StepOfOne DEF Poll, Goto, static, user, TypeOK
  <1>9. ASSUME NEW r \in Replies, Tick(r) PROVE Kept
    <2>1. InHand(r) BY <1>2
    <2>2. InHand(r)'
      BY <1>2, <1>9, <2>1, ToolSets
      DEF Tick, Goto, static, user, TypeOK, InHand, OfTheBatch, LeftToDo, Accounted, Open, Recorded
    <2> QED BY <1>1, <1>2, <1>9, <2>2, StepOfOne DEF Tick, Goto, static, user, TypeOK
  <1>10. ASSUME NEW r \in Replies, Pair(r) PROVE Kept
    <2>1. InHand(r) BY <1>2
    <2>2. InHand(r)'
      <3>1. /\ pc[r] = "pair" /\ pc'[r] = "idle" /\ futures'[r] = {}
            /\ paired' = paired \cup batch[r]
            /\ batch[r] \subseteq Ids
            /\ UNCHANGED <<mode, tool, denied, batch, toAsk, asking, responses, shown, cancelled>>
        BY <1>2, <1>10 DEF Pair, Goto, static, user, TypeOK
      <3>2. OfTheBatch(r)' BY <2>1, <3>1, ToolSets DEF InHand, OfTheBatch, Open
      <3>3. LeftToDo(r)' BY <2>1, <3>1, ToolSets DEF InHand, OfTheBatch, Open, LeftToDo
      <3>4. Accounted(r)' BY <2>1, <3>1, ToolSets DEF InHand, OfTheBatch, LeftToDo, Accounted, Open
      <3>5. Recorded(r)' BY <2>1, <3>1, ToolSets DEF InHand, OfTheBatch, LeftToDo, Accounted, Open, Recorded
      <3> QED BY <3>2, <3>3, <3>4, <3>5 DEF InHand
    <2> QED BY <1>1, <1>2, <1>10, <2>2, StepOfOne DEF Pair, Goto, static, user, TypeOK
  <1>11. ASSUME NEW r \in Replies, Cancel(r) PROVE Kept
    <2>1. InHand(r) BY <1>2
    <2>2. InHand(r)'
      BY <1>2, <1>11, <2>1, ToolSets
      DEF Cancel, Goto, static, user, TypeOK, InHand, OfTheBatch, LeftToDo, Accounted, Open, Recorded
    <2> QED BY <1>1, <1>2, <1>11, <2>2, StepOfOne DEF Cancel, Goto, static, user, TypeOK
  <1>12. ASSUME NEW r \in Replies, Drop(r) PROVE Kept
    <2>1. InHand(r) BY <1>2
    <2>2. InHand(r)'
      BY <1>2, <1>12, <2>1, ToolSets
      DEF Drop, ReleasedBy, Goto, static, user, TypeOK, InHand, OfTheBatch, LeftToDo, Accounted, Open, Recorded
    <2> QED BY <1>1, <1>2, <1>12, <2>2, StepOfOne DEF Drop, ReleasedBy, Goto, static, user, TypeOK
  <1>13. ASSUME NEW r \in Replies, NEW j \in Ids, Ask(r, j) PROVE Kept
    <2>1. InHand(r) BY <1>2
    <2>2. InHand(r)'
      BY <1>2, <1>13, <2>1, ToolSets
      DEF Ask, Goto, static, user, TypeOK, InHand, OfTheBatch, LeftToDo, Accounted, Open, Recorded
    <2> QED BY <1>1, <1>2, <1>13, <2>1, <2>2, StepOfOne DEF Ask, Goto, static, user, TypeOK, InHand, OfTheBatch, Open
  <1>14. ASSUME NEW r \in Replies, NEW j \in Ids, ToolEnds(r, j) PROVE Kept
    <2>1. InHand(r) BY <1>2
    <2>2. InHand(r)'
      <3>1. /\ pc[r] = "poll" /\ pc'[r] = "collect" /\ j \in futures[r]
            /\ futures'[r] = futures[r] \ {j}
            /\ responses'[j] = responses[j] + 1
            /\ \A i \in batch[r] \ {j} : responses'[i] = responses[i]
            /\ batch[r] \subseteq Ids
            /\ UNCHANGED <<mode, tool, denied, batch, toAsk, asking, shown, cancelled, paired>>
        BY <1>2, <1>14 DEF ToolEnds, Goto, static, user, TypeOK
      <3>2. OfTheBatch(r)' BY <2>1, <3>1, ToolSets DEF InHand, OfTheBatch, Open
      <3>3. LeftToDo(r)' BY <2>1, <3>1, ToolSets DEF InHand, OfTheBatch, Open, LeftToDo
      <3>4. Accounted(r)' BY <2>1, <3>1, ToolSets DEF InHand, OfTheBatch, LeftToDo, Accounted, Open
      <3>5. Recorded(r)' BY <2>1, <3>1, ToolSets DEF InHand, OfTheBatch, LeftToDo, Accounted, Open, Recorded
      <3> QED BY <3>2, <3>3, <3>4, <3>5 DEF InHand
    <2> QED BY <1>1, <1>2, <1>14, <2>1, <2>2, StepOfOne DEF ToolEnds, Goto, static, user, TypeOK, InHand, OfTheBatch, Open
  <1>15. ASSUME NEW r \in Replies, Allowed(r) PROVE Kept
    <2>1. InHand(r) BY <1>2
    <2>2. asking[r] \in Ids
      BY <1>2, <1>15, <2>1, ToolSets DEF Allowed, Heard, TypeOK, InHand, LeftToDo
    <2>3. InHand(r)'
      BY <1>2, <1>15, <2>1, <2>2, ToolSets
      DEF Allowed, Heard, Goto, static, user, TypeOK, InHand, OfTheBatch, LeftToDo, Accounted, Open, Recorded
    <2> QED BY <1>1, <1>2, <1>15, <2>1, <2>3, StepOfOne DEF Allowed, Heard, Goto, static, user, TypeOK, InHand, OfTheBatch, Open, LeftToDo
  <1>16. ASSUME NEW r \in Replies, Declined(r) PROVE Kept
    <2>1. InHand(r) BY <1>2
    <2>2. PICK j : j = asking[r] OBVIOUS
    <2>3. j \in Ids /\ j # None
      BY <1>2, <1>16, <2>1, <2>2, ToolSets DEF Declined, Heard, TypeOK, InHand, LeftToDo
    <2>4. InHand(r)'
      <3>1. /\ pc[r] = "wait" /\ pc'[r] = "ask" /\ asking'[r] = None
            /\ responses'[j] = responses[j] + 1
            /\ \A i \in batch[r] \ {j} : responses'[i] = responses[i]
            /\ batch[r] \subseteq Ids
            /\ UNCHANGED <<mode, tool, denied, batch, toAsk, futures, shown, cancelled, paired>>
        BY <1>2, <1>16, <2>2, <2>3 DEF Declined, Heard, Goto, static, user, TypeOK
      <3>2. OfTheBatch(r)' BY <2>1, <2>2, <2>3, <3>1, ToolSets DEF InHand, OfTheBatch, Open
      <3>3. LeftToDo(r)' BY <2>1, <2>2, <2>3, <3>1, ToolSets DEF InHand, OfTheBatch, Open, LeftToDo
      <3>4. Accounted(r)' BY <2>1, <2>2, <2>3, <3>1, ToolSets DEF InHand, OfTheBatch, LeftToDo, Accounted, Open
      <3>5. Recorded(r)' BY <2>1, <2>2, <2>3, <3>1, ToolSets DEF InHand, OfTheBatch, LeftToDo, Accounted, Open, Recorded
      <3> QED BY <3>2, <3>3, <3>4, <3>5 DEF InHand
    <2> QED BY <1>1, <1>2, <1>16, <2>1, <2>3, <2>4, StepOfOne DEF Declined, Heard, Goto, static, user, TypeOK, InHand, OfTheBatch, Open, LeftToDo
  <1>17. ASSUME NEW j \in Ids, NEW d \in Decisions, Answer(j, d) PROVE Kept
    BY <1>2, <1>17 DEF Answer, static, user, Apart, InHand, OfTheBatch, LeftToDo, Accounted, Open, Recorded
  <1>18. ASSUME UNCHANGED vars PROVE Kept
    BY <1>2, <1>18 DEF vars, Apart, InHand, OfTheBatch, LeftToDo, Accounted, Open, Recorded
  <1> QED
    BY <1>1, <1>3, <1>4, <1>5, <1>6, <1>7, <1>8, <1>9, <1>10, <1>11, <1>12, <1>13, <1>14, <1>15, <1>16, <1>17, <1>18 DEF Next, Step
-----------------------------------------------------------------------------
THEOREM Invariance == Spec => []IInv
PROOF
  <1>1. Init => IInv BY TypeInit, AllowInit DEF IInv
  <1>2. IInv /\ [Next]_vars => IInv' BY TypeStep, AllowStep DEF IInv
  <1> QED BY <1>1, <1>2, PTL DEF Spec

\* Every variable keeps its type, for any replies, calls, tools and modes
THEOREM TypeSafe == Spec => []TypeOK
PROOF
  <1>1. IInv => TypeOK BY DEF IInv
  <1> QED BY Invariance, <1>1, PTL

\* No tool runs that the inspectors did not approve and the user did not allow,
\* whatever is answered late, twice or to another reply's prompt, and whatever
\* is cancelled or dropped meanwhile
THEOREM OnlyAllowedRun == Spec => []RunsOnlyIfAllowed
PROOF
  <1>1. IInv => RunsOnlyIfAllowed BY DEF IInv
  <1> QED BY Invariance, <1>1, PTL

\* A call recorded in the conversation has one response, whatever the order in
\* which calls are asked about, dispatched, cancelled and dropped, in any number of
\* replies beside each other
THEOREM OneResponse == Spec => []OneResponseEach
PROOF
  <1>1. Init => RInv BY TypeInit, RecordInit DEF RInv
  <1>2. RInv /\ [Next]_vars => RInv' BY TypeStep, RecordStep DEF RInv
  <1>3. RInv => OneResponseEach BY DEF RInv, InHand, Recorded, OneResponseEach
  <1> QED BY <1>1, <1>2, <1>3, PTL DEF Spec
=============================================================================
