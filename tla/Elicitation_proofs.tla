------------------------ MODULE Elicitation_proofs ------------------------
(***************************************************************************)
(* Proofs about the questions tools ask: the type invariant, that accepted *)
(* answers are delivered, and that a reply leaves no question asked before *)
(* it was over in the channel.                                             *)
(***************************************************************************)
EXTENDS Elicitation, SequenceTheorems, TLAPS

\* A wait in progress has its sender, or was answered, and has not returned.
Taken ==
  \A q \in Questions :
    /\ asked[q] = "waiting" => q \in unanswered \/ box[q] # None
    /\ asked[q] \in {"no", "waiting"} => got[q] = None

\* Answers are on their way to questions that were asked.
Known == \A a \in Answers : bring[a].at # "idle" => bring[a].to \in Questions /\ asked[bring[a].to] # "no"

Answering == Taken /\ Known /\ Delivered

-----------------------------------------------------------------------------
\* Every action preserves the types.
LEMMA TypeStep ==
  ASSUME TypeOK, [Next]_vars
  PROVE  TypeOK'
  <1> USE Distinct DEF TypeOK
  <1>1. ASSUME NEW q \in Questions, Receive(q)
        PROVE  TypeOK'
    BY <1>1 DEF Receive, questionVars, answerVars, replyVars
  <1>2. ASSUME NEW q \in Questions, Timeout(q)
        PROVE  TypeOK'
    BY <1>2 DEF Timeout, MayGiveUp, questionVars, answerVars, replyVars
  <1>3. ASSUME NEW q \in Questions, Remove(q)
        PROVE  TypeOK'
    BY <1>3 DEF Remove, questionVars, answerVars, replyVars
  <1>4. ASSUME NEW q \in Questions, NEW r \in Replies, Ask(q, r)
        PROVE  TypeOK'
    BY <1>4 DEF Ask, questionVars, answerVars, replyVars
  <1>5. ASSUME NEW a \in Answers, NEW q \in Questions, Find(a, q)
        PROVE  TypeOK'
    BY <1>5 DEF Find, Idle, questionVars, answerVars, replyVars
  <1>6. ASSUME NEW a \in Answers, Deliver(a)
        PROVE  TypeOK'
    BY <1>6 DEF Deliver, questionVars, answerVars, replyVars
  <1>7. ASSUME NEW a \in Answers, Store(a)
        PROVE  TypeOK'
    BY <1>7 DEF Store, Idle, questionVars, answerVars, replyVars
  <1>8. ASSUME NEW r \in Replies, Take(r)
        PROVE  TypeOK'
    BY <1>8 DEF Take, questionVars, answerVars, replyVars
  <1>9. ASSUME NEW r \in Replies, Show(r)
        PROVE  TypeOK'
    BY <1>9 DEF Show, questionVars, answerVars, replyVars
  <1>10. ASSUME NEW r \in Replies, Poll(r)
        PROVE  TypeOK'
    BY <1>10 DEF Poll, AtEnd, questionVars, answerVars, replyVars
  <1>11. ASSUME NEW r \in Replies, ToolsEnd(r)
        PROVE  TypeOK'
    BY <1>11 DEF ToolsEnd, questionVars, answerVars, replyVars
  <1>12. ASSUME NEW r \in Replies, Cancel(r)
        PROVE  TypeOK'
    BY <1>12 DEF Cancel, questionVars, answerVars, replyVars
  <1>13. ASSUME NEW r \in Replies, Drop(r)
        PROVE  TypeOK'
    BY <1>13 DEF Drop, Released, questionVars, answerVars, replyVars
  <1>20. CASE UNCHANGED vars
    BY <1>20 DEF vars, questionVars, answerVars, replyVars
  <1>. QED
    BY <1>1, <1>2, <1>3, <1>4, <1>5, <1>6, <1>7, <1>8, <1>9, <1>10, <1>11, <1>12, <1>13, <1>20 DEF Next, Wait, Drain

\* Every action preserves the delivery of answers.
LEMMA AnsweringStep ==
  ASSUME TypeOK, Answering, [Next]_vars
  PROVE  Answering'
  <1> USE Distinct DEF TypeOK, Answering
  <1>1. ASSUME NEW q \in Questions, Receive(q)
        PROVE  Answering'
    <2>1. Taken'
      BY <1>1 DEF Receive, questionVars, answerVars, replyVars, Taken, Known, Delivered
    <2>2. Known'
      BY <1>1 DEF Receive, questionVars, answerVars, replyVars, Taken, Known, Delivered
    <2>3. Delivered'
      BY <1>1 DEF Receive, questionVars, answerVars, replyVars, Taken, Known, Delivered
    <2>. QED BY <2>1, <2>2, <2>3 DEF Answering
  <1>2. ASSUME NEW q \in Questions, Timeout(q)
        PROVE  Answering'
    <2>1. Taken'
      BY <1>2 DEF Timeout, MayGiveUp, questionVars, answerVars, replyVars, Taken, Known, Delivered
    <2>2. Known'
      BY <1>2 DEF Timeout, MayGiveUp, questionVars, answerVars, replyVars, Taken, Known, Delivered
    <2>3. Delivered'
      BY <1>2 DEF Timeout, MayGiveUp, questionVars, answerVars, replyVars, Taken, Known, Delivered
    <2>. QED BY <2>1, <2>2, <2>3 DEF Answering
  <1>3. ASSUME NEW q \in Questions, Remove(q)
        PROVE  Answering'
    <2>1. Taken'
      BY <1>3 DEF Remove, questionVars, answerVars, replyVars, Taken, Known, Delivered
    <2>2. Known'
      BY <1>3 DEF Remove, questionVars, answerVars, replyVars, Taken, Known, Delivered
    <2>3. Delivered'
      BY <1>3 DEF Remove, questionVars, answerVars, replyVars, Taken, Known, Delivered
    <2>. QED BY <2>1, <2>2, <2>3 DEF Answering
  <1>4. ASSUME NEW q \in Questions, NEW r \in Replies, Ask(q, r)
        PROVE  Answering'
    <2>1. Taken'
      BY <1>4 DEF Ask, questionVars, answerVars, replyVars, Taken, Known, Delivered
    <2>2. Known'
      BY <1>4 DEF Ask, questionVars, answerVars, replyVars, Taken, Known, Delivered
    <2>3. Delivered'
      BY <1>4 DEF Ask, questionVars, answerVars, replyVars, Taken, Known, Delivered
    <2>. QED BY <2>1, <2>2, <2>3 DEF Answering
  <1>5. ASSUME NEW a \in Answers, NEW q \in Questions, Find(a, q)
        PROVE  Answering'
    <2>1. Taken'
      BY <1>5 DEF Find, Idle, questionVars, answerVars, replyVars, Taken, Known, Delivered
    <2>2. Known'
      BY <1>5 DEF Find, Idle, questionVars, answerVars, replyVars, Taken, Known, Delivered
    <2>3. Delivered'
      BY <1>5 DEF Find, Idle, questionVars, answerVars, replyVars, Taken, Known, Delivered
    <2>. QED BY <2>1, <2>2, <2>3 DEF Answering
  <1>6. ASSUME NEW a \in Answers, Deliver(a)
        PROVE  Answering'
    <2>1. Taken'
      BY <1>6 DEF Deliver, questionVars, answerVars, replyVars, Taken, Known, Delivered
    <2>2. Known'
      BY <1>6 DEF Deliver, questionVars, answerVars, replyVars, Taken, Known, Delivered
    <2>3. Delivered'
      BY <1>6 DEF Deliver, questionVars, answerVars, replyVars, Taken, Known, Delivered
    <2>. QED BY <2>1, <2>2, <2>3 DEF Answering
  <1>7. ASSUME NEW a \in Answers, Store(a)
        PROVE  Answering'
    <2>1. Taken'
      BY <1>7 DEF Store, Idle, questionVars, answerVars, replyVars, Taken, Known, Delivered
    <2>2. Known'
      BY <1>7 DEF Store, Idle, questionVars, answerVars, replyVars, Taken, Known, Delivered
    <2>3. Delivered'
      BY <1>7 DEF Store, Idle, questionVars, answerVars, replyVars, Taken, Known, Delivered
    <2>. QED BY <2>1, <2>2, <2>3 DEF Answering
  <1>8. ASSUME NEW r \in Replies, Take(r)
        PROVE  Answering'
    <2>1. Taken'
      BY <1>8 DEF Take, questionVars, answerVars, replyVars, Taken, Known, Delivered
    <2>2. Known'
      BY <1>8 DEF Take, questionVars, answerVars, replyVars, Taken, Known, Delivered
    <2>3. Delivered'
      BY <1>8 DEF Take, questionVars, answerVars, replyVars, Taken, Known, Delivered
    <2>. QED BY <2>1, <2>2, <2>3 DEF Answering
  <1>9. ASSUME NEW r \in Replies, Show(r)
        PROVE  Answering'
    <2>1. Taken'
      BY <1>9 DEF Show, questionVars, answerVars, replyVars, Taken, Known, Delivered
    <2>2. Known'
      BY <1>9 DEF Show, questionVars, answerVars, replyVars, Taken, Known, Delivered
    <2>3. Delivered'
      BY <1>9 DEF Show, questionVars, answerVars, replyVars, Taken, Known, Delivered
    <2>. QED BY <2>1, <2>2, <2>3 DEF Answering
  <1>10. ASSUME NEW r \in Replies, Poll(r)
        PROVE  Answering'
    <2>1. Taken'
      BY <1>10 DEF Poll, AtEnd, questionVars, answerVars, replyVars, Taken, Known, Delivered
    <2>2. Known'
      BY <1>10 DEF Poll, AtEnd, questionVars, answerVars, replyVars, Taken, Known, Delivered
    <2>3. Delivered'
      BY <1>10 DEF Poll, AtEnd, questionVars, answerVars, replyVars, Taken, Known, Delivered
    <2>. QED BY <2>1, <2>2, <2>3 DEF Answering
  <1>11. ASSUME NEW r \in Replies, ToolsEnd(r)
        PROVE  Answering'
    <2>1. Taken'
      BY <1>11 DEF ToolsEnd, questionVars, answerVars, replyVars, Taken, Known, Delivered
    <2>2. Known'
      BY <1>11 DEF ToolsEnd, questionVars, answerVars, replyVars, Taken, Known, Delivered
    <2>3. Delivered'
      BY <1>11 DEF ToolsEnd, questionVars, answerVars, replyVars, Taken, Known, Delivered
    <2>. QED BY <2>1, <2>2, <2>3 DEF Answering
  <1>12. ASSUME NEW r \in Replies, Cancel(r)
        PROVE  Answering'
    <2>1. Taken'
      BY <1>12 DEF Cancel, questionVars, answerVars, replyVars, Taken, Known, Delivered
    <2>2. Known'
      BY <1>12 DEF Cancel, questionVars, answerVars, replyVars, Taken, Known, Delivered
    <2>3. Delivered'
      BY <1>12 DEF Cancel, questionVars, answerVars, replyVars, Taken, Known, Delivered
    <2>. QED BY <2>1, <2>2, <2>3 DEF Answering
  <1>13. ASSUME NEW r \in Replies, Drop(r)
        PROVE  Answering'
    <2>1. Taken'
      BY <1>13 DEF Drop, Released, questionVars, answerVars, replyVars, Taken, Known, Delivered
    <2>2. Known'
      BY <1>13 DEF Drop, Released, questionVars, answerVars, replyVars, Taken, Known, Delivered
    <2>3. Delivered'
      BY <1>13 DEF Drop, Released, questionVars, answerVars, replyVars, Taken, Known, Delivered
    <2>. QED BY <2>1, <2>2, <2>3 DEF Answering
  <1>20. CASE UNCHANGED vars
    BY <1>20 DEF vars, questionVars, answerVars, replyVars, Taken, Known, Delivered
  <1>. QED
    BY <1>1, <1>2, <1>3, <1>4, <1>5, <1>6, <1>7, <1>8, <1>9, <1>10, <1>11, <1>12, <1>13, <1>20 DEF Next, Wait, Drain

\* Every action preserves what replies leave in the channel: the last drain of a
\* reply finds it empty, and what is asked later is asked of no reply.
LEMMA LeavingStep ==
  ASSUME TypeOK, NoneLeftBehind, [Next]_vars
  PROVE  NoneLeftBehind'
  <1> USE Distinct DEF TypeOK, NoneLeftBehind
  <1>1. ASSUME NEW q \in Questions, Receive(q)
        PROVE  NoneLeftBehind'
    BY <1>1 DEF Receive, questionVars, answerVars, replyVars
  <1>2. ASSUME NEW q \in Questions, Timeout(q)
        PROVE  NoneLeftBehind'
    BY <1>2 DEF Timeout, MayGiveUp, questionVars, answerVars, replyVars
  <1>3. ASSUME NEW q \in Questions, Remove(q)
        PROVE  NoneLeftBehind'
    BY <1>3 DEF Remove, questionVars, answerVars, replyVars
  <1>4. ASSUME NEW q \in Questions, NEW r \in Replies, Ask(q, r)
        PROVE  NoneLeftBehind'
    BY <1>4 DEF Ask, questionVars, answerVars, replyVars
  <1>5. ASSUME NEW a \in Answers, NEW q \in Questions, Find(a, q)
        PROVE  NoneLeftBehind'
    BY <1>5 DEF Find, questionVars, answerVars, replyVars
  <1>6. ASSUME NEW a \in Answers, Deliver(a)
        PROVE  NoneLeftBehind'
    BY <1>6 DEF Deliver, questionVars, answerVars, replyVars
  <1>7. ASSUME NEW a \in Answers, Store(a)
        PROVE  NoneLeftBehind'
    BY <1>7 DEF Store, questionVars, answerVars, replyVars
  <1>8. ASSUME NEW r \in Replies, Take(r)
        PROVE  NoneLeftBehind'
    BY <1>8 DEF Take, questionVars, answerVars, replyVars
  <1>9. ASSUME NEW r \in Replies, Show(r)
        PROVE  NoneLeftBehind'
    BY <1>9 DEF Show, questionVars, answerVars, replyVars
  <1>10. ASSUME NEW r \in Replies, Poll(r)
        PROVE  NoneLeftBehind'
    BY <1>10 DEF Poll, AtEnd, questionVars, answerVars, replyVars
  <1>11. ASSUME NEW r \in Replies, ToolsEnd(r)
        PROVE  NoneLeftBehind'
    BY <1>11 DEF ToolsEnd, questionVars, answerVars, replyVars
  <1>12. ASSUME NEW r \in Replies, Cancel(r)
        PROVE  NoneLeftBehind'
    BY <1>12 DEF Cancel, questionVars, answerVars, replyVars
  <1>13. ASSUME NEW r \in Replies, Drop(r)
        PROVE  NoneLeftBehind'
    BY <1>13 DEF Drop, Released, questionVars, answerVars, replyVars
  <1>20. CASE UNCHANGED vars
    BY <1>20 DEF vars, questionVars, answerVars, replyVars
  <1>. QED
    BY <1>1, <1>2, <1>3, <1>4, <1>5, <1>6, <1>7, <1>8, <1>9, <1>10, <1>11, <1>12, <1>13, <1>20 DEF Next, Wait, Drain

\* For any questions, replies and answers every variable keeps its type, the map
\* holds the open questions, and only a reply that drains holds the receiver.
THEOREM TypeSafe == Spec => []TypeOK
  <1>1. Init => TypeOK
    BY Distinct DEF Init, TypeOK, Idle
  <1>2. TypeOK /\ [Next]_vars => TypeOK'
    BY TypeStep
  <1>. QED
    BY <1>1, <1>2, PTL DEF Spec

\* For any questions, replies and answers, what submit_response accepts reaches
\* the tool that asked, unless another answer came first or the wait was over.
THEOREM AnswersDelivered == Spec => []Delivered
  <1>1. Init => Answering
    BY Distinct DEF Init, Idle, Answering, Taken, Known, Delivered
  <1>2. TypeOK /\ Answering /\ [Next]_vars => Answering'
    BY AnsweringStep
  <1>3. Answering => Delivered
    BY DEF Answering
  <1>. QED
    BY <1>1, <1>2, <1>3, TypeSafe, PTL DEF Spec

\* For any questions and replies, a reply that ends by itself leaves no question
\* of its tools in the channel it shares with all others, but those asked after it
\* was over.
THEOREM NoQuestionLeft == Spec => []NoneLeftBehind
  <1>1. Init => NoneLeftBehind
    BY Distinct DEF Init, NoneLeftBehind
  <1>2. TypeOK /\ NoneLeftBehind /\ [Next]_vars => NoneLeftBehind'
    BY LeavingStep
  <1>. QED
    BY <1>1, <1>2, TypeSafe, PTL DEF Spec
=============================================================================
