----------------------------- MODULE Elicitation ----------------------------
(***************************************************************************)
(* Questions that tools ask the user: crates/goose/src/                    *)
(* action_required_manager.rs, and agents/agent.rs where replies drain the *)
(* questions and take the answers.                                         *)
(*                                                                         *)
(* A question waits, with a time limit, for an answer under its id.  It    *)
(* goes to the user through one channel for all sessions, which every      *)
(* reply empties while its tools run and once more when they are done.     *)
(* A tool's call ends with its result, or when the client stops waiting    *)
(* for it (mcp_client.rs): what the server asks does not end with it.      *)
(***************************************************************************)
EXTENDS Naturals, Sequences

CONSTANTS
  Questions,  \* ids, each drawn once
  Replies,    \* replies that run tools, each of a session of its own
  Answers,    \* calls that bring an answer
  None

ASSUME Distinct == None \notin Questions \cup Replies \cup Answers

VARIABLES
  asked,      \* how far each question is
  home,       \* the reply that was not over when its tool asked it, as long as it is
              \* in the channel (no action reads it)
  pending,    \* the map of requests
  unanswered, \* those whose response_tx was not taken
  box,        \* the oneshot channel of each
  got,        \* what the question's wait ended with
  channel,    \* request_tx and request_rx
  rx,         \* the reply that holds request_rx
  reply,      \* where each reply is
  tool,       \* whether its tools still run
  cancelled,  \* those whose token is cancelled
  batch,      \* what it has taken from the channel
  shown,      \* questions a user has seen
  bring       \* where each answer is, and to which question

questionVars == <<asked, home, pending, got>>
answerVars == <<unanswered, box, bring>>
replyVars == <<rx, reply, tool, cancelled, batch, shown>>
vars == <<questionVars, answerVars, replyVars, channel>>

Idle == [at |-> "idle", to |-> None]

Init ==
  /\ asked = [q \in Questions |-> "no"]
  /\ home = [q \in Questions |-> None]
  /\ pending = {} /\ unanswered = {}
  /\ box = [q \in Questions |-> None] /\ got = [q \in Questions |-> None]
  /\ channel = <<>>
  /\ rx = None
  /\ reply = [r \in Replies |-> "drain"]
  /\ tool = [r \in Replies |-> "runs"]
  /\ cancelled = {}
  /\ batch = [r \in Replies |-> {}]
  /\ shown = {}
  /\ bring = [a \in Answers |-> Idle]

-----------------------------------------------------------------------------
\* request_and_wait

\* a server asks on account of a tool's call, which may have ended for the client
\* by its time limit or a cancellation; no one knows the id before it is sent
Ask(q, r) ==
  /\ asked[q] = "no"
  /\ asked' = [asked EXCEPT ![q] = "waiting"]
  /\ home' = [home EXCEPT ![q] = IF reply[r] = "over" THEN None ELSE r]
  /\ pending' = pending \cup {q}
  /\ unanswered' = unanswered \cup {q}
  /\ channel' = Append(channel, q)
  /\ UNCHANGED <<got, box, bring, replyVars>>

\* an answer that has come is taken, whether or not the time is over
Receive(q) ==
  /\ asked[q] = "waiting" /\ box[q] # None
  /\ asked' = [asked EXCEPT ![q] = "ended"]
  /\ got' = [got EXCEPT ![q] = box[q]]
  /\ UNCHANGED <<home, pending, answerVars, replyVars, channel>>

MayGiveUpAnyway(q) == TRUE
MayGiveUp(q) == box[q] = None

\* five minutes are over
Timeout(q) ==
  /\ asked[q] = "waiting" /\ MayGiveUp(q)
  /\ asked' = [asked EXCEPT ![q] = "ended"]
  /\ UNCHANGED <<home, pending, got, answerVars, replyVars, channel>>

Remove(q) ==
  /\ asked[q] = "ended"
  /\ pending' = pending \ {q}
  /\ asked' = [asked EXCEPT ![q] = "done"]
  /\ UNCHANGED <<home, got, answerVars, replyVars, channel>>

-----------------------------------------------------------------------------
\* submit_response, called by a reply to a message that brings an answer

\* the client answers what it was shown, perhaps again, perhaps too late
Find(a, q) ==
  /\ bring[a] = Idle /\ q \in shown
  /\ q \in pending
  /\ bring' = [bring EXCEPT ![a] = [at |-> "found", to |-> q]]
  /\ UNCHANGED <<unanswered, box, questionVars, replyVars, channel>>

\* the first answer takes the sender, which the one who waits may have left
Deliver(a) ==
  /\ bring[a].at = "found"
  /\ LET q == bring[a].to
     IN  /\ unanswered' = unanswered \ {q}
         /\ box' = IF q \in unanswered /\ asked[q] = "waiting" THEN [box EXCEPT ![q] = a] ELSE box
  /\ bring' = [bring EXCEPT ![a].at = "accepted"]
  /\ UNCHANGED <<questionVars, replyVars, channel>>

\* its message is stored, and its reply ends
Store(a) ==
  /\ bring[a].at = "accepted"
  /\ bring' = [bring EXCEPT ![a] = Idle]
  /\ UNCHANGED <<unanswered, box, questionVars, replyVars, channel>>

-----------------------------------------------------------------------------
\* the loop of a reply over its running tools

Take(r) ==
  /\ reply[r] \in {"drain", "last"} /\ rx \in {None, r}
  /\ channel # <<>>
  /\ rx' = r
  /\ batch' = [batch EXCEPT ![r] = @ \cup {Head(channel)}]
  /\ channel' = Tail(channel)
  /\ home' = [home EXCEPT ![Head(channel)] = None]
  /\ UNCHANGED <<reply, tool, cancelled, shown, asked, pending, got, answerVars>>

\* the channel is empty: what was taken goes to the user
Show(r) ==
  /\ reply[r] \in {"drain", "last"} /\ rx \in {None, r}
  /\ channel = <<>>
  /\ rx' = None
  /\ shown' = shown \cup batch[r]
  /\ batch' = [batch EXCEPT ![r] = {}]
  /\ reply' = [reply EXCEPT ![r] = IF @ = "drain" THEN "poll" ELSE "over"]
  /\ UNCHANGED <<tool, cancelled, channel, questionVars, answerVars>>

AtEndWithout(r) == "over"
AtEnd(r) == "last"

\* a result, a tenth of a second, the end of the tools, or a cancellation
Poll(r) ==
  /\ reply[r] = "poll"
  /\ reply' = [reply EXCEPT ![r] = IF r \in cancelled \/ tool[r] = "ended" THEN AtEnd(r) ELSE "drain"]
  /\ UNCHANGED <<rx, tool, cancelled, batch, shown, channel, questionVars, answerVars>>

\* every call has its result or is given up by the client, on its time limit or
\* the reply's cancellation; questions may be open, and more may come
ToolsEnd(r) ==
  /\ reply[r] # "over" /\ tool[r] = "runs"
  /\ tool' = [tool EXCEPT ![r] = "ended"]
  /\ UNCHANGED <<rx, reply, cancelled, batch, shown, channel, questionVars, answerVars>>

Cancel(r) ==
  /\ reply[r] # "over" /\ r \notin cancelled
  /\ cancelled' = cancelled \cup {r}
  /\ UNCHANGED <<rx, reply, tool, batch, shown, channel, questionVars, answerVars>>

ReleasedNever(r) == rx
Released(r) == IF rx = r THEN None ELSE rx

\* the stream is dropped: what was taken from the channel is lost
Drop(r) ==
  /\ reply[r] # "over"
  /\ reply' = [reply EXCEPT ![r] = "over"]
  /\ cancelled' = cancelled \cup {r}
  /\ rx' = Released(r)
  /\ batch' = [batch EXCEPT ![r] = {}]
  /\ UNCHANGED <<tool, shown, channel, questionVars, answerVars>>

-----------------------------------------------------------------------------
Wait(q) == Receive(q) \/ Timeout(q) \/ Remove(q)
Drain(r) == Take(r) \/ Show(r)

Next ==
  \/ \E q \in Questions : Wait(q) \/ \E r \in Replies : Ask(q, r)
  \/ \E a \in Answers : Deliver(a) \/ Store(a) \/ \E q \in Questions : Find(a, q)
  \/ \E r \in Replies : Drain(r) \/ Poll(r) \/ ToolsEnd(r) \/ Cancel(r) \/ Drop(r)

\* A wait has a timer, and the lock of the receiver is a fair queue.
Fairness ==
  /\ \A q \in Questions : WF_vars(Wait(q))
  /\ \A r \in Replies : SF_vars(Drain(r)) /\ WF_vars(Poll(r))

Spec == Init /\ [][Next]_vars /\ Fairness

-----------------------------------------------------------------------------
\* Every variable holds a value of its type, a question is in the map exactly
\* while it is open, and only a reply that drains holds the receiver.
TypeOK ==
  /\ asked \in [Questions -> {"no", "waiting", "ended", "done"}]
  /\ home \in [Questions -> Replies \cup {None}]
  /\ pending = {q \in Questions : asked[q] \in {"waiting", "ended"}}
  /\ unanswered \subseteq Questions
  /\ box \in [Questions -> Answers \cup {None}] /\ got \in [Questions -> Answers \cup {None}]
  /\ channel \in Seq(Questions)
  /\ rx \in Replies \cup {None} /\ (rx # None => reply[rx] \in {"drain", "last"})
  /\ reply \in [Replies -> {"drain", "poll", "last", "over"}]
  /\ tool \in [Replies -> {"runs", "ended"}]
  /\ cancelled \subseteq Replies
  /\ batch \in [Replies -> SUBSET Questions]
  /\ shown \subseteq Questions
  /\ bring \in [Answers -> [at : {"idle", "found", "accepted"}, to : Questions \cup {None}]]

\* An answer that submit_response accepts reaches the tool that asked, unless
\* another answer came first or the wait was over; and no wait that was given
\* an answer ends with another, or with the time limit.
Delivered ==
  /\ \A a \in Answers : bring[a].at = "accepted" =>
       box[bring[a].to] # None \/ asked[bring[a].to] \in {"ended", "done"}
  /\ \A q \in Questions : asked[q] \in {"ended", "done"} => got[q] = box[q]

\* A reply that ends by itself leaves no question of its tools in the channel but
\* those asked after it was over, although every reply takes the questions of all
\* and its calls may end with questions open: what else is left there is of
\* replies that run, were cancelled or dropped.
NoneLeftBehind ==
  \A i \in 1..Len(channel) :
    LET r == home[channel[i]] IN r = None \/ reply[r] # "over" \/ r \in cancelled

\* No question is open for ever, and no reply hangs over the channel, even if
\* another is dropped while it holds the receiver.
NothingHangs ==
  /\ \A q \in Questions : asked[q] = "waiting" ~> asked[q] = "done"
  /\ \A r \in Replies : reply[r] \in {"drain", "last"} ~> reply[r] \in {"poll", "over"}
=============================================================================
