---------------------------- MODULE ToolApproval ----------------------------
(***************************************************************************)
(* The tool calls of one model response, from the inspectors to the        *)
(* results: crates/goose/src/agents/tool_execution.rs, the tool part of    *)
(* reply_internal in agents/agent.rs, tool_inspection.rs and               *)
(* permission/permission_inspector.rs.                                     *)
(*                                                                         *)
(* An agent has one channel of confirmations.  A reply shows a prompt,     *)
(* takes the receiver's lock and reads until it finds its own call's id,   *)
(* dropping every other answer.  Several replies may be in progress on one *)
(* agent; each can be cancelled by its token, or dropped by its consumer   *)
(* at any await.  Answers may come late, or twice.                         *)
(***************************************************************************)
EXTENDS Naturals, Sequences, FiniteSets

CONSTANTS
  Replies,        \* replies of the agent
  Ids,            \* ids of tool calls, numbers handed out in order
  Tools,
  Dangerous,      \* tools whose name is_dangerous_tool matches
  ReadOnly,       \* the inspector's readonly_tools
  Eager,          \* tools executed by dispatch_tool_call itself: schedule, final output
  Unparsable,     \* stands for calls whose arguments could not be parsed
  Modes,          \* goose modes
  OtherVerdicts,  \* what the inspectors beside "permission" may say
  InitLevels,     \* stored user permissions to start from
  Capacity,       \* of the channel (32 in Agent::with_config)
  MaxBatch,       \* bound on the calls of one response
  MaxRepeats,     \* bound on answers to calls already answered
  None

ASSUME ToolSets ==
  /\ Ids \subseteq Nat
  /\ Dangerous \cup ReadOnly \cup Eager \cup Unparsable \subseteq Tools
  /\ None \notin Tools \cup Replies \cup Ids
  /\ Capacity \in Nat \ {0} /\ MaxBatch \in Nat /\ MaxRepeats \in Nat

Levels == {"Unset", "AlwaysAllow", "AskBefore", "NeverAllow"}
Allows == {"AllowOnce", "AlwaysAllow"}
Declines == {"DenyOnce", "AlwaysDeny"}
Decisions == Allows \cup Declines

ASSUME Settings ==
  /\ Modes \subseteq {"Auto", "Approve", "Chat"}
  /\ OtherVerdicts \subseteq {"Allow", "Ask", "Deny"}
  /\ InitLevels \subseteq [Tools -> Levels]

VARIABLES
  mode,       \* goose_mode
  level,      \* PermissionManager: the user's permission for each tool
  tool,       \* tool of each call made, None before
  approved,   \* calls the inspectors approved
  denied,     \* calls the inspectors denied
  pc,         \* where each reply is
  batch,      \* the calls of the response each reply works on
  toAsk,      \* needs_approval: those still to be asked about
  asking,     \* the call the reply asks about
  futures,    \* tool_futures: dispatched calls without a result
  responses,  \* number of tool responses in each call's response message
  holder,     \* the reply that holds confirmation_rx, or None
  channel,    \* confirmations sent and not received
  shown,      \* calls the user was asked about
  sent,       \* what the user answered for each call
  repeats,    \* answers to calls already answered
  ran,        \* calls whose tool was started
  paired,     \* calls recorded with their response message
  cancelled   \* replies whose token is cancelled

vars == <<mode, level, tool, approved, denied, pc, batch, toAsk, asking, futures, responses,
          holder, channel, shown, sent, repeats, ran, paired, cancelled>>

static == <<mode, tool, approved, denied, batch>>
user == <<shown, sent, repeats>>

Goto(r, place) == pc' = [pc EXCEPT ![r] = place]

Init ==
  /\ mode \in Modes
  /\ level \in InitLevels
  /\ tool = [i \in Ids |-> None]
  /\ approved = {} /\ denied = {}
  /\ pc = [r \in Replies |-> "idle"]
  /\ batch = [r \in Replies |-> {}]
  /\ toAsk = [r \in Replies |-> {}]
  /\ asking = [r \in Replies |-> None]
  /\ futures = [r \in Replies |-> {}]
  /\ responses = [i \in Ids |-> 0]
  /\ holder = None
  /\ channel = <<>>
  /\ shown = {}
  /\ sent = [i \in Ids |-> {}]
  /\ repeats = 0
  /\ ran = {} /\ paired = {}
  /\ cancelled = {}
-----------------------------------------------------------------------------
(***************************************************************************)
(* Inspection.  The permission inspector decides first; the others can     *)
(* only add.  "Ask" takes a call from the approved ones and leaves a       *)
(* denied one denied: it is then both denied and to be asked about.        *)
(***************************************************************************)
PermissionVerdict(t) ==
  IF mode = "Auto"
  THEN IF t \in Dangerous THEN "Ask" ELSE "Allow"
  ELSE CASE level[t] = "AlwaysAllow" -> "Allow"
         [] level[t] = "NeverAllow" -> "Deny"
         [] level[t] = "AskBefore" -> "Ask"
         [] level[t] = "Unset" -> IF t \in ReadOnly THEN "Allow" ELSE "Ask"

\* Fault: the other inspectors are not heard about what is approved
OverheardApproved(t, other) == t \notin Unparsable /\ PermissionVerdict(t) = "Allow"

Approved(t, other) ==
  t \notin Unparsable /\ PermissionVerdict(t) = "Allow" /\ other = "Allow"

Denied(t, other) ==
  t \notin Unparsable /\ (PermissionVerdict(t) = "Deny" \/ other = "Deny")

NeedsApproval(t, other) ==
  /\ t \notin Unparsable
  /\ other # "Deny"
  /\ PermissionVerdict(t) = "Ask" \/ other = "Ask"

\* In chat mode no call is inspected and each gets a response
Skip(r, new) ==
  /\ responses' = [i \in Ids |-> IF i \in new THEN 1 ELSE responses[i]]
  /\ Goto(r, "pair")
  /\ UNCHANGED <<approved, denied, toAsk, futures, ran>>

\* inspect_tools and handle_approved_and_denied_tools: approved calls are
\* dispatched, which starts only the eager ones; denied calls get the declined
\* response
Sort(r, new, t, other) ==
  LET ok == {i \in new : Approved(t[i], other[i])}
      no == {i \in new : Denied(t[i], other[i])}
  IN /\ approved' = approved \cup ok
     /\ denied' = denied \cup no
     /\ toAsk' = [toAsk EXCEPT ![r] = {i \in new : NeedsApproval(t[i], other[i])}]
     /\ futures' = [futures EXCEPT ![r] = ok]
     /\ ran' = ran \cup {i \in ok : t[i] \in Eager}
     /\ responses' = [i \in Ids |-> IF i \in no THEN 1 ELSE responses[i]]
     /\ Goto(r, "ask")

\* A response with tool calls has come
Inspect(r) ==
  /\ pc[r] = "idle" /\ r \notin cancelled
  /\ \E new \in SUBSET {i \in Ids : tool[i] = None} :
     \E t \in [new -> Tools], other \in [new -> OtherVerdicts] :
       /\ new # {} /\ Cardinality(new) <= MaxBatch
       /\ \A i \in new, j \in Ids \ new : tool[j] = None => i < j
       /\ tool' = [i \in Ids |-> IF i \in new THEN t[i] ELSE tool[i]]
       /\ batch' = [batch EXCEPT ![r] = new]
       /\ IF mode = "Chat" THEN Skip(r, new) ELSE Sort(r, new, t, other)
  /\ UNCHANGED <<mode, level, asking, holder, channel, shown, sent, repeats, paired, cancelled>>
-----------------------------------------------------------------------------
\* handle_approval_tool_requests, one call after the other (in any order)
Ask(r, i) ==
  /\ pc[r] = "ask" /\ i \in toAsk[r]
  /\ toAsk' = [toAsk EXCEPT ![r] = @ \ {i}]
  /\ asking' = [asking EXCEPT ![r] = i]
  /\ shown' = shown \cup {i}
  /\ Goto(r, "lock")
  /\ UNCHANGED <<static, level, futures, responses, holder, channel, sent, repeats, ran, paired,
                 cancelled>>

Lock(r) ==
  /\ pc[r] = "lock" /\ holder = None
  /\ holder' = r
  /\ Goto(r, "wait")
  /\ UNCHANGED <<static, level, toAsk, asking, futures, responses, channel, user, ran, paired,
                 cancelled>>

\* Fault: the first answer received is taken, whatever call it is about
AnyAnswer(answer, i) == TRUE

Matches(answer, i) == answer.id = i

\* An answer about another call is lost
Discard(r) ==
  /\ pc[r] = "wait" /\ channel # <<>> /\ ~Matches(Head(channel), asking[r])
  /\ channel' = Tail(channel)
  /\ UNCHANGED <<static, level, pc, toAsk, asking, futures, responses, holder, user, ran, paired,
                 cancelled>>

Heard(r, decisions) ==
  /\ pc[r] = "wait" /\ channel # <<>> /\ Matches(Head(channel), asking[r])
  /\ Head(channel).decision \in decisions
  /\ channel' = Tail(channel)
  /\ holder' = None
  /\ asking' = [asking EXCEPT ![r] = None]
  /\ Goto(r, "ask")

SetLevel(r, always, l) ==
  level' = IF Head(channel).decision = always
           THEN [level EXCEPT ![tool[asking[r]]] = l] ELSE level

\* dispatch_tool_call comes before update_permission_manager
Allowed(r) ==
  /\ Heard(r, Allows)
  /\ futures' = [futures EXCEPT ![r] = @ \cup {asking[r]}]
  /\ ran' = IF tool[asking[r]] \in Eager THEN ran \cup {asking[r]} ELSE ran
  /\ SetLevel(r, "AlwaysAllow", "AlwaysAllow")
  /\ UNCHANGED <<static, toAsk, responses, user, paired, cancelled>>

Declined(r) ==
  /\ Heard(r, Declines)
  /\ responses' = [responses EXCEPT ![asking[r]] = @ + 1]
  /\ SetLevel(r, "AlwaysDeny", "NeverAllow")
  /\ UNCHANGED <<static, toAsk, futures, user, ran, paired, cancelled>>

AsksDone(r) ==
  /\ pc[r] = "ask" /\ toAsk[r] = {}
  /\ Goto(r, "collect")
  /\ UNCHANGED <<static, level, toAsk, asking, futures, responses, holder, channel, user, ran,
                 paired, cancelled>>
-----------------------------------------------------------------------------
(***************************************************************************)
(* The collect loop.  The token is looked at before the streams are        *)
(* polled; polling starts the tools.  Each result fills its call's         *)
(* response message.                                                       *)
(***************************************************************************)
Collect(r) ==
  /\ pc[r] = "collect"
  /\ Goto(r, IF r \in cancelled \/ futures[r] = {} THEN "pair" ELSE "poll")
  /\ UNCHANGED <<static, level, toAsk, asking, futures, responses, holder, channel, user, ran,
                 paired, cancelled>>

Poll(r) ==
  /\ pc[r] = "poll" /\ ~(futures[r] \subseteq ran)
  /\ ran' = ran \cup futures[r]
  /\ UNCHANGED <<static, level, pc, toAsk, asking, futures, responses, holder, channel, user,
                 paired, cancelled>>

ToolEnds(r, i) ==
  /\ pc[r] = "poll" /\ i \in futures[r] \cap ran
  /\ futures' = [futures EXCEPT ![r] = @ \ {i}]
  /\ responses' = [responses EXCEPT ![i] = @ + 1]
  /\ Goto(r, "collect")
  /\ UNCHANGED <<static, level, toAsk, asking, holder, channel, user, ran, paired, cancelled>>

\* 100 ms without an item; it matters only when the token was cancelled
Tick(r) ==
  /\ pc[r] = "poll" /\ r \in cancelled
  /\ Goto(r, "collect")
  /\ UNCHANGED <<static, level, toAsk, asking, futures, responses, holder, channel, user, ran,
                 paired, cancelled>>

\* Each call becomes a request message followed by its response message
Pair(r) ==
  /\ pc[r] = "pair"
  /\ paired' = paired \cup batch[r]
  /\ futures' = [futures EXCEPT ![r] = {}]
  /\ Goto(r, "idle")
  /\ UNCHANGED <<static, level, toAsk, asking, responses, holder, channel, user, ran, cancelled>>
-----------------------------------------------------------------------------
\* Fault: the receiver's lock stays with a reply that is gone
StillHeld(r) == holder

ReleasedBy(r) == IF holder = r THEN None ELSE holder

\* The consumer drops the stream at an await: nothing of the batch is recorded
Drop(r) ==
  /\ pc[r] # "idle"
  /\ Goto(r, "idle")
  /\ toAsk' = [toAsk EXCEPT ![r] = {}]
  /\ asking' = [asking EXCEPT ![r] = None]
  /\ futures' = [futures EXCEPT ![r] = {}]
  /\ holder' = ReleasedBy(r)
  /\ UNCHANGED <<static, level, responses, channel, user, ran, paired, cancelled>>

Cancel(r) ==
  /\ r \notin cancelled
  /\ cancelled' = cancelled \cup {r}
  /\ UNCHANGED <<static, level, pc, toAsk, asking, futures, responses, holder, channel, user, ran,
                 paired>>

\* Fault: the channel has no bound
AlwaysRoom == TRUE

Room == Len(channel) < Capacity

\* handle_confirmation: the user answers a prompt, now or later, once or again
Answer(i, decision) ==
  /\ i \in shown /\ Room
  /\ IF sent[i] = {} THEN repeats' = repeats ELSE repeats < MaxRepeats /\ repeats' = repeats + 1
  /\ sent' = [sent EXCEPT ![i] = @ \cup {decision}]
  /\ channel' = Append(channel, [id |-> i, decision |-> decision])
  /\ UNCHANGED <<static, level, pc, toAsk, asking, futures, responses, holder, shown, ran, paired,
                 cancelled>>

FirstAnswer(i) == sent[i] = {} /\ \E d \in Decisions : Answer(i, d)

Step(r) ==
  \/ \E i \in Ids : Ask(r, i)
  \/ Lock(r) \/ Discard(r) \/ Allowed(r) \/ Declined(r) \/ AsksDone(r)
  \/ Collect(r) \/ Poll(r) \/ Tick(r) \/ Pair(r)
  \/ \E i \in Ids : ToolEnds(r, i)

Next ==
  \/ \E r \in Replies : Inspect(r) \/ Step(r) \/ Drop(r) \/ Cancel(r)
  \/ \E i \in Ids, d \in Decisions : Answer(i, d)

(***************************************************************************)
(* A reply that can go on does, tools end, and a prompt is answered; no    *)
(* reply has to be cancelled, dropped or made.                             *)
(***************************************************************************)
Fairness ==
  /\ \A r \in Replies : WF_vars(Step(r))
  /\ \A i \in Ids : WF_vars(FirstAnswer(i))

Spec == Init /\ [][Next]_vars /\ Fairness
-----------------------------------------------------------------------------
\* Every variable keeps its type
TypeOK ==
  /\ mode \in Modes /\ level \in [Tools -> Levels]
  /\ tool \in [Ids -> Tools \cup {None}]
  /\ approved \subseteq Ids /\ denied \subseteq Ids /\ shown \subseteq Ids
  /\ ran \subseteq Ids /\ paired \subseteq Ids /\ cancelled \subseteq Replies
  /\ pc \in [Replies -> {"idle", "ask", "lock", "wait", "collect", "poll", "pair"}]
  /\ batch \in [Replies -> SUBSET Ids]
  /\ toAsk \in [Replies -> SUBSET Ids]
  /\ asking \in [Replies -> Ids \cup {None}]
  /\ futures \in [Replies -> SUBSET Ids]
  /\ responses \in [Ids -> Nat]
  /\ holder \in Replies \cup {None}
  /\ channel \in Seq([id : Ids, decision : Decisions]) /\ Len(channel) <= Capacity
  /\ sent \in [Ids -> SUBSET Decisions] /\ repeats \in 0 .. MaxRepeats

\* A tool runs only if every inspector approved that very call or the user
\* allowed that very call: an answer to another prompt, of this reply, of one
\* running beside it or of one long gone, never starts it
RunsOnlyIfAllowed == \A i \in ran : i \in approved \/ sent[i] \cap Allows # {}

\* A call recorded in the conversation has one tool response, neither none nor
\* a second one, unless its reply was cancelled, its arguments could not be
\* parsed, or it was both denied and asked about
OneResponseEach ==
  \A r \in Replies : \A i \in paired \cap batch[r] :
    \/ responses[i] = 1
    \/ responses[i] = 0 /\ (r \in cancelled \/ tool[i] \in Unparsable)
    \/ i \in denied \cap shown

\* While no other reply uses the agent, every batch of calls comes to its end:
\* stale answers in the channel and prompts of dropped replies hold up nothing
Settles ==
  \A r \in Replies :
    [](\A q \in Replies \ {r} : pc[q] = "idle") => (pc[r] # "idle" ~> pc[r] = "idle")
=============================================================================
