----------------------------- MODULE ReplyLoop -----------------------------
(***************************************************************************)
(* One session's replies: reply and reply_internal of                      *)
(* crates/goose/src/agents/agent.rs, with the conversation in memory, the  *)
(* messages in the session's store, and the compaction and tool summaries  *)
(* of context_mgmt/mod.rs between them.                                    *)
(*                                                                         *)
(* The approval and execution of the calls of one response is a single     *)
(* step here (ToolsDone); ToolApproval models it in detail.                *)
(***************************************************************************)
EXTENDS FixConversation, FiniteSets

CONSTANTS
  Retries,         \* whether the session may have a retry configuration
  Finals,          \* states of the final output tool to start from
  MaxTurns,        \* session_config.max_turns
  Cutoff,          \* GOOSE_TOOL_CALL_CUTOFF: calls before one is summarized
  MaxPrompts, MaxCalls, MaxItems, MaxCompactions, MaxElicits, MaxClock  \* bounds

ASSUME Bounds ==
  /\ Retries \subseteq BOOLEAN
  /\ Finals \subseteq {"absent", "unset", "set"}
  /\ {MaxTurns, Cutoff, MaxPrompts, MaxCalls, MaxItems, MaxCompactions, MaxElicits, MaxClock}
       \subseteq Nat
  /\ MaxClock # 0

VARIABLES
  pc,           \* where the reply is
  memory,       \* conversation: what the model is sent
  stored,       \* the session's messages, in the order they were inserted
  adding,       \* messages_to_add
  turns,        \* turns_taken
  overflows,    \* compaction_attempts
  noTools,      \* no_tools_called
  recovered,    \* did_recovery_compact_this_iteration
  exit,         \* exit_chat
  final,        \* the final output tool: "absent", "unset" or "set"
  retry,        \* the session has a retry configuration
  cancelled,    \* the reply's token
  task,         \* the call tool_pair_summarization_task summarizes, or NoId
  toHide,       \* rows of the store still to be hidden
  batch, born,  \* calls of the response at hand, and the time it came
  asked,        \* a question of a tool waits for the user's answer
  calls, prompts, items, compactions, elicits,  \* how many so far
  clock         \* in seconds

turn == <<turns, overflows, noTools, recovered, exit>>
call == <<batch, born, asked>>
summary == <<task, toHide>>
session == <<final, retry>>
count == <<calls, prompts, compactions, elicits, items>>
vars == <<pc, memory, stored, adding, turn, call, summary, session, cancelled, count, clock>>

Prompt(n) == [kind |-> "text", id |-> n]
Elicitation == [kind |-> "elicitation", id |-> NoId]

\* A message with the time of its creation and the id of its row in the store
New(role, contents, created) ==
  [role |-> role, visible |-> TRUE, items |-> contents, created |-> created, mid |-> NoId]

Hidden(msg) == [msg EXCEPT !.visible = FALSE]

Mids(msgs) == {msgs[n].mid : n \in DOMAIN msgs}

\* New messages get ids no other has
Numbered(msgs) ==
  LET used == Max({NoId} \cup Mids(stored) \cup Mids(memory) \cup Mids(adding))
  IN [n \in DOMAIN msgs |-> [msgs[n] EXCEPT !.mid = used + n]]

Mentions(msg, i) ==
  \E n \in DOMAIN msg.items : msg.items[n] \in {Request(i), Response(i)}

(***************************************************************************)
(* get_conversation: ORDER BY created_timestamp, id.                       *)
(***************************************************************************)
Reload(msgs) ==
  FlattenSeq([s \in 1 .. MaxClock |-> Keep(msgs, LAMBDA msg : msg.created = s)])

(***************************************************************************)
(* compact_messages: everything is hidden from the model, and a summary, a *)
(* note to continue and a copy of the user's last words take its place.    *)
(***************************************************************************)
TextOnly(msg) ==
  /\ \E n \in DOMAIN msg.items : IsText(msg.items[n])
  /\ \A n \in DOMAIN msg.items : msg.items[n].kind \notin {"request", "response"}

UserWords(msg) == msg.visible /\ msg.role = "user" /\ TextOnly(msg)

\* Fault: the compacted messages are dropped
Forgotten(msgs) == <<>>

Kept(msgs) == MapSeq(Hidden, msgs)

Compacted(msgs) ==
  LET Say(role) == New(role, <<Text("text")>>, clock)
      copy == IF \E n \in DOMAIN msgs : UserWords(msgs[n]) THEN <<Say("user")>> ELSE <<>>
  IN Kept(msgs) \o Numbered(<<Say("user"), Say("assistant")>> \o copy)

\* tool_id_to_summarize: the first call the model sees, when it sees too many
RequestsOf(msg) == IF msg.visible THEN Keep(msg.items, LAMBDA it : it.kind = "request") ELSE <<>>

ToSummarize(msgs) ==
  LET requests == FlattenSeq(MapSeq(RequestsOf, msgs))
  IN IF Len(requests) > Cutoff THEN Head(requests).id ELSE NoId
-----------------------------------------------------------------------------
Init ==
  /\ pc = "idle"
  /\ memory = <<>> /\ stored = <<>> /\ adding = <<>>
  /\ turns = 0 /\ overflows = 0 /\ noTools = TRUE /\ recovered = FALSE /\ exit = FALSE
  /\ batch = <<>> /\ born = 0 /\ asked = FALSE
  /\ task = NoId /\ toHide = <<>>
  /\ final \in Finals /\ retry \in Retries /\ cancelled = FALSE
  /\ calls = 0 /\ prompts = 0 /\ items = 0 /\ compactions = 0 /\ elicits = 0
  /\ clock = 1

\* The reply is over, and what it had in memory is gone
Gone ==
  /\ pc' = "idle"
  /\ memory' = <<>> /\ adding' = <<>>
  /\ turns' = 0 /\ overflows' = 0 /\ noTools' = TRUE /\ recovered' = FALSE /\ exit' = FALSE
  /\ batch' = <<>> /\ born' = 0
  /\ task' = NoId /\ toHide' = <<>>
  /\ cancelled' = FALSE /\ items' = 0

(***************************************************************************)
(* reply: the user's message is stored and the conversation loaded; it is  *)
(* compacted first when the last known usage is over the threshold.  Then  *)
(* prepare_reply_context fixes it, once for the whole reply.  (Snipping    *)
(* shortens old results and removes none.  Slash commands, whose answer or *)
(* expansion is stored instead, are left out.)                             *)
(***************************************************************************)
StartReply ==
  /\ pc = "idle" /\ prompts < MaxPrompts
  /\ prompts' = prompts + 1
  /\ stored' = stored \o Numbered(<<New("user", <<Prompt(prompts + 1)>>, clock)>>)
  /\ \/ pc' = "compact" /\ memory' = Reload(stored')
     \/ pc' = "top" /\ memory' = Fixed(Reload(stored'))
  /\ UNCHANGED <<adding, turn, call, summary, session, calls, compactions, elicits, items,
                cancelled, clock>>

\* replace_conversation
Replace ==
  /\ compactions < MaxCompactions
  /\ compactions' = compactions + 1
  /\ stored' = Compacted(memory)

AutoCompact ==
  /\ pc = "compact"
  /\ Replace
  /\ memory' = Fixed(stored')
  /\ pc' = "top"
  /\ UNCHANGED <<adding, turn, call, summary, session, calls, prompts, elicits, items,
                cancelled, clock>>

AutoCompactFails ==
  /\ pc = "compact"
  /\ Gone
  /\ UNCHANGED <<stored, asked, session, calls, prompts, compactions, elicits, clock>>

\* Fault: one turn too many
StopsLate == cancelled \/ final = "set" \/ turns > MaxTurns

Stops == cancelled \/ final = "set" \/ turns >= MaxTurns

Leave ==
  /\ pc = "top" /\ Stops
  /\ Gone
  /\ UNCHANGED <<stored, asked, session, calls, prompts, compactions, elicits, clock>>

StartTurn ==
  /\ pc = "top" /\ ~Stops
  /\ turns' = turns + 1
  /\ task' = ToSummarize(memory)
  /\ adding' = <<>> /\ noTools' = TRUE /\ recovered' = FALSE /\ exit' = FALSE
  /\ items' = 0
  /\ pc' = "stream"
  /\ UNCHANGED <<memory, stored, overflows, call, toHide, session, calls, prompts, compactions,
                elicits, cancelled, clock>>
-----------------------------------------------------------------------------
(***************************************************************************)
(* The stream of the model.  An item that comes after the cancellation is  *)
(* not looked at.                                                          *)
(***************************************************************************)
Item ==
  /\ pc = "stream" /\ ~cancelled /\ items < MaxItems
  /\ items' = items + 1

\* messages_to_add.push
Add(role, created) ==
  /\ adding' = adding \o Numbered(<<New(role, <<Text("text")>>, created)>>)

SayText ==
  /\ Item
  /\ overflows' = 0
  /\ Add("assistant", clock)
  /\ UNCHANGED <<pc, memory, stored, turns, noTools, recovered, exit, call, summary, session,
                calls, prompts, compactions, elicits, cancelled, clock>>

CallTools ==
  /\ Item
  /\ overflows' = 0
  /\ \E n \in 1 .. MaxCalls - calls :
       /\ batch' = [k \in 1 .. n |-> calls + k]
       /\ calls' = calls + n
  /\ born' = clock
  /\ pc' = "tools"
  /\ UNCHANGED <<memory, stored, adding, turns, noTools, recovered, exit, asked, summary,
                session, prompts, compactions, elicits, cancelled, clock>>

\* drain_elicitation_messages: a tool asks the user something; the question
\* goes to the store alone
Elicit ==
  /\ pc = "tools" /\ ~asked /\ elicits < MaxElicits
  /\ asked' = TRUE
  /\ elicits' = elicits + 1
  /\ stored' = stored \o Numbered(<<New("assistant", <<Elicitation>>, clock)>>)
  /\ UNCHANGED <<pc, memory, adding, turn, batch, born, summary, session, calls, prompts,
                compactions, items, cancelled, clock>>

\* The answer comes through another call of reply, which stores it and returns;
\* the question may outlive the call that asked it, and the reply.  An answer
\* between two rows of a turn that are being written is left out
Answer ==
  /\ asked /\ pc # "save"
  /\ asked' = FALSE
  /\ stored' = stored \o Numbered(<<New("user", <<Elicitation>>, clock)>>)
  /\ UNCHANGED <<pc, memory, adding, turn, batch, born, summary, session, count, cancelled,
                clock>>

(***************************************************************************)
(* All calls have ended, or the reply was cancelled and some have no       *)
(* response.  The response messages were created before the tools ran, the *)
(* request messages are created now.  A call that could not be parsed is   *)
(* told to the model instead; the model's thoughts are kept.               *)
(***************************************************************************)
Answered(i, answered) == New("user", IF i \in answered THEN <<Response(i)>> ELSE <<>>, born)

\* Fault: the response messages come without the requests
ResponseOnly(i, answered) == <<Answered(i, answered)>>

Pair(i, answered) == <<New("assistant", <<Request(i)>>, clock), Answered(i, answered)>>

Records(parsed, answered) ==
  FlattenSeq([k \in DOMAIN batch |->
    IF batch[k] \in parsed THEN Pair(batch[k], answered)
    ELSE <<New("user", <<Text("text")>>, clock)>>])

Thoughts == {<<>>, <<New("assistant", <<Thinking>>, born)>>}

ToolsDone ==
  /\ pc = "tools"
  /\ \E parsed \in SUBSET Range(batch), thought \in Thoughts :
       \E answered \in SUBSET parsed :
         /\ cancelled \/ answered = parsed
         /\ adding' = adding \o Numbered(thought \o Records(parsed, answered))
  /\ batch' = <<>> /\ born' = 0
  /\ noTools' = FALSE
  /\ final' \in IF final = "absent" THEN {final} ELSE {final, "set"}
  /\ pc' = "stream"
  /\ UNCHANGED <<memory, stored, turns, overflows, recovered, exit, asked, summary, retry,
                count, cancelled, clock>>

(***************************************************************************)
(* ContextLengthExceeded: the provider refuses the request before it       *)
(* streams anything.  One compaction, and no second one in a row.          *)
(***************************************************************************)
Overflow ==
  /\ Item /\ items = 0 /\ overflows = 0
  /\ overflows' = 1
  /\ \/ Replace /\ memory' = stored' /\ recovered' = TRUE
     \/ UNCHANGED <<memory, stored, compactions, recovered>>
  /\ pc' = "post"
  /\ UNCHANGED <<adding, turns, noTools, exit, call, summary, session, calls, prompts, elicits,
                cancelled, clock>>

OverflowAgain ==
  /\ Item /\ items = 0 /\ overflows > 0
  /\ overflows' = overflows + 1
  /\ pc' = "post"
  /\ UNCHANGED <<memory, stored, adding, turns, noTools, recovered, exit, call, summary,
                session, calls, prompts, compactions, elicits, cancelled, clock>>

\* The stream ends, fails with another error, or is left because of the token
StreamEnds ==
  /\ pc = "stream"
  /\ pc' = "post"
  /\ UNCHANGED <<memory, stored, adding, turn, call, summary, session, count, cancelled, clock>>
-----------------------------------------------------------------------------
Reminds == noTools /\ final = "unset"

(***************************************************************************)
(* After the stream.  A turn without a tool call ends the reply, unless    *)
(* the final output is missing, the conversation was just compacted, or    *)
(* the retry checks fail.                                                  *)
(***************************************************************************)
AfterStream ==
  /\ pc = "post"
  /\ ~(noTools /\ final = "absent" /\ ~recovered /\ retry)
  /\ \/ Reminds /\ Add("user", clock) /\ UNCHANGED exit
     \/ noTools /\ final = "set" /\ Add("assistant", clock) /\ exit' = TRUE
     \/ noTools /\ final = "absent" /\ ~recovered /\ exit' = TRUE /\ UNCHANGED <<adding>>
     \/ noTools /\ final = "absent" /\ recovered /\ UNCHANGED <<exit, adding>>
     \/ ~noTools /\ UNCHANGED <<exit, adding>>
  /\ pc' = "summarize"
  /\ UNCHANGED <<memory, stored, turns, overflows, noTools, recovered, call, summary, session,
                count, cancelled, clock>>

\* handle_retry_logic: the checks succeed, or cannot be run
ChecksPass ==
  /\ pc = "post" /\ noTools /\ final = "absent" /\ ~recovered /\ retry
  /\ exit' = TRUE
  /\ pc' = "summarize"
  /\ UNCHANGED <<memory, stored, adding, turns, overflows, noTools, recovered, call, summary,
                session, count, cancelled, clock>>

\* Fault: the absence of a retry configuration is not an early return
FailsAnyway ==
  /\ pc = "post" /\ noTools /\ final = "absent" /\ ~recovered
  /\ pc' = "locked"
  /\ UNCHANGED <<memory, stored, adding, turn, call, summary, session, count, cancelled, clock>>

(***************************************************************************)
(* The checks fail.  reset_status_for_retry takes the lock of the final    *)
(* output tool, whose guard the `if let` of the caller still holds: the    *)
(* reply never leaves this place.                                          *)
(***************************************************************************)
ChecksFail ==
  /\ pc = "post" /\ noTools /\ final = "absent" /\ ~recovered /\ retry
  /\ pc' = "locked"
  /\ UNCHANGED <<memory, stored, adding, turn, call, summary, session, count, cancelled, clock>>

(***************************************************************************)
(* The summary of a call replaces its request and response, when exactly   *)
(* two messages mention it.  They are hidden in the store one at a time.   *)
(***************************************************************************)
Matching == Keep(memory, LAMBDA msg : Mentions(msg, task))

Summarize ==
  /\ pc = "summarize" /\ task # NoId /\ Len(Matching) = 2
  /\ memory' = MapSeq(LAMBDA msg : IF Mentions(msg, task) THEN Hidden(msg) ELSE msg, memory)
  /\ toHide' = MapSeq(LAMBDA msg : msg.mid, Matching)
  /\ Add("user", Last(Matching).created)
  /\ pc' = "save"
  /\ UNCHANGED <<stored, turn, call, task, session, count, cancelled, clock>>

\* Nothing to summarize, no summary, or no pair
NoSummary ==
  /\ pc = "summarize"
  /\ pc' = "save"
  /\ UNCHANGED <<memory, stored, adding, turn, call, summary, session, count, cancelled, clock>>

\* Fault: the pair is hidden in the memory only
HideNothing ==
  /\ pc = "save" /\ toHide # <<>>
  /\ toHide' = <<>>
  /\ UNCHANGED <<pc, memory, stored, adding, turn, call, task, session, count, cancelled, clock>>

HideStored ==
  /\ pc = "save" /\ toHide # <<>>
  /\ toHide' = Tail(toHide)
  /\ stored' = MapSeq(LAMBDA msg : IF msg.mid = Head(toHide) THEN Hidden(msg) ELSE msg, stored)
  /\ UNCHANGED <<pc, memory, adding, turn, call, task, session, count, cancelled, clock>>

\* Fault: the turn ends without its messages having been written
AllSaved == DOMAIN adding

Saved == {n \in DOMAIN adding : adding[n].mid \in Mids(stored)}

SaveMessage ==
  /\ pc = "save" /\ toHide = <<>> /\ Saved # DOMAIN adding
  /\ stored' = Append(stored, adding[Cardinality(Saved) + 1])
  /\ UNCHANGED <<pc, memory, adding, turn, call, summary, session, count, cancelled, clock>>

TurnEnds ==
  /\ pc = "save" /\ toHide = <<>> /\ Saved = DOMAIN adding
  /\ \/ exit /\ Gone
     \/ /\ ~exit
        /\ pc' = "top"
        /\ memory' = memory \o adding
        /\ adding' = <<>>
        /\ UNCHANGED <<turn, batch, born, summary, items, cancelled>>
  /\ UNCHANGED <<stored, asked, session, calls, prompts, compactions, elicits, clock>>
-----------------------------------------------------------------------------
\* The consumer drops the stream at an await; a failed write of the store or a
\* provider that cannot be reached end the reply the same way
Drop ==
  /\ pc # "idle"
  /\ Gone
  /\ UNCHANGED <<stored, asked, session, calls, prompts, compactions, elicits, clock>>

\* The token is looked at in these places; elsewhere it is as if cancelled later
Cancel ==
  /\ pc \in {"top", "stream", "tools"} /\ ~cancelled
  /\ cancelled' = TRUE
  /\ UNCHANGED <<pc, memory, stored, adding, turn, call, summary, session, count, clock>>

\* Elsewhere no message is created before the reply comes to one of these places
Tick ==
  /\ pc \in {"idle", "compact", "stream", "tools"} /\ clock < MaxClock
  /\ clock' = clock + 1
  /\ UNCHANGED <<pc, memory, stored, adding, turn, call, summary, session, count, cancelled>>

Step ==
  \/ AutoCompactFails \/ AutoCompact \/ Leave \/ StartTurn
  \/ SayText \/ CallTools \/ ToolsDone \/ Overflow \/ OverflowAgain \/ StreamEnds
  \/ AfterStream \/ ChecksPass \/ ChecksFail
  \/ Summarize \/ NoSummary \/ HideStored \/ SaveMessage \/ TurnEnds

Next == StartReply \/ Step \/ Elicit \/ Answer \/ Drop \/ Cancel \/ Tick

\* The model's stream, its tools and its summaries come to an end; the user
\* need not ask, cancel or leave
Spec == Init /\ [][Next]_vars /\ WF_vars(Step)
-----------------------------------------------------------------------------
Messages ==
  [role : {"user", "assistant"}, visible : BOOLEAN, items : Seq(Content),
   created : 1 .. MaxClock, mid : Nat]

\* The types of the variables
TypeOK ==
  /\ pc \in {"idle", "compact", "top", "stream", "tools", "post", "locked", "summarize", "save"}
  /\ {memory, stored, adding} \subseteq Seq(Messages)
  /\ turns \in 0 .. MaxTurns /\ overflows \in 0 .. MaxTurns
  /\ {noTools, recovered, exit, retry, cancelled, asked} \subseteq BOOLEAN
  /\ final \in {"absent", "unset", "set"}
  /\ task \in Nat /\ toHide \in Seq(Nat)
  /\ batch \in Seq(1 .. MaxCalls) /\ born \in 0 .. MaxClock /\ clock \in 1 .. MaxClock
  /\ {calls, prompts, items, compactions, elicits} \subseteq Nat

\* Between two turns every message of the memory has its row in the store: what
\* is hidden by a summary is found there, after compactions, merges and reloads
\* (update_message_metadata ends the reply with an error when it is not)
MemoryStored == pc = "top" => Mids(memory) \subseteq Mids(stored)

Places(msgs, item) == {n \in DOMAIN msgs : item \in Range(msgs[n].items)}

\* The conversation is only fixed when a reply starts, but whatever was merged,
\* compacted, summarized or cancelled before, each turn sends the model every
\* call once, with one response after it, and no response without its call
SentPaired ==
  pc = "stream" =>
    LET sent == Visible(memory)
    IN \A i \in 1 .. calls :
         \/ Places(sent, Request(i)) = {} /\ Places(sent, Response(i)) = {}
         \/ \E m, n \in DOMAIN sent :
              /\ m < n
              /\ Places(sent, Request(i)) = {m} /\ Places(sent, Response(i)) = {n}

\* What the user said stays in the store, through every compaction that replaces
\* the store by a conversation that was reloaded, fixed and merged
PromptsKept == \A n \in 1 .. prompts : Places(stored, Prompt(n)) # {}

SentCalls(msgs) == {i \in 1 .. calls : Places(Visible(msgs), Request(i)) # {}}

\* Between two turns, a reload of the session would show the model the calls it
\* is being shown: a dropped reply can be taken up where it was
ReloadAgrees == pc = "top" /\ ~cancelled => SentCalls(Fixed(Reload(stored))) = SentCalls(memory)

\* The same while all messages are of one second, where the order of insertion
\* decides
ReloadAgreesInASecond ==
  (\A n \in DOMAIN stored : stored[n].created = clock) => ReloadAgrees

\* A reply without a retry configuration comes to its end, whatever the stream,
\* the tools and the compactions do
Finishes == (pc # "idle" /\ ~retry) ~> (pc = "idle")

\* "Retry logic triggered, restarting agent loop": a reply whose checks failed
\* goes on
RetryProceeds == (pc = "locked") ~> (pc # "locked")
=============================================================================
