# goose: a verification development of its core

goose is an agent that runs tools on behalf of a language model. Its core crate
(`src/crates/goose/src`, to which the paths below are relative) holds the agent's reply
loop, the inspection and approval of tool calls, the sessions and their store, the
managers of extensions and sub-agents, and a scheduler that runs recipes by cron. This
directory holds TLA+ models of that core, the TLC configurations that check them on
small instances, and TLAPS proofs of the properties that matter most.

## The system

| component | state | operations | what is hard | what makes it correct |
| --- | --- | --- | --- | --- |
| scheduler (`scheduler.rs`) | job map, cron entries, tokens of running jobs, schedule file, copied recipes | add, remove, pause, unpause, update, run_now, kill, firings, restart | tasks interleave between two locks and a cron table; firings overlap; a kill races the start; the file is written after the map, outside its lock; callers are dropped between two steps, executions panic | tokens, flags and sessions are backed by executions; the file follows the map; every job has its one entry; a cancelled execution ends; what a lost task leaves is told apart |
| reply loop (`agents/agent.rs`, `agents/retry.rs`) | conversation in memory, messages to add, turn and compaction counters, final output | reply, one turn per response of the model, compaction, retry, store | the stream is dropped or cancelled at any await; memory and store are changed at different times; locks held across awaits | what is sent is well paired, memory and store agree, nothing the user said is lost, a reply ends |
| compaction and summaries (`context_mgmt/mod.rs`) | none of its own | compact a conversation, summarize a tool pair in the background | a result computed from a copy of a conversation is applied to a later one | the pair is found, both halves are hidden together |
| conversation fixing (`conversation/mod.rs`) | none | fix_conversation: seven passes over the visible messages | the order of the passes; whatever order messages come in | pairing, user messages at both ends, a fix is final |
| tool approval (`agents/tool_execution.rs`, `tool_inspection.rs`, `permission/`) | pending calls, prompts, the channel of confirmations, stored permissions | inspect, dispatch, prompt, confirm, collect results | one channel for all replies of an agent; answers late, twice, or to replies that are gone; inspectors that disagree | nothing runs that was not allowed; every call gets one response; a batch ends |
| session store (`session/session_manager.rs`) | rows of sessions and messages | create, add, replace, truncate, copy, hide | rows are ordered by a clock in seconds | what is reloaded is what was said |
| elicitation (`action_required_manager.rs`) | map of open questions, one channel for all sessions | ask and wait, submit an answer, drain | time limits against late answers; every reply empties the channel of all; a reply dropped while it does; a question that outlives its call | an accepted answer reaches its tool; a reply leaves behind no question asked while it ran; none hangs |
| extension manager (`agents/extension_manager.rs`) | extensions, cached tool list and its version | add, remove, list, resolve and dispatch | the list is fetched without a lock and cached later; a change is visible before its cache is emptied; calls go away | a list shows a state of the extensions during the call; what was shown can be called |
| background sub-agents (`agents/platform_extensions/summon.rs`) | running and completed tasks, their tokens | delegate, load or stop, status, clean up | limit checked and task registered apart; a waiting load holds the task; two locks; calls go away | a result is given once; nothing runs unattended; the limit; calls return |
| configuration (`config/base.rs`, `config/migrations.rs`, the server's `routes/config_management.rs`) | the file, a temporary file, six backups | get, set, delete, recovery, migrations, backup on request | reads that write; a process killed inside a save; a spoilt file; a copy over the newest backup that takes no mutex | calls see one register; answered changes outlive a kill; the backup is recent |
| agent pool (`execution/manager.rs`) | agents by session, LRU | get or create, remove | an agent evicted while it replies | one agent per session (not modelled) |
| providers, inspectors, audit log, recipes, front ends | | | behind interfaces the core sees as inputs | not modelled, see the end |

The front ends (server, ACP, command line) call `Agent::reply` and consume its stream;
dropping the stream is how a reply is interrupted, cancelling its token is how it is
asked to stop. The scheduler builds an agent of its own for each execution and consumes
its stream to the end. A reply loads the conversation from the store, fixes it, sends it
to the provider turn by turn, has the tool calls of each response inspected, approved and
run, and writes the messages of the turn back to the store. Compaction replaces memory
and store; summaries hide pairs in both. Approvals and elicitations come back from the
user through other calls on the same agent while the reply waits. The tools a model is
shown come from the extension manager, which requests of a front end, replies and tools
change at the same time; one of its extensions, summon, runs sub-agents, each with an agent
of its own. Settings are read and written by all of them through one file.

## Modules

| module | models | its runs |
| --- | --- | --- |
| `Scheduler` | `scheduler.rs`: every operation on jobs, entries, tokens and the file | `scheduler_*` with `MCScheduler` |
| `Scheduler_proofs` | proofs about `Scheduler`: under concurrency, then for one caller | |
| `FixConversation` | `conversation/mod.rs`: the passes of fix_conversation as operators | |
| `FixConversation_proofs` | what each pass does to messages of any number and content | |
| `StoredConversation` | the conversations fix_conversation is given: a store that grows and is hidden in any order | `fix_conversation` with `MCStoredConversation` |
| `ToolApproval` | `tool_execution.rs`, `tool_inspection.rs`, the permission inspector, the tool part of reply_internal | `approval_*` with `MCToolApproval` |
| `ToolApproval_proofs` | proofs about `ToolApproval` | |
| `ReplyLoop` | `agent.rs` (reply, reply_internal), `context_mgmt/mod.rs`, the store's message operations; EXTENDS `FixConversation` for the fixing of what is loaded | `reply_*` with `MCReplyLoop` |
| `Conversation_proofs` | proofs about `StoredConversation` and `ReplyLoop`, from those about the passes | |
| `ExtensionTools` | the pure part of fetch_all_tools: names, filters, duplicates, clients that fail | |
| `ToolsRegister` | abstract: what a list of tools may show | `extension_tools`, as a refinement |
| `ExtensionManager` | `extension_manager.rs`: changes, cache, listing, resolution of a call | `extension_tools` with `MCExtensionManager` |
| `ExtensionManager_proofs` | proofs about `ExtensionManager`, the refinement included | |
| `BackgroundTasks` | `summon.rs`: the two maps of tasks and every operation on them | `background_tasks` |
| `BackgroundTasks_proofs` | proofs about `BackgroundTasks` | |
| `Settings` | abstract: settings as a register under concurrent calls and kills | `config_file`, as a refinement |
| `ConfigFile` | `config/base.rs`: load, recovery, migration, save with backups, by system call; the server's backup_config | `config_file` with `MCConfigFile` |
| `ConfigFile_proofs` | proofs about `ConfigFile`, the refinement included | |
| `Elicitation` | `action_required_manager.rs` and the drain of `agent.rs` | `elicitation` |
| `Elicitation_proofs` | proofs about `Elicitation` | |

`ReplyLoop` takes the approval and execution of one response's calls as a single step
(`ToolsDone`), which `ToolApproval` models in detail; `Settles` there is what makes that
step come about here, and `OneResponseEach` is why it pairs every call when the reply is
not cancelled. `KillTerminates` in `Scheduler` depends in the same way on the wait for an
approval, which is the step `ExecuteAsk` there. `Elicit` and `Answer` of `ReplyLoop` are
what of `Elicitation` reaches the store. `ToolsRegister` is all a reply may assume of the
list of tools, and `Settings` all that any caller may assume of the configuration: the
detailed modules are shown to implement them.

### Scheduler

A task of the runtime (an API call, or the body of a cron entry) is a member of `Procs`
with a program point and locals in `proc`. A step is the stretch between two releases of
the `jobs` or `running_tasks` mutex, or between two awaited calls of the cron library, so
that all interleavings the locks permit are there. `Call(p)` begins an API operation,
`Fire(p, u)` an execution by cron; `tab` maps the handles of cron entries to the id and
expression the entry's closure captured. Tokens are the names of the tasks they belong
to, so `token[i]` tells whose token `running_tasks` holds. `Persist` writes a snapshot
of the map; `PersistFails` and `FileFails` are failed writes, `Restart` loads what was
written. A restart while a file is being written may find it truncated.

Two ways of ending have no clean-up behind them (`Vanish`). `Drop`: a caller is a request
handler of the server (`routes/schedule.rs`) or a tool call (`agents/schedule_tool.rs`),
and its future is dropped at any await, when the client disconnects or the reply goes away.
`ExecutePanic`: `execute_job` unwraps the prompt or the instructions of a recipe that may
have neither (`scheduler.rs:785`). What the task has stored stays: its token, the flag and
the session of its job, an entry without a job or a job without an entry, a map that is not
in the file. `Lost` is the name its token and session then have.

Four variables are history, which no guard reads, and say what the properties except:
`stranded` (jobs whose flag or session was left by an execution that is no more, until
another execution of the job ends), `unsaved` (jobs with a change nobody will write, until
the next write), `torn` (jobs whose entry a dropped call was changing) and `shared`
(executions that overlapped another of their job). The properties say that nothing else
goes wrong: every other job is as it should be, and so is that one as soon as the code
repairs it.

`scheduler_concurrent` asks, with two API callers beside a firing on one job, a restart
and one failed write, drop or panic, whether tokens, flags, sessions and the file stay tied
to the executions behind them. One job and three tasks are enough for two executions to
overlap while the job is removed and added again, the shape of every hazard listed for it.
`scheduler_serial` asks what a single caller may rely on (one entry per job, recipe files
kept, the file, restarts, kills) with the same faults; two cron expressions that parse
distinguish an old entry from a new one, and one that does not makes an update fail half
way. Some of what a single caller may rely on is false for two: concurrent additions of
one id leave an entry without an owner. Neither run asks for the absence of deadlock. In
`scheduler_serial` the only tasks may wait for an approval nobody can give, which is what
the code does. In `scheduler_concurrent` entries that lost or concurrent additions left
behind use up the handles (`Uuids`), which are a bound.

### Conversation fixing

Messages keep a role, the visibility to the model, and a sequence of items (`Content`);
text is reduced to what the passes tell apart (text, blank, empty), calls to numbers. Each pass
is an operator named after its function, and `Fixed` puts the fixed visible messages back
between the hidden ones. `StoredConversation` builds every conversation of up to five
messages over two calls: requests with and without text, single and joint responses in
any order, thinking, blank text, any of them hidden. Five is one more than it takes to
have a pair interleaved with the halves of another, or a leading, a paired and a trailing
message at once.

The properties hold from a precondition, `StartsWithUser`: what the model sees begins
with words of the user. A session begins with a prompt, and a compaction begins what is
visible with its summary. Without it the code does send a response without its
call, because the leading assistant message is removed after the pairing.

### Tool approval

`Inspect` takes a response's calls through the inspectors: the permission inspector's
verdict is computed from the mode and the stored permissions, the others' is an input.
Then prompts one by one (`Ask`, `Lock`, `Discard`, `Allowed`, `Declined`), the collect
loop (`Collect`, `Poll`, `ToolEnds`, `Tick`), and the messages (`Pair`). `dispatch` builds
a future: tools start when they are first polled, except the two executed on the spot
(`Eager`). The channel of confirmations, its lock and the stored permissions belong to the
agent, everything else to a reply. `Answer` is handle_confirmation: any answer to a prompt
that was shown, at any later time, and up to `MaxRepeats` more than once. The channel's
capacity is 32 in the code and 2 in the runs, so that it does fill.

`approval_two` runs two replies on one agent, which the server permits. `approval_alone`
runs one, with every kind of tool and mode, and checks that it settles. Batches of two
calls are what makes one prompt's answer arrive while another is asked.

### Reply loop

The local variables of reply_internal are variables of the module; `pc` names the places
between which something else can happen: before and after a compaction, at the top of the
loop, in the stream, while tools run, after the stream, and between two writes of the
store. The store is a sequence of rows in insertion order, each with the second it was
created in; `Reload` orders them as the query does. Compaction keeps every message,
hidden, and adds a summary, a continuation and a copy of the user's last words. `Gone` is
the end of a reply, by exit, by error, or because its consumer dropped the stream
(`Drop`): what was not written is lost.

`Overflow` comes before any other item of a stream, because a provider reports an exceeded
context when it refuses the request (`providers/openai_compatible.rs`), and
stream_response_from_provider then returns a stream that holds that error alone. The
attempts counter of the retry manager is left out: no retry gets as far as to count one.

`reply_loop` takes two prompts, so that a reply loads what an interrupted one left, two
turns each, two calls (one more than the cutoff, so that one is summarized), two items a
stream, one compaction and a clock of two seconds, so that a tool or a reply can pass from
one to the next. `reply_ends` takes one prompt and adds the final output tool, retry
checks and questions to the user, which may be answered after their call and their reply
are gone (`Answer`), and checks that replies end. An answer that comes between two of the
rows a turn writes is left out: it is one more row of the store, between a call and its
result, and the invariants say that results directly follow their calls. One reply of a
session runs at a time here, which is a simplification: neither the agent nor the server
(`routes/reply.rs`) prevents two, so what two replies of one session do to its store is
not covered.

### Extensions and their tools

Every access to the map of extensions, to the cache and to its version is a step; a task is
any call on the agent. `Fetch` picks one of the lists the clients of a snapshot may give:
a client that fails contributes a part, and of two tools of one name either may be kept.
`Drop` is a change whose caller goes away between the bump of the version and the emptying
of the cache. `visible` and `may` are history that the abstract register has as well: the
maps that may still be seen while changes are in progress, and those a call in progress may
show. `Listing` is `Register!Spec` under the mapping at the end of the module: a change that
is not yet settled may or may not be seen, one that has returned must be.

The instance has two keys, three configurations (a reliable server, a platform extension
that may fail and offers one of its two tools without a prefix, and an extension with a tool
of that same name), three tasks and two changes: enough for a fetch that began before a
change to end after another fetch has filled the cache anew.

### Background sub-agents

A task is in `background`, in `completed`, in the `hands` of a call that took it out, or
its result is `given`; `lost` are those a call held when it went away. A step is the stretch
between two awaits; `get_moim` is the only one to hold a lock over a step, which is why
`lock` is a variable. `alone` is history: no other call was open beside this one. The limit
is checked in `Count` and the task inserted in `Register`, with `Spawn` in between. Two
calls at a time, three tasks and a limit of one let two delegations pass the count together,
and a load meet the sweep, the wait or the stop of another.

### Configuration file

The steps are system calls, because a kill may come between any two: the copy of a backup
is truncated and then filled, the temporary file is opened, written and renamed. Threads of
one process share a mutex which only changes take. A handle follows its file through a
rename (`file`), so that a truncation by one thread after the rename by another hits the
file itself. A file is truncated when it is opened, which is before the lock on it is held:
what is written over another, longer text leaves its tail (`Over`). A text that does not
parse (`Bad`) is recovered from; bytes that are no text at all (`NotUtf8`) make reads and
saves fail. `Settings` is a register: each call reads or changes it in one step between its
begin and its answer. The refinement maps the register to what a load would return now
(`Settings`), backups included, so that it also says what a kill leaves.

`BackupBegin`, `BackupOpen` and `BackupFill` are the server's `POST /config/backup`
(`backup_config`): whether the file exists and parses or not, it is copied over the newest
backup, with no mutex and no rotation, while calls run. The copy keeps the two files it
opened when others rotate, replace or remove them (`Follow`). One such request runs at a
time; two at once, and copies that fail in the middle, are not modelled.

`calm` is history and marks where the code does not keep the promise: a read that repairs
or migrates the file takes no mutex, and beside a change, or another such read, it may
bring back the old settings or spoil the shared temporary file; an edit by another program
while a call is open may be overwritten; a backup requested of a file that does not parse,
or that is replaced between the opening of its source and that of its target, takes away
what an open call may be restoring. From there to the moment no call is open the register
promises nothing. `before` is history too: the text the file held before it was last
replaced, or at a request for a backup since. `BackupRecent` says that this is what would
be restored, and is silent from a save or a copy that was cut short or disturbed to the
next one that is whole: a kill between the truncation and the fill of the first backup
leaves one that is empty, and an empty file parses.

Two threads, one setting beside the one that migrations add, and two backups, of six in the
code: rotation moves, replaces and drops a backup with two as with six. The files of the
beginning, temporary file and backups included, are any: absent, spoilt, or with any of the
settings. `GoneOnFrom` in `MCConfigFile` names three kinds of states that TLC does not go
on from, and why nothing is lost with them: disturbed ones, of which nothing is promised and
which end in files that the beginning has too; bytes that are no text in the temporary file
or a backup, where they are a text that does not parse; and calls that set the key which
every load adds anyway.

### Elicitation

A question is asked by a server that executes a tool, on a task of its own: it outlives the
call and the reply. The client ends a call on its own time limit, which is by default as
long as that of a question, or on the reply's cancellation (`agents/mcp_client.rs:465`), so
`ToolsEnd` does not wait for the questions, and `Ask` may come after it, or after the reply
is over. `home` is the reply a question in the channel is of, and `None` when that was over
already: nobody but another reply, or the question's time limit, ends such a question.
`Take` and `Show` are the drain, under the lock of the receiver; `Poll` is the wake
of the loop, every tenth of a second at the latest. Any reply takes the questions of all:
the module says what still holds. Two questions and two replies let one reply take, be
dropped with, or leave behind a question of the other; one caller that answers again and
again gives a second and a late answer.

## Fairness

`Scheduler` assumes that every task that can step does (the runtime schedules all ready
tasks) and nothing of callers, firings, executions' ends and crashes. `ToolApproval`
assumes that a reply which can step does, which includes that a tool started comes to its
end, and that a prompt is answered once; not that a second answer is ever given, nor that
a reply is cancelled or dropped. `ReplyLoop` assumes one weak fairness of all steps of a
reply: streams, tools and summaries end; whether the model goes on calling tools is
open, and `max_turns` is what bounds it. These three are weak fairness.

`BackgroundTasks` and `Elicitation` assume strong fairness of the steps that take a lock
(tokio's locks are first come, first served: a call is not passed over for ever) and of
the timers behind a wait (five minutes, five seconds, a tenth of a second). Neither assumes
that a sub-agent or a tool ends, that an answer comes, or that anything is dropped.
`ExtensionManager` and `ConfigFile` state no liveness, and no fairness.

## What the runs show

| run | property | reading |
| --- | --- | --- |
| scheduler_concurrent | TokenLive, FlagBacked, SessionLive, DiskAgrees | under concurrency: no token outlives an execution that ended, an execution that did not overlap another can be killed, no flag or session but of an execution in progress or lost, and what the file lacks some task will write, or one was lost that should have |
| scheduler_serial | TypeOK, OneEntryPerJob, RecipeKept, DiskAgrees, RestartKeepsJobs, KillTerminates | one caller: entries, recipe files and the file match but for what a lost or failed call was changing, a restart brings back what was written, a cancelled execution ends unless it waits for an approval |
| fix_conversation | FixedOnce, CallsPaired, UserAtBothEnds | what is sent is paired, framed by the user and stable |
| approval_two | TypeOK, RunsOnlyIfAllowed, OneResponseEach | no answer starts a tool it was not given for; one response per recorded call |
| approval_alone | Settles | for every tool and mode, every batch ends |
| reply_loop | TypeOK, MemoryStored, SentPaired, PromptsKept | what is sent stays paired through cuts, merges, compactions and summaries; memory and store name the same messages; prompts stay |
| reply_ends | ReloadAgreesInASecond, Finishes | replies end; within a second, a reload shows what was shown |
| reply_retry | RetryProceeds fails | a retry waits for a lock of its own caller |
| extension_tools | TypeOK, CacheCurrent, ShownToolRuns, Listing | no cached list outlives a change that has returned; every list is one of the register; what every list shows is not refused |
| background_tasks | TypeOK, OnePlace, NoneUnattended, LimitBound, NotFoundAlone, CallsReturn | results are given once, dropped calls alone lose tasks, the limit is passed by less than the number of calls, no circle of locks |
| config_file | TypeOK, BackupRecent, AsSettings | the file is a register for undisturbed calls, through kills, failed writes, repairs, migrations and copies on request; a restored backup lacks the last change only, or what came after it was requested |
| elicitation | TypeOK, Delivered, NoneLeftBehind, NothingHangs | accepted answers arrive or the wait was over; a reply that ends by itself leaves no question asked while it ran, open or not; nothing waits for ever |

`reply_retry` ends in a counterexample, which is what it is for: the guard of the final
output tool is held over the call of the retry logic, which locks it again
(`agents/agent.rs:1971`, `agents/retry.rs:107`), so no retry ever happens.

Where the code falls short of what one might expect of it, a property's premise says so.
These premises are not conveniences of the models; without them TLC finds a counterexample:

- `KillTerminates` is about an execution whose token was cancelled and that does not wait
  for an approval. A kill that comes before the token is stored cancels nothing
  (`scheduler.rs:684`), and one while a tool waits for an approval nobody can give is never
  seen (`agents/tool_execution.rs:87`); `agents/schedule_tool.rs:316` answers "Successfully
  killed running job" in both cases, and no property promises more.
- `FlagBacked` and `SessionLive` except `stranded` jobs: `load_jobs_from_storage` takes over
  the flag of a process that is gone (`scheduler.rs:461`), run_now returns with the flag set
  when its first write fails (`545`), and a dropped run_now or a panic (`785`) clears
  nothing. Such a job refuses to run, to pause and to be updated until it fires.
- `TokenLive` lets a lost execution leave its token, and excepts `shared` executions: of two
  of one job, the token of one is replaced or removed by the other (`scheduler.rs:237`).
- `DiskAgrees` and `RestartKeepsJobs` except `unsaved` jobs: a call dropped between its
  change and persist_jobs, or that met an error there, leaves it unwritten. `OneEntryPerJob`
  excepts `torn` jobs: an update dropped between the removal of the old entry and the
  insertion of the new leaves none (`646` to `654`), a dropped addition one without a job.
- `OneResponseEach` excepts a call both denied and asked about, which is prompted for, gets
  two responses, and runs when allowed (`tool_inspection.rs:231`).
- `ReloadAgreesInASecond` is for one second: response messages are created before the tool
  runs, request messages after, and the store orders by the second of creation
  (`agents/agent.rs:1631` and `1839`, `session/session_manager.rs:1088`); across the end of
  a second a reload puts the pair out of order, and fixing removes it.
- `NotFoundAlone` is for a load with no other call open: a task another call holds, or is
  moving from one map to the other, is said not to be found
  (`agents/platform_extensions/summon.rs:894`).
- `LimitBound` is the limit plus the number of calls less one (`summon.rs:1701`).
- `NoneLeftBehind` excepts questions asked after their reply was over: the call that caused
  them ended at the client (`agents/mcp_client.rs:465`) and the server goes on.
- `AsSettings` needs `calm`, `BackupRecent` a save or a copy that was neither cut short nor
  disturbed (above).

## What is proved

For every value of the constants that meets the modules' assumptions:

- `TypeSafe`, in each module of proofs (`StoredType` and `LoopTyped` in
  `Conversation_proofs`): the type invariant. In the scheduler it
  is strengthened by `LocalsOK`, which says what the local variables of a call hold at each
  program point (the job it works on, the expression it was given, the entry it made):
  `TypeOK` alone lets a call reach a step with nothing to store. `Locals` does the same for
  `ConfigFile`.
- `TokensLive`, `SessionsLive`, `FlagsBacked` and `FileAgrees`
  (`Scheduler_proofs`): the four safety invariants of `scheduler_concurrent`, for any
  number of jobs, callers, firings, restarts, failed writes, dropped callers and panics. Each
  is inductive relative to `TypeInv` (the types and `LocalsOK`) with little or no
  strengthening, because it already ties the shared tables to the program points of the
  tasks that stand behind them; `TokenLive` needs `Overlap`, that of two executions which
  could both be killed both are `shared`. The step of `DiskAgrees` is split by lemmas: a
  task that starts owing a write (`OwingStep`), a step that leaves the owed write with its
  task (`PassingStep`), and a lost task, whose session the file never told apart
  (`LostSession`).
- `EntryPerJob`, `RecipesKept` and the action property `RestartsKeepJobs`
  (`Scheduler_proofs`), under `Serial`: at most one task calls the API, while any number of
  firings execute beside it; the concurrent run shows that they are false without it.
  Firings never change an entry (`Roles`), so one task at most is in the middle of an
  addition, a removal or an update, `Hold` says what it knows of its job at each point, and
  `InOrder` what holds of all other jobs and entries, `torn` ones excepted; a dropped call
  leaves its own job torn and all else in order (`VanishOrders`). `PlanKept` ties the file
  to the map, but for a job that is `unsaved` or whose task has yet to write.
- `OnlyAllowedRun` (`ToolApproval_proofs`): for any replies, calls, tools, modes and
  channel capacity, no tool runs that the inspectors did not approve and the user did not
  allow. The invariant `IInv` adds to the types `Carried` (every answer in the channel was
  sent by the user for the call it names) and `Dispatched` (every future stands for an
  approved or allowed call): `RunsOnlyIfAllowed` alone is not inductive, because polling
  starts whatever was dispatched and dispatching trusts whatever was received.
- `OneResponse` (`ToolApproval_proofs`): the property looks at a batch when it is recorded,
  so its invariant counts responses on the way there. Batches are disjoint (`Apart`), a
  call is in one place of its batch, to be asked about, asked about or dispatched
  (`OfTheBatch`), and `Accounted` gives the number of its responses by what is left to do.
- `CacheIsCurrent` (`ExtensionManager_proofs`): for any extensions, configurations, tasks
  and number of changes. The invariant says of a fetch whose version is still the current
  one that its snapshot is the map, or that a task has yet to bump the version or to empty
  the cache; that is what makes the comparison in `Store` enough.
- `ImplementsRegister` (`ExtensionManager_proofs`): the manager implements `ToolsRegister`.
  Initial states map to initial states, and each action to an action of the register or to
  a stutter; the invariant ties what a task has fetched, and what is cached, to the maps it
  may still show.
- `ShownRuns` (`ExtensionManager_proofs`): what every list shows is not refused. `Served`
  says that extensions are stored under their own names, that a list at hand is one of a
  map the call may show, and that when there is only one such map the client found for the
  call is the one stored in it and offers the tool, by prefix or by owner.
- `EachInOnePlace`, `NoneLeftUnattended`, `LimitPassedByFewerThanCalls`
  (`BackgroundTasks_proofs`): for any callers, tasks and limit. A result is given once
  because a task is in one place; the limit needs the number of calls between the count
  and the insertion, so its invariant counts them together with the map.
- `NotFoundIsRight` (`BackgroundTasks_proofs`): a call that is still alone has not found
  its task in the first map, and nobody can have moved it since (`Alone`).
- `AnswersDelivered` and `NoQuestionLeft` (`Elicitation_proofs`): for any questions,
  replies and answers. `Delivered` needs that a wait in progress has its sender or its
  answer (`Taken`) and that answers go to questions that were asked (`Known`);
  `NoneLeftBehind` is inductive by itself: a reply ends by a last drain that finds the
  channel empty, and what is asked after that is of no reply.
- `ImplementsSettings` and `BackupsRecent` (`ConfigFile_proofs`): the file, its temporary
  file and any number of backups implement the register of settings, step by step, through
  kills, failed writes, repairs, migrations and copies on request. The invariant `CInv` is
  about calm states: one call writes at a time (`Quiet`), `Progress` says at each system call what is on the
  disk and that the mapping about to be written is the answer the register will give, and
  `BeforeKept` where the text last replaced is: in the newest backup, or in what a copy on
  request is about to fill it with (`Newest`). Two assumptions on the constants are there
  for the proofs: texts that do not parse, missing files and mappings are different
  (`TextsApart`), and the mutex can be free and `.bak` is not the oldest backup
  (`CallersAndBackups`).
- `UserEnds` and `CallsArePaired` (`Conversation_proofs`): whatever a store holds, in
  any number of messages and calls, and whatever is hidden, what the model is sent begins
  and ends with the user's and alternates, and shows every call once with its one result
  after it. The state invariant is small (`AskedInv`: an id is asked for once); the
  argument is about the passes, in `FixConversation_proofs`. Each pass is a fold, and its
  trace, the list of its values, is shown to exist; facts about all messages are then
  proved along the trace, by the least place where they fail. `PassInv` is the invariant
  of the pairing (a call waits, or has its response after it), `WellPaired` its outcome,
  which survives the removal of empty messages (`PickedPaired`), the merging
  (`MergeInv`) and the removal of a last message of the assistant's, who then holds
  neither calls nor results. `BeginsWithWords` carries the first message through all
  passes, so that none is removed in front. `PlacedVisible` says that what is seen after
  the fixed messages were put back is what was fixed.

- `MemoryIsStored` and `PromptsAreKept` (`Conversation_proofs`): for any prompts, calls,
  turns, compactions and interruptions of a session's replies. `Effect` says what every
  step does to the two conversations: the rows of the memory stay rows of the store, and
  what the user said is carried over (`Carries`), into the store from the store or, by a
  compaction, from the memory. `PromptsKept` alone is not inductive for that reason: the
  memory of a reply under way must hold every prompt too. One lemma per action shows its
  `Effect`, from lemmas on the operators: new numbers exist (`Numbering`), a
  reload only reorders (`Reloaded`), hiding keeps words and rows (`HidingKeeps`), and
  fixing keeps the user's words wherever they stand (`FixedUser` in
  `FixConversation_proofs`, pass by pass) when the model sees any, which each step before a
  fix provides (`Speaks`). `LoopType` adds to the types that the turns taken bound the
  compactions tried (`Taken`), which is why neither counter passes `max_turns`.

- `SentIsPaired` (`Conversation_proofs`): whatever a session went through, each turn sends
  every call with its one result after it, or nothing of it. The memory is fixed when a
  reply starts and not again, so the invariant has to carry what the passes rely on from
  one reply to the next. `Ordered`: what is seen of the store is in rows of one item, a
  call stands right before its result and is no older, and the first row that is seen is
  words of the user's. `Saving`: the store ends with a prefix of the turn's messages and
  shares neither calls nor rows with the rest of them, which is what makes a message
  written once. `Fresh`: the calls at hand have numbers nothing mentions yet. `Adds` and
  `Sends`: what a turn adds and what the memory shows are in pairs, unless the reply was
  cancelled. `Apart`: the rows a summary hides are rows of the assistant's or of results,
  so the first words stay. The passes contribute two facts that hold only when results
  directly follow their calls (`Near`): merging makes no message of two calls, which a
  summary would hide together, and results keep their rows (`From`); `FixedCalls` puts
  them together, and `ReloadSendable` shows that a reload in order of time meets what they
  ask.

- `ReloadsAgree` (`Conversation_proofs`): while all messages are of one second and the reply
  is not cancelled, a reload of the store between two turns shows the model the very calls
  its memory shows. The invariant must hold in all seconds, though the property does not:
  `Agree` says of each call that the memory mentions it only if the model could see both
  its messages in the store; that it is in the memory, among what the turn adds, or yet
  to be hidden, if they are of the same second (`Together`); and that it is in the same rows of
  both (`SameRows`), so that what a summary hides in one is what it hides in the other.
  `OwnRows` says that no other message of the store has such a row. The passes contribute
  that a call with one result after it keeps both, in their rows (`FixMessagesHold`), and
  that one without a result after it is dropped (`FixMessagesCalls`); `ReloadReads` puts this together
  with the order of a reload (`ReloadReplied`): a reload has the calls of one second, and no others.

- `FixingTwice` (`Conversation_proofs`): whatever a store holds, fixing what was fixed
  changes nothing the model is sent but texts that were still apart. The argument has two
  halves. What comes out of the passes is tidy: trimmed, never empty, alternating, framed
  by the user, its calls paired (`FixMessagesTidy`, from the trace of each pass). On such
  messages each pass is the identity (`FixMessagesSame`): no answer is dropped since each
  finds its call pending (`AnswersFit`), nothing merges, nothing is cut at the ends. Putting
  the fixed messages back among the hidden ones joins texts where they stand (`PlacedTexts`).

Each theorem comes from three facts: the initial states satisfy the invariant, every
action preserves it (one step per action), and it implies the property. The assumptions
are the modules' ASSUMEs, which the runs evaluate.

Only model-checked: the liveness properties (`KillTerminates`, `Settles`, `Finishes`,
`CallsReturn`, `NothingHangs`), since fairness and ENABLED are beyond the prover. Every
invariant and every action property of a passing run is a theorem.

## Bounds

Every bound is a constant named in its module: callers, firings, entries' handles,
restarts and failures (failed writes, dropped callers and panics); messages of a
conversation; calls, batch size, repeated answers and capacity;
prompts, calls, items, turns, compactions, questions and seconds; changes of the
extensions; tasks and their limit; backups. Turns, the cutoff, the
capacity and the number of jobs are settings of the code itself and kept small; the others
cut counters that would grow for ever. Symmetry is used only where no liveness property
and no CHOOSE depends on the identity of the members (callers, firings; replies; tasks of
the extension manager; threads).

## Plan

What is left, in the order of its worth:

1. The agent pool: eviction of an agent that is still replying, the loading of extensions
   when a session is resumed, and the state of extensions written back to the session by
   whoever changed them last.
2. schedule_recipe in `Scheduler`; the slash commands in `ReplyLoop`; secrets in
   `ConfigFile`.
3. An abstract batch of tool calls (each call: asked or not, one outcome, one record)
   implemented by `ToolApproval`, and an abstract job table implemented by `Scheduler` for
   one caller.

## Not modelled

Providers' formats and back-off, authentication, the patterns of the security and masking
inspectors, previews, prompts and templates, audit log, downloads, recipes' parsing, the
bundled MCP servers and all user interfaces: pure computations on text, or I/O with no
decision the core depends on. They are most of the repository's lines. Session naming and
usage accounting run beside a reply and touch other rows than its messages. Secrets are in
a keyring or a file of their own, which is written in place and has no backup. Slash
commands, schedule_recipe and the agent pool are left for later.
