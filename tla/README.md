# Nyx desktop agent: a TLA+ verification project

Nyx is a character that lives on the user's machine: one Python process holds a
host and several characters, each with its own SQLite (or PostgreSQL) store, its
own event bus and its own background work; a React front end, a Tauri shell and a
OneBot chat adapter talk to it. This directory holds TLA+ models of the parts of
that process where the order of steps decides whether it is correct, the TLC
configurations that check them, and TLAPS proofs of their safety.

Every definition is translated from the code; `PROJECT.json` maps each one to the
lines it stands for. Paths below are relative to `src/`.

1. [The system](#1-the-system)
2. [The modules](#2-the-modules)
3. [What the runs check](#3-what-the-runs-check)
4. [Fairness](#4-fairness)
5. [What is proved](#5-what-is-proved)
6. [Findings](#6-findings)
7. [What is not modelled](#7-what-is-not-modelled)
8. [The plan](#8-the-plan)

To check a module: `tlc -config X.cfg M`. To check its proofs: `tlapm MProofs.tla`.

## 1. The system

### How the parts meet

    user --HTTP--> API --publish--> [ event log + deliveries ] --worker per consumer--> handlers
    OneBot --on_external-->              ^            |                                    |
                                         |            +--> outbox --> OneBot --> recipient |
                                         +---- follow-up events, same transaction ---------+
    clock (runtime timers) --> facades: next activity, desires, questions that expire, reflection

Four ways of meeting matter for correctness:

* **Durable events.** `EventBus.publish` stores an event and one delivery row per
  interested consumer in a commit; a worker per consumer claims rows, calls the
  handler, and records success, a retry or a dead letter. Between modules there is
  no other transaction.
* **Shared transactions.** A handler may mark its effect and append follow-up
  events in the transaction of its own domain change (`effect_transaction`).
* **Direct calls.** Facades call each other, and hold `asyncio` tasks in their
  fields. Nothing but an `await` separates their steps; a lock or a conditional
  UPDATE is the only protection.
* **Lifetime.** The host loads, stops and unloads a character. A stop closes the
  admission of every module, waits for what was admitted and only then closes the
  database.

### Inventory

For each part: the state it keeps, its operations, what is hard, what makes it
correct. The module that covers it is in brackets.

**Event bus** (`nyx/events`) [EventDelivery]. State: `event_log` with its sequence,
`event_delivery` (status, attempts, due time, lease), `event_effect`; in memory the
handlers, the workers, `_accepting` and `_stop_event`. Operations: publish, claim,
succeed, fail, recover at start, backfill, drain, stop, release of leases. Hard:
crash between the domain commit and the mark of success, leases of dead workers,
backoff against ordering, consumers added by a release, stop against work in
progress. Correct when: no delivery has two handlers, an effect is applied once,
follow-up events are never lost, user messages are taken in the order of admission,
retries are bounded, nothing admitted is forgotten, every delivery is settled.

**Runtime supervision** (`nyx/runtime.py`, `subscriptions.py`) [EventDelivery,
ActivityLifecycle, Conversation, CharacterHost, Memory]. State: timers and supervised tasks, the locks of a user message.
Operations: `supervise_bus`, `run_character`, `stop_character`, `on_user_message`,
proactive chat, presence. Hard: a failure of one supervised task, stop against
timers. Correct when: a stop that reports success has left no writer.

**Activity** (`nyx/activity`) [ActivityLifecycle, ActivityWork]. State: activity and task rows, the
claimed desire, the facade's `_task` handle, `_quiescing`. Operations: choose and
start, run with checkpoints, settle, interrupt, recover, quiesce. Hard: several
coroutines start and interrupt; commits and task creation are apart; cancellation
takes up to five seconds; crash under a running activity. Correct when: one activity
at a time, a claimed desire is always owned by an activity, a questionnaire is never
answered twice, what nobody executes does not stay RUNNING, and a work that was halted
leaves what one run of it would have left.

**Desire** (`nyx/desire`) [ActivityLifecycle, Conversation].
State: pressure per type, short- and long-term desires, generation attempts.
Operations: claim, release, suppress, satisfy, expire, generate, apply periodic
change. Hard: generation asks a model outside the transaction and is replayed after
a crash; claims of the proactive chat. Correct when: a desire is consumed once, a
generation is applied once, pressure falls once per desire.

**Inner life** (`nyx/inner_life`) [Memory]. State: emotion (volatile),
energy, slow traits, narrative. Operations: apply an event, reflect. Hard: a request
for reflection is outdated when it is handled; the model prepares outside the
transaction. Correct when: growth is applied once, and only for a request that still
holds.

**Expression** (`nyx/expression`) [ToolExecution, Conversation].
State: history, the terminal event of a reply with the inputs it covers, questions
that wait, pause and expire. Operations: reply (quick, slow, discussion), collect
inputs, answer, commit the terminal, archive, ask, mutter, expire. Hard: inputs that
arrive during a reply, replay of a reply whose terminal is committed, expiry against
answer. Correct when: one terminal per reply, every message is covered by exactly
one reply, a replay neither answers nor acts again.

**Tool execution** (`nyx/expression/tool_pipeline.py`, `nyx/tools/registry.py`,
`tool_call_store.py`) [ToolExecution]. State: the checkpoint of the tool graph, a
receipt per attempt. Operations: plan, decide, select, begin, execute, accept,
review, plan again, yield to inputs. Hard: crash between call, receipt and
checkpoint; resumption under other inputs. Correct when: a side effect happens at
most once, and what the reply says it did is what it did.

**Tools** (`nyx/tools`). Adapters for files, web search, browser; no state of their own.

**Memory** (`nyx/memory`) [Facts, ConversationSegments, Memory]. State: memories and
their edges, conversation segments, facts, lessons, evidence; an index in memory.
Operations: append a turn, judge a segment and extract its facts, persist with
deduplication, link, evict, recall, count corrections. Hard: rows written back whole
after a model call, replayed appends, several routes that store the same words, facts
that arrive in any order. Correct when: a turn is archived once and its judgement
covers it, a predicate of one value has one value at a time, nothing is remembered
twice or lost to a failure.

**Reading** (`nyx/reading`) [Reading]. State: books, two progress cursors, notes,
bookmarks, source blocks and buffers. Operations: import, save progress, evaluate a
paragraph, integrate at a chapter's end, quiesce and drain. Hard: background work
that outlives its request, blocks replayed after a failure, two checks of one
boundary. Correct when: the whole text is digested, each block once, no output is
forgotten before a memory was made of it, and a page never overwrites progress it has
not seen.

**Research** (`nyx/research`). A sequence of model calls inside one tool call.

**Transports** (`nyx/transports`) [TransportOutbox]. State: a queue row per message, two
cursors, leases; the connection. Operations: scan, claim, send, await, confirm,
retry, release. Hard: lost and late answers, broken sessions, crashes, a head of the
queue that is held up. Correct when: everything said is shown, in order, confirmed
only if shown, repeated only for an interruption.

**Host and characters** (`nyx/app_context.py`, `character_cards.py`, `bootstrap.py`)
[CharacterHost]. State: records of
characters with a status, the loaded applications, the current one, presence and its
retries, pairing codes. Operations: register, start, select, unload, restore,
observe, flush presence, pair. Hard: operations that overlap on one character, a
start that fails and is retried, closing. Correct when: one application per
character, no database closed under an operation, no observation delivered to the
wrong character.

**Database** (`nyx/db.py`) [a transaction is one step of every model]. State: the
connection and its lock, a circuit of failures.

**Plugin harness** (`nyx/harness.py`, `plugins.py`) [its lanes, in Memory]. Orders
plugins by what they need and binds handlers to consumers.

**HTTP API** (`nyx/api`, `main.py`) [messages in Conversation, commands on characters in
CharacterHost]. Translates requests into calls of facades; the routes of a character
count themselves as users of its application.

**Evaluation** (`nyx/eval`), **Model clients** (`nyx/llm`), **Configuration and types**:
append-only records, external calls, data.

**Web frontend** (`frontend/src`) [not modelled]. State: the chat store's pending
replies, the generation of the selected character. Hard: POST answers, events,
history and snapshots in any order.

**Desktop shell and launcher**, **Deployment and scripts**: one child process, and
scripts an operator runs.

## 2. The modules

| module | models | kind |
|---|---|---|
| `DeliveryContract` | what the bus promises a consumer | abstract specification |
| `EventDelivery` | `events/bus.py`, with `runtime.py`'s supervisor and stop | detailed, refines it |
| `MCEventDelivery` | two events, two consumers | instance |
| `EventDeliveryProofs` | | proofs |
| `ActivityLifecycle` | `activity/*.py`, statuses of `desire/lifecycle.py`, part of `runtime.py` | component |
| `MCActivityLifecycle` | an activity for a desire, one for a task; resumable, a survey or neither | instance |
| `ActivityLifecycleProofs` | | proofs |
| `TransportOutbox` | `transports/outbox.py`, sending half of `onebot.py` | component |
| `TransportOutboxProofs` | | proofs |
| `ToolExecution` | `expression/tool_pipeline.py`, `tools/tool_call_store.py`, the reply around them | component |
| `ToolExecutionProofs` | | proofs |
| `Conversation` | questions and their clock (`expression/store.py`, `facade.py`), proactive chat (`runtime.py`), growth of desires (`desire/*.py`) | component |
| `MCConversation` | two questions, two messages, two desires | instance |
| `ConversationProofs` | | proofs |
| `CharacterHost` | `app_context.py`, the life of a character in `runtime.py`, the host's routes | component |
| `CharacterHostProofs` | | proofs |
| `Reading` | `reading/facade.py`, `integration.py`, `store.py` | component |
| `ActivityWork` | what a runner executes: `activity/exploration.py`, `browser_survey.py`, pages and creations in `facade.py` | composition with `Reading` |
| `ActivityWorkProofs` | | proofs of `Reading` and `ActivityWork` |
| `MCReading` | three paragraphs, two chapters; two versions of a page, three searches | instance |
| `Facts` | `memory/facts.py`: what a new fact does to the known ones | operators |
| `ConversationSegments` | `memory/segments.py` with the segment methods of `memory/facade.py` | component, over `Facts` |
| `Memory` | the rest of `memory/facade.py` and `memory/store.py`, `inner_life/*.py` | composition with `ConversationSegments` |
| `MemoryProofs` | | proofs of the three |
| `MCMemory` | eleven requests, four turns, four remarks | instance |

`TransportOutbox`, `ToolExecution` and `CharacterHost` have constants that a
configuration can give, so they are checked without an instance module.
`ConversationSegments` is checked as a part of `Memory`: the two share the facts, and
the lock that separates them is the only thing that does.

They meet as follows. What `EventDelivery` promises (each delivery in order, again
after a failure, its effect at most once) is what the others assume of a message or a
request that reaches them: `ToolExecution!Deliver`, `Conversation!BeginReply`,
`Memory!Compose` and `Memory!BeginReflection` take a delivery, and `marked`,
`message` and `requested` remember what was done. `Conversation` and
`ActivityLifecycle` share the statuses of a desire, one for interaction desires and
one for the others, which no code path mixes. `CharacterHost` sees of a character only
what keeps its database busy.

An operator marked `(wrong on purpose)` is never used by a specification. It is a
definition of the module as a plausible mistake would have it (a dropped guard, a
missing reset); putting it in the place of the definition that follows it makes the
property that `PROJECT.json` names fail, which shows that the property depends on
that line of the code.

### EventDelivery

One transaction under the database lock, or one step of a worker between two awaits,
is one action.

| variables | code |
|---|---|
| `seq`, `lastSeq`, `status`, `attempts`, `due`, `lease`, `effect` | the tables `event_log`, `event_delivery`, `event_effect` |
| `applied` | history: how often a handler's change was committed |
| `bus`, `accepting`, `stopping`, `handlers` | `EventBus.run`, `_accepting`, `_stop_event`, `_handlers` |
| `pc`, `cur` | where each consumer's worker stands and what it holds |
| `runs` | how often `run()` was entered; bounds restarts |

Time is not a number: `due` and `lease` say whether a moment has come, and
`RetryDue` and `LeaseExpires` let it come. `Transactional` consumers mark their
effect in their own transaction (`CommitTransactional`, with the follow-up event of
`Follow`); the others commit and are marked afterwards (`CommitPlain`), so that a
crash between may apply their change again. That is what the code offers them, and
`AppliedOnce` speaks of the transactional ones only. It is proved, and the run checks it
as a part of `ContractSpec`. The wake queue, the SSE stream
and the compatibility queue for `join()` are left out: a worker that misses a wake
scans again.

`DeliveryContract` knows three facts: the position of an event, what is owed to each
consumer with its outcome, and how often the effect was applied. `EventDelivery`
implements it under a mapping that reads the outcome from `status`.

### ActivityLifecycle

Callers (clock ticks, generated desires, assigned tasks: `_maybe_start_activity`),
interrupters (`ActivityFacade.interrupt`), runners (the background `asyncio` tasks)
and `stop_character` are processes; each action is what the code does between two
awaits. `act`, `desire`, `task` are the status columns; `ended` holds activities
whose end has not reached the desire, whether still to be delivered or a dead letter
(which an operator may retry). `handle` is `ActivityFacade._task`, `passed` and
`victim` are the copies of it that coroutines keep across an await: the hazards of
this component are in those copies.

Choices of the model: `Activities` is finite, so `StartFails` also stands for a
choice without candidates; each runner is used once, which bounds the starts, and
which one is next does not matter (`NewRunner`); a checkpoint writes the task's status
back as it was read (`SaveCheckpoint`), as `save_task` does. A caller is cancelled where
`stop_character` drains the bus, and where `EventBus.run` fails and takes its workers
with it (`BusFails`), at whatever await its handler stands; so is an interrupt.
`CallerCancelled` after the commit leaves a RUNNING row without a runner.

### TransportOutbox

One recipient. An event is its position in the log. `scanned`, `confirmed` and `row`
are `transport_checkpoint` and `transport_outbox`; `pc`, `held` and `answer` are the
sender's session; `wire` and `got` are the remote program, which is external: it
shows or refuses what it is sent, in any order, and its answer may be lost or late.
`MaxFaults` counts what the environment may do to a message: lost and late answers,
refusals, broken sessions, stops, crashes. The receiving half is
`EventDelivery.Publish` under a stable identity.

### ToolExecution

One action is one node of the tool graph with the edge that follows it, as the graph
is checkpointed between them. `execute` is the exception: it claims a receipt, calls
the tool, saves the outcome and is checkpointed only then, so it is four actions and
`place` says how far it has come. `next`, `basis`, `update`, `pending`, `records`,
`calls` and the budgets are `ToolState`; `receipts` is the table of
`tool_call_store.py`; `reply` is the reply graph of `pipeline.py` with what
`ExpressionFacade.reply` collects; `log`, `fence`, `terminal` are the events.
`Interrupted` is a crash, a cancellation or an error of the database: `reply`,
`place` and `outcome` are lost, and the redelivery of the user message (`Deliver`)
starts over the same checkpoint.

Choices of the model: what a language model answers is free, within the shape the
parsers let through. `fence` is a message that may not join the reply (an annotation,
a message of another discussion, an answer to a question). A result in which a tool
reports an error is received as the exception would be; only its receipt differs, and
only where new inputs wait. A failed analysis uses up the remaining steps. The input
check and the claim of the receipt in `execute` are one step, as an arrival between
them cannot be told from one after the claim. The status "skipped" is left out: it
needs a tool that lost its authorisation between two runs, and the schemas are part
of what a continued checkpoint is compared with. So are checkpoints of releases
without receipts, and the recursion limit of the graph library.

### Conversation

What stands between the user and the character: `question` is the table of
interaction attempts, `message` the user's messages with their delivery, `desire`,
`value`, `stamp` and `attempt` the rows of an interaction desire, of its pressure and
of a generation under way. `turn`, `clock`, `starter` and `eval` are the four
coroutines that touch them: the worker of user messages, `check_timeouts`,
`check_initiate_chat` and `run_eval`; each is a chain of transactions with awaits
between. A claim of a question or a desire is a conditional UPDATE in the code and a
guard here. `value` is the set of pressures rather than their sum, so that one can say
which of them a generation uses up.

Choices of the model: time is whether a question is late; the answer that a model
writes is free; `stranded` remembers whose holder died with the process, because two
rows have no owner after a crash and nothing looks for them: a question that the clock
had claimed and a desire that was claimed for a chat. `InitiativeOwned` and
`QuestionSettles` are stated for everything else. Seen while modelling and left as the
code has it: a reply that is tried again may satisfy the desire of its question once
more (`expression/facade.py:766`); an evaluation replayed after a crash resets the
pressure that has come since; the comparison `updated_at + 1e-9` is finer than a float
of that size. Every kind of reply ends in the one
`_finalize_user_reply`, so only that end is modelled. `TypeOK`
stands in the module for a proof to come and is not part of the run.

### CharacterHost

One character in full, the others only where selection needs them. `status`, `reset`,
`baseline` and `selected` are its record in the host's database, `accepted` and
`delivery` the presence observed and owed to it; `log` and `mark` are in the
character's own database, which no transaction spans with the other. `op` is whoever
holds `operations[id]` (a start, an unload, a retry) and where it stands; `flush`,
`loops`, `request` and `child` are what may use the database: the flush of presence,
the tasks of the runtime, an HTTP request and the runners or background tasks of it
(`child`, `stray`).
`app` says that the application exists and its database is open.

Choices of the model: a sample is its number; a stop that exceeds its grace is
`StopTimesOut`, possible while anything is still live; `Restore` takes the latest
sample for its baseline. `child` is a runner or background task that the stop can see:
`reading._background_tasks` and what `app.activity._task` names. A runner that this
handle has lost (`LoseHandle`, finding 2) is `stray`: the stop does not wait for it
(`runtime.py:486`, `514`), and it goes on with a closed database until it ends.
`NoUseAfterClose` speaks of what the stop waits for, and not of `stray`. A failure that
`run_character` has read as RUNNING and saves after an unload has begun replaces STOPPING by FAILED (`runtime.py:446`), and a crash
then starts the character again; `StoppingSettles` excludes that case by its
left side. Pairing of devices, the claims of returning users and the limit of
four loaded characters are left out.

### Reading

One book, its text counted in units. `progress` is the row that the page of the user,
the character's reader and the completion marker all write, only the first of them
with a comparison of revisions; `client` is what the page knows. `source` is the
memory state of the book: the cursor, the block that is pending and its digest, once a
model has made it. `workers` are the three callers of `sediment` under one lock of the
book, with the integration they may go on to; `calls` the two callers of
`check_chapter_boundary`; `impulses` the evaluations of paragraphs under a semaphore.
`buffer` holds the outputs of the character until an integration makes a memory of
them, in `journal`; `lost` those the cap or the end of the process took.

Choices of the model: the parts of an output that a prompt of limited length can hold
are `PromptParts`; a digest always yields `Items` items; blank blocks, the
deduplication of semantic evidence, notes and bookmarks are left out. The run evaluates
one page at a time with a semaphore of one.

### ActivityWork

What `ActivityLifecycle` calls working, from the inside. `job` is the activity with its
kind: a book, whose reading is `Reading`, a page, sources, a piece of writing or a
questionnaire. `ckpt` is the checkpoint in the activity's progress (`exploration`,
`creation`) or in the task's row (a page, a questionnaire), `mine` the runner's copy, `at`
how far it is beyond the checkpoint. `exposed`, `learnt`, `topics`, `pieces` and `clicked`
are what it leaves elsewhere: evidence, knowledge, subtopics of the parent desire, files,
clicks on a site. `pageText` is the text of the page that was saved first; a page may read
otherwise each time it is fetched. A block of a page and a source of an exploration go the
same way from the pending entry to the cursor (`RecordBlock` to `FinishBlock`), as the code
has it twice (`_run_web_task`, `_read_results`).

Choices of the model: a behaviour is one activity, or one task of a page with all the
activities started for it. `HaltJob` is what the user, a stop and a crash have in common;
which of them leaves what is in `ActivityLifecycle`, as is the condition under which no
second runner is at work. The steps that only choose words (prompts, related memories,
references, the observation of the screen), the list of tool calls for display, blank
blocks, and the reset of a checkpoint that an older release left are left out. Rest, idle
reflection and observation have no steps.

### Facts, ConversationSegments and Memory

`Facts` has no variables. It is what recording a fact does: which known facts it
duplicates, replaces, shortens, and where it ends itself because a later one is known
already.

`ConversationSegments` keeps `segments`, a sequence that only grows, with `archive` and
`recallUses` as the tables that make appending and counting idempotent. `keeper` is the
operation that holds the lock, with the copy of the row it read: every judgement and
every extraction writes the whole row back, and the lock is what makes that safe. What a
model may understand of a segment is one of the `Statements` made of claims that were in
what it was shown. A prompt shows the first 12000 characters of a segment
(`memory/facade.py:908`, `1221`), here the first `PromptTurns` turns (`Shown`), a turn that
is cut among them. What follows is never judged nor extracted, and the row is marked
judged and extracted all the same; `JudgedAsItStands` says that a judgement stands only
while a new one would be shown the same turns. Topics a judgement gives replace those of
the segment, none leave them.

`Memory` composes with it. A request to remember comes by one of five routes; three are
durable events (`marked`) with one worker per lane, two are calls of an activity, an
upload or a failed tool. `writers` says where each stands between the search for a twin,
the model, the insert, the links, the contradictions and the eviction. `receipts`,
`signals` and `learner` are a correction from its receipt to the lesson; `requested`,
`reflector`, `narrative`, `unread` and `goals` a reflection from its request to its
commit; `mood` counts the shifts kept in memory. `memories` is a set of rows, and `staler`
orders them by when their freshness was last made full, which is what an eviction goes by.
`merged` is history: what a request that was to last asked for when a fading row was
strengthened in its place. A row has a `source` (a book, a material, a page of the web, a
local file) or none, and the search for a twin stays within it: the same words of one kind
may be there once per source and once without (`store.py:430`). `StandIns` says which row
stands for a content: its twin, or else at most one row near it, or none. Whether a near
row is taken is free, since it depends on a score (the first candidate only), its age for
an episode, numbers and negations, and on an embedding that may fail.

Choices of the model: contents are values, and which of them are alike, or alike enough
to be compared, is a constant (`Close`, `Akin`); what a model judges is chosen from
`Judgements` or free; times are the count of reflections begun (`epoch`) or the clock of
the conversation. Links have no weight or kind, so pruning may take any of them. A
reflection reads all memories and shows its model the twenty latest of them and those its
request names; `listed` is what it read. Left out: the vector index and the
ranking of a recall, the count of recalls of a memory (nothing in the code calls it),
the splitting of documents into passages, topics that differ from a source's prefix only
in case, energy, the decay of the mood, drift of
personality. The comparison of long-term desires and of evidence in the commit of a
reflection is modelled, and never fails: only reflections insert the one and consume the
other, and they have one worker.

## 3. What the runs check

Deadlock is not checked, because every one of these systems may stop: a character is
unloaded, a reply is done, the bounds of the environment are used up.

| run | question | bounds |
|---|---|---|
| `event_delivery` | Do crashes, failures, stops, restarts and new consumers leave the deliveries right, and does the bus implement the contract? | 2 events, 2 consumers, 2 attempts, 2 runs of the bus; 1.3 million states |
| `event_delivery_live` | Is every delivery settled, and does every stop finish, when abandoned leases run out before a restart? | one event for one consumer only, `PromptRestart = FALSE` |
| `event_delivery_stuck` | ... and when the restart is sooner? (a violation, finding 1) | the same, `PromptRestart = TRUE` |
| `activity` | Do desires and tasks stay with their activities whoever interleaves? | 2 callers, 1 interrupter, 2 runners, crashes, a failing bus; 1.7 million states |
| `activity_orphans` | Is what nobody executes any more settled, with a runner's handle at hand? | 2 callers, 2 runners, stops, a failing bus; 155 thousand states |
| `activity_overlap` | One runner with two callers? (a violation, finding 2) | 2 callers, 1 interrupter, 2 runners; no stop, crash or failing bus needed |
| `transport_outbox` | Is everything shown, in order, and confirmed only when shown? | 3 events, scans of 2, 3 interruptions |
| `tool_execution` | Are actions done once, remembered and never begun on old inputs? | a read and an action, 2 rounds, 1 new plan, 2 attempts, 2 inputs, 1 interruption; 0.9 million states |
| `conversation` | Do questions, messages, chats and desires keep to each other, whoever is late or fails? | 2 questions, 2 messages, 2 desires, in four mixes of budgets; 140 thousand states |
| `character_host` | Is a character's database open as long as it is used, presence in order, an unload finished? | 2 samples, 3 commands, 1 request, 2 faults; 600 thousand states |
| `reading` | Is the whole text digested once, every output kept, every revision one state? Does a work that is halted leave what one run would? | 3 paragraphs, 2 chapters, 1 each of reading, page, save, check, fault; the other kinds of work with 2 halts each; 1.7 million states |
| `memory` | Is everything said and learned kept once, and does the inner life follow from it? | eleven mixes of budgets over 4 turns, 11 requests, 4 remarks, 3 reflections; 376 thousand states |

What each property says is written above its definition. Of the type invariants, those
of `CharacterHost`, `ActivityWork` and `Memory` are part of a run; the others are proved
and not part of one, nor are the invariants section 5 marks so. Why the bounds are enough:

* **EventDelivery.** Every hazard of a delivery concerns it and at most one other
  delivery of its consumer, or its follow-up; two events with contradicting
  timestamps give both, and the follow-up `m2` may also be published by itself. Two
  consumers give one of each kind. Two attempts give a retry and a dead letter, two
  runs a crash or a stop with its recovery. `FirstHandlers` leaves one consumer to a
  later release.
* **ActivityLifecycle.** Two activities. In `activity` the one of the desire can be
  resumed and the one of the task is a survey: the desire and the task contend for the
  runner, an interrupt and the activity's end for the row. Several activities for one
  desire are beyond the instance; the theorem `DesireOwned` covers them. The runs differ in
  processes and faults because callers, interrupts, stops and crashes together exceed what
  TLC can enumerate: `activity` goes down by a crash, `activity_orphans` by a stop, and in
  both a failing bus cancels callers anywhere, also between commit and runner. Two callers
  are there in every run, since the handle is lost between two. Callers are
  interchangeable in `activity`, where a symmetry says so and no liveness is checked.
* **TransportOutbox.** Three events with scans of two make a scan begin where another
  ended; three interruptions hit one message three times or three messages once.
* **ToolExecution.** A call that may be repeated and one that may not, a decision that
  asks twice for the same, one result that fills the block (`MaxOutputs = 1`), one
  input that arrives anywhere, one interruption anywhere. The proofs lift all of
  these for safety.
* **Conversation.** Two questions are one that is answered and one that is asked by the
  same reply or runs out beside it; two messages are one that is tried again and one
  that overtakes it. The budgets are given out at the start of a behaviour: questions
  with everything that can happen to them; one desire that opens a chat; a chat and a
  question; desires that grow while pressure arrives. `GoalCount = 2` makes a satisfied
  desire pending again, `Capacity = 1` makes the second desire trim one, and a desire is
  generated from one pressure (`Peak = 1`) so that three suffice for two generations
  with one that arrives between.
* **CharacterHost.** Three commands reach unload, restore and select in any order beside
  a start; two samples are one before and one after any of them, either of which may be
  late; two faults are a failed start, a stop that times out or a crash, twice.
* **Reading.** Blocks of two units over paragraphs of one make a block end inside and
  outside a chapter; an output of two parts where a prompt holds one part makes an
  integration leave a rest; a buffer of one makes the cap bite. One fault strikes
  anywhere.
* **ActivityWork.** A behaviour has one kind of work; the book lies where it is while
  another is done. Two halts strike two different places, or one place twice. The page has
  two blocks or three, so that a second text would show; a search gives nothing, fewer
  sources than are read, one of them unusable, or more; three clicks are the limit.
* **Memory.** Each mix is a theme, so that what interacts is together: turns with
  maintenance or with a failure; requests that fade by the capacity of one or stay;
  remarks up to two lessons; reflections asked for by contradictions, by lessons and by
  the clock, and over a crash; a mix of a turn, a request and a remark that touch
  the same fact; and two requests from one source with words that are close, beside the
  same words from none. A prompt shows two turns, so that a segment of three is cut. A capacity,
  a link limit and a recall threshold of one put every limit within reach.

## 4. Fairness

Weak fairness is assumed for what the event loop, the supervisor or a clock does by
itself, and never for what a user or the environment chooses.

* `EventDelivery!Fairness`: each worker, the passing of backoffs and leases, drain,
  the return of `run()`, the release of leases, the loading of the character.
  `supervise_bus` loops with a bounded delay, and handlers end because model and tool
  calls have timeouts. `Run` has strong fairness: a stop may disable it and a later
  load enables it again; a character that is for ever stopped before its bus has
  started would otherwise count as a bus that never starts. No publication, failure,
  stop or crash is fair; `MaxRuns` bounds failures and restarts, so liveness means:
  once the interruptions cease.
* `ActivityLifecycle!LiveSpec`: a caller takes its steps and the clock keeps calling; a
  runner's work ends and it settles. `CallerRecovers` has strong fairness: `supervise_bus`
  starts a failed bus again after a growing delay, so a recovery that is begun again and
  again is completed once. Interrupts, stops and failures of the bus are not fair, nor is a
  cancellation, because a runner may resist it.
* `TransportOutbox!Fairness`: the adapter reconnects, backoffs and leases pass, the
  remote handles what reaches it. Refusals are bounded by `MaxFaults`; the code has
  no limit of its own, and a message refused for ever blocks the queue
  (a hazard no property covers).
* `ToolExecution!FairSpec`: the reply takes its steps, and an interrupted delivery is
  tried again, which is what `EventDelivery` shows of it within `max_attempts`.
* `Conversation!Fairness`: the clock of questions ticks, and a delivered message is
  handled until it is settled. Nothing else is fair: nobody has to open a chat, generate
  a desire or answer.
* `CharacterHost!Fairness`: a coroutine that is not waiting takes its step, requests and
  children end, a failed loop is saved, the presence loop comes back to an unfinished
  unload (`runtime.py:553`), a closing host closes and a host that is down is started
  again. Commands, failures, crashes and timeouts are not fair, and `MaxFaults` bounds
  the timeouts of a stop.
* `Reading` and `Memory` state safety only.

## 5. What is proved

TLAPS proves the following for every value of the constants, from the assumptions on
them that the modules name (`ConstantsOK`, `CallsAssumption`, `BoundsAssumption`, `JobsOK`, `NeverAssumption`,
`SegmentAssumption`, `MemoryAssumption`, `AskedAssumption`, `RemarkAssumption`) and
nothing else. Every proof has the same frame: an inductive invariant
(`IInv` unless named below), which TLC checked before it was proved, one lemma or step
per action, and PTL for the temporal conclusion.

**EventDeliveryProofs.** `TypeCorrect`, `NoDeliveryStolen`, `EffectOnce`,
`SuccessEarned`, `FollowUpKept`, `AdmissionOrder`, `AttemptsLimited`,
`NoEventForgotten`, and `ImplementsContract`: `EventDelivery` implements
`DeliveryContract`. The invariant has four parts. `Base` ties each worker to the row
it holds: workers exist only inside a run of the bus, and a worker that holds an event
finds its row `processing` and leased, so that recovery, which only a starting run
performs, and the release of a stopped bus never take a row from a worker that is
alive. `RowsInv` says which rows exist for what was admitted and which of them precede
others; the order of user messages is not inductive without it, because a later message
must be shown to wait while an earlier one is *anywhere* before its end, backoff
included. `MarkInv` relates markers, changes and successes. `AttemptsBudget` relates a
row's attempts to the runs of the bus, since an interrupted attempt is counted and not
limited: a row never sees more attempts than `MaxAttempts` plus the restarts of the bus.

**ActivityLifecycleProofs.** `TypeCorrect`; `DesireOwned` (an ACTIVE desire always has
its activity), which rests on `Engaged`: every live runner, every caller between its
choice and its runner, and every interrupter at work knows the activity it works on;
`SurveyOnce` (a questionnaire being answered is never handed out again). They hold for
any number of callers, and with a bus that cancels them. That one runner is alive at a time
is not proved: it is false, finding 2, and with it that a stop leaves no runner behind.

**TransportOutboxProofs.** `TypeCorrect`, `QueueComplete`, `ConfirmationEarned`,
`InOrder`. Order is not inductive: it needs that the sender holds the oldest unsent
message, and that nothing on the wire, and nothing ever shown, has an unsent message
before it (`HoldsFirst`, `ShownFirst`). `RepeatsBounded` (`RepeatsExplained`) counts: a
message was shown at most as often as it was claimed, less its requests on the wire and
the one about to be written (`Counted`), and every claim but the last was ended by an
interruption, as was the last if it cannot succeed any more (`ClaimsPaid`). The second
needs `Unanswered`: a sender that gives up on an answer while its request is still on the
wire was interrupted, and one that gives up after the request is gone had its
interruption when it went.

**ToolExecutionProofs.** `TypeCorrect`, `SideEffectsOnce`, `RecordsTrue`,
`ActionsKept`, `DecisionsFresh`. "At most once" needs to know where every receipt of
a side effect is: on record, or at hand (`ReceiptsKnown`); that a call at hand which
is on record is a retry, hence a read (`PendingRetried`); and what the pending call
looks like at each node (`PendingFits`), since a checkpoint is all that a resumed
reply knows. This part (`Ledger`) holds while the reply is open: afterwards
checkpoint and receipts are deleted one by one, and a deletion may fail.
`DecisionsFresh` rests on `InputsKnown`: once no message can join, everything
admitted is known.

**ConversationProofs.** `TypeCorrect`, `AnswersEarned` (`AnswersAreReplies`),
`InitiativeKept` (`InitiativeOwned`) and `PressureSafe` (`PressureKept`). The invariant
names, for every claim, who holds it: a message claims only while it has its turn
(`HasTurn`: all before it are settled), so at most one message claims, and at most one
question (`ClaimsHeld`); the worker and the clock know what they hold and leave nothing
claimed behind (`TurnKnows`, `ClockKnows`). `InitiativeOwned` is not inductive: a chat
whose claim is past the point where its desire was met or expired no longer keeps that
desire active, hence `ActiveKept` counts only the chats that still do. That an answered
chat has met its desire needs to know why a desire may be expired when the answer comes:
another chat about it ran out (`DesiresEarned`, `ChatsMeet`). `PressureKept` needs only
that equal stamps mean equal values (`StampTells`).

**CharacterHostProofs.** `TypeCorrect` (`TypeOK`), `NeverUsedAfterClose`
(`NoUseAfterClose`), `PresenceKeepsOrder` (`PresenceInOrder`). The second is about what
the stop waits for; a runner that the facade's handle has lost is outside of it, as it is
outside of the code's wait. `NoUseAfterClose` is not
inductive: whether a step that closes the database finds something alive depends on where
the operation stands, and on the status the host's database has for the character by
then. `Standing` relates these: the place of a start, an unload or a retry says whether
the database is open and which status it finds (`StartStands`, `UnloadStands`,
`RetryStands`); what an operation has waited for has ended and does not begin again
(`EndedSoFar`); a host that is down holds nothing (`HostStands`). For presence, the
sample that is flushed is the oldest that waits (`OldestFlushed`), and no sample that
waits is older than one the character has seen (`SeenBefore`).

**ActivityWorkProofs.** For `Reading`, `SourceCoveredAlways`, `OutputsKeptAlways` and
`RevisionNamesProgressAlways`; for the works, `WorkTyped` (`WorkTypeOK`) and
`LeavesOneRunAlways`. The book's invariant `BookInv` says that the pending block begins
at the cursor and what is known of it comes from its saved digest
(`PendingAtCursor`), and how far the holder of the lock is with it (`HolderKnows`); that the buffer is in the order of the outputs and
what an integration has taken are its oldest parts (`BufferInOrder`, `TakenFirst`); and
that the page's copy of the progress is not ahead of the row (`RevisionInv`). `WorkInv`
relates the runner to the checkpoint it would start again from: its copy is the saved one
(`RunnerInStep`); a block in hand is none of those behind the cursor, and nothing is
known of it before its digest is saved (`BlockInHand`); all blocks of a page come from the
version that was saved first (`PageRead`); sources are judged once (`SourcesJudged`);
there is one draft (`PieceInv`), and a questionnaire runs once (`SurveyInv`). What is proved is `BookInv /\ WorkInv` for
one specification, because a book is one of the works.

**MemoryProofs.** About the three modules of memory, whose every property of the run is
proved. `MemoryInvariant` is the shape of the state with the consistency of the archive
and of the facts; the others stand on it, each with what it needs beyond.

* `FactsDisjointAlways` (`FactsDisjoint`) rests on lemmas about the operators of `Facts`.
  A fact is recorded in a set whose facts of one matter are apart already; afterwards they
  are apart again (`AllApart`), because a fact that holds at the start of the new one is
  closed there, one that starts with it and says otherwise is removed, and the new one
  ends where the next begins. `ApplyFacts` is a recursive function over the claims; the
  lemma that it keeps `AllApart` takes the least number of claims for which it would
  not.
* `SegmentsKeptAlways` (`SegmentsKept`). Every copy of a row that the holder of the
  lock has read, also those that still wait in its queue, is the row as it is now, and a
  turn that was prepared is in the archive nowhere yet (`KeeperOK`); so writing a copy back
  loses neither turn nor recall, and what a judgement was shown (`heard`) is what the row
  shows until a turn joins it, which takes the judgement away. How many recalls a
  row counts is how many pairs were recorded for it (`CountsOK`).
* `TypeCorrect` (`TypeOK`). That links join what is there needs that
  dropping a memory takes its links with it, and that no memory is among those it was
  chosen to be linked with (`LinkingApart`).
* `RememberedOnceAlways` (`RememberedOnce`). No two rows of a kind have the same
  words from one source, nor from none, because the search is repeated in the transaction
  that inserts; a lesson has words of
  its own, told by its id (`LessonsNamed`). That what is done was kept needs the lane of
  observations: one is in hand at a time, it is the last observation until it ends, and
  the one before it was seen to be kept, so that a failure can put it back
  (`ObservedInv`).
* `LessonsEarnedAlways` (`LessonsEarned`). The sum is not inductive: between the mark of
  a correction and its count there is one remark more than is counted (`Uncounted`), and
  what clears a count has reached the threshold before (`Reached`).
* `InnerStateFollowsAlways` (`InnerStateFollows`). The narrative's date is the stamp of the
  last story (`StoriesOK`), the request in hand is not done (`InHand`), and shifts of the
  mood are counted from the start of the process (`MoodOK`).
* `HeededAlways` (`Heeded`). A request is dropped by comparing times, so the invariant
  does too: what was requested before the narrative's date has been read, and what was
  requested before the reflection in hand began is among what it read (`DoneRead`,
  `HandListed`). Both would fail if a memory could come to have an id that a request
  named earlier, hence `BirthInv`: an id that was given away, whether or not the row is
  still there, is never given to another row (`Born`, `IdsBorn`), and all ids that
  requests and handlers hold were given away (`AboutBorn`, `NearBorn`, `DropsFade`).

Proved and not part of a run: the five older `TypeCorrect`, `EffectOnce`, `SuccessEarned`, `AttemptsLimited`,
`QueueComplete` and `RecordsTrue`. The runs of these modules are kept for the properties
that a mutation of the code is likeliest to break.

Checked by TLC only: liveness (`DeliverySettles`, `StopCompletes`,
`OrphansReconciled`, `SpokenIsSent`, `ReplyEnds`, `QuestionSettles`,
`StoppingSettles`), which is out of the prover's reach. Every other property of a
run that is expected to pass is proved.

## 6. Findings

Two runs are expected to fail; each is a disagreement of the code with its own
documentation that came up while modelling. `PROJECT.json` quotes the lines.

1. **A delivery can stay `processing` for the life of the bus** (`event_delivery_stuck`,
   `nyx/events/bus.py:369`). Leases last 300 s and are looked at only when `run()`
   starts. A restart within that time does not requeue the interrupted delivery;
   nothing does later, every later delivery of the consumer waits behind it, and a
   drain never finds the bus idle.
2. **Two runners of one character** (`activity_overlap`, `nyx/activity/facade.py:366`).
   `_maybe_start_activity` reads `self._task`, waits for a lock, works with the stale handle
   and writes it back. TLC's trace: two callers read None; the first starts an activity; an
   interrupt of it fails in a read, and its recovery halts the row of the living runner; the
   second caller finds nothing RUNNING and starts another. Without any failure the same
   happens when an interrupt falls between the commit and the runner. Or the second caller
   finds the row RUNNING and returns the None it passed: the handle has lost the runner.
   `stop_character` then waits for nothing (`runtime.py:486`, `514`), answers yes, and the
   host closes the database under the runner, against its docstring (`runtime.py:465`) and
   `docs/facts/character-cards-facts.md:15`; this is `stray` in `CharacterHost`.

Seen while modelling, kept in the models as the code has it, and listed among the hazards
or with the module:

* Between the commit of RUNNING and the creation of the runner there is an await
  (`nyx/activity/lifecycle.py:138`); an interrupt there marks PAUSED what is then
  executed. A bus that fails there cancels the handler and leaves a RUNNING row that nobody
  executes. `_maybe_start_activity` recovers only if `_task` is a runner that has ended, so
  with `_task` still None the row stays until an interrupt or a restart, and no other
  activity starts; `docs/facts/activity-system-facts.md:11` says that restarts and the
  recovery from failures settle what has no executor. `OrphansReconciled` leaves this case
  out by its right side.
* A judgement and an extraction see the first 12000 characters of a segment
  (`nyx/memory/facade.py:908`, `1221`); later turns of a long one are never heard, and it
  counts as judged and extracted.
* The search for a twin without a source excludes topics by `LIKE`, which ignores case in
  SQLite, and a memory's source is told by `startswith`, which does not
  (`nyx/memory/store.py:444`, `facade.py:243`): a memory with a topic like "Web:x" has no
  source, and is never found as a twin.
* The outbox may repeat a message once per interruption, where
  `docs/facts/infrastructure-facts.md` speaks of a single repeat; `RepeatsExplained`
  states what holds.
* The plan review looks at the record inserted last, so that a retried call that is
  exhausted may not be reviewed.
* Two checks of the last chapter that overlap count the book as read twice
  (`nyx/reading/facade.py:756`).
* A crash while the clock holds a question leaves it CLAIMED
  (`nyx/expression/facade.py:1367`), and one while a chat is composed leaves its desire
  ACTIVE (`nyx/runtime.py:200`); nothing at start looks for either. A bus that fails and
  cancels the handler of a chat strands the desire in the same way.
* A failure saved late replaces STOPPING (`nyx/runtime.py:446`).
* An assigned piece of writing that is halted after its file was written, and whose
  activity is not resumed within its block of the schedule (`nyx/activity/starter.py:191`),
  is begun anew by another activity and leaves a second file; `LeavesOneRun` is about one
  activity.
* A crash between the mark of a remark and its count loses the correction
  (`nyx/memory/facade.py:1135`); an error of COMMIT itself leaves the mood shifted
  (`nyx/inner_life/facade.py:128`).
* A lasting profile that is observed while a scene has left the same words as a memory
  that fades is merged into that one (`nyx/memory/store.py:584` does not make it last) and
  may be evicted with it, where the comment at `nyx/memory/facade.py:1645` says that the
  profile is not washed away; `RememberedOnce` allows for it (`merged`).
* A reflection shows its model the twenty latest memories (`nyx/inner_life/reflection.py:30`);
  a request about an older one that is dropped as outdated was read from the store by the
  reflection that outdated it, and perhaps by no model. `Heeded` states the former.
* The type of an entity is part of its identity, so that two facts about one name under
  two types do not meet in `facts.py`, and may overlap.

## 7. What is not modelled

* Model output, prompts, parsing, scoring, embeddings, EPUB, file and network
  adapters: data with no protocol. Where their answers steer control they are
  nondeterministic.
* SQLite and PostgreSQL: a transaction is atomic and durable. Migrations run before
  anything else. The circuit that turns failures of the connection into unavailability
  is left out.
* The SSE stream, `join()` and the compatibility queue.
* Energy, which `get_state` settles outside any transaction
  (`nyx/inner_life/facade.py:325`); the decay of the mood and the drift of personality.
* The index of memories and the ranking of a recall; the splitting of documents.
* Notes and bookmarks of a book, pairing of devices, the claims of returning users.
* Research, and the log of tool observations; how an activity ranks desires and finds
  words for the models.
* The front end: its stores are copies of what the API and the event stream report.

A component is "modelled" in `PROJECT.json` only if every operation of it that changes
state is an action of a module; most are "partly", and their notes say what is missing.

## 8. The plan

Done: the bus (everything durable rests on it), activities (the most concurrent part),
the outbox, tool execution with the reply around it, conversation with the growth of
desires, the host, reading with the other work of activities, memory with the inner
life; and proofs of all of them.

Next:

1. **A contract of a book**: every paragraph is digested once, in order, as an abstract
   specification that `Reading` refines; most of its invariant is `BookInv`.
2. **A contract of a conversation**: every admitted message is covered by one reply, a
   question ends once; refined by `Conversation` with `ToolExecution` at the terminal.
3. **Energy and the chat store of the front end**: pending replies under reordered
   answers.
