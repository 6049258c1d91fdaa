------------------------------- MODULE Reading -------------------------------
(***************************************************************************)
(* Reading a book together (nyx/reading): the progress row that the page   *)
(* of the user, the reading activity and the boundary check all write; the *)
(* source text that turns block by block into evidence and knowledge; the  *)
(* asides and questions of the character, and the memory that a chapter's  *)
(* end makes of them.                                                      *)
(*                                                                         *)
(* One book.  The text is counted in units, a block is at most Block of    *)
(* them and paragraph p ends at unit Ends[p].  What runs between two       *)
(* awaits is one step; so is a transaction.  A model call may fail.        *)
(***************************************************************************)
EXTENDS Naturals, Sequences, FiniteSets

CONSTANTS
    Ends,           \* Ends[p]: the last unit of paragraph p
    ChapterStarts,  \* paragraphs that begin a chapter
    Block,          \* units of a source block (_SOURCE_BLOCK_CHARS)
    Items,          \* knowledge items a digest yields
    Parts,          \* fragments of an output
    PromptParts,    \* fragments a note prompt holds (_INTEGRATION_PROMPT_MAX_CHARS)
    BufferMax,      \* NYX_BUFFER_MAXLEN
    Concurrency,    \* _IMPULSE_MAX_CONCURRENCY_PER_BOOK
    Slots,          \* bound: paragraphs evaluated at the same time
    MaxReads,       \* bound: activities that read on
    MaxTurns,       \* bound: pages evaluated
    MaxSaves,       \* bound: positions saved by the user's page
    MaxChecks,      \* bound: boundary checks by the user's page
    MaxFaults       \* bound: failed model calls, and restarts

Paras == DOMAIN Ends
Total == Len(Ends)

ASSUME ConstantsOK ==
    /\ Ends \in Seq(Nat \ {0}) /\ Total > 0
    /\ \A p \in 2..Total : Ends[p - 1] < Ends[p]
    /\ ChapterStarts \subseteq Paras
    /\ {Block, Items, Parts, PromptParts, BufferMax, Concurrency} \subseteq Nat \ {0}
    /\ {MaxReads, MaxTurns, MaxSaves, MaxChecks, MaxFaults} \subseteq Nat

Workers == {"page", "activity", "boundary"}  \* who may sediment the source
Callers == {"user", "activity"}              \* who may check a boundary

VARIABLES
    \* durable
    progress,    \* reading_progress: nyx_position, read_count, revision (0: no row)
    source,      \* books.memory_state: cursor, the pending block, its saved digest
    evidence,    \* reading_evidence: blocks <<from, to>>
    knowledge,   \* knowledge memories: <<block, digest, item>>
    journal,     \* fragments of outputs some reading memory was made of
    \* volatile
    lock,        \* who holds ReadingIntegration._source_locks[book]
    workers,     \* where each call of sediment stands, and the integration after it
    calls,       \* where each check_chapter_boundary stands
    finished,    \* book_id in _finished_books
    buffer,      \* Nyx's outputs waiting for a boundary, oldest first
    impulses,    \* evaluate_paragraph and the dispatch it spawns
    questionPending,
    cooling,     \* the question cooldown is running
    accepting,   \* _accepting_background
    \* the page of the user
    client,      \* the progress it knows
    \* history
    digests,     \* digests made
    outputs,     \* outputs recorded
    lost,        \* outputs dropped: by the cap, or with the process
    left         \* what is left of the bounds

row == <<progress, client>>
text == <<source, evidence, knowledge, digests>>
work == <<lock, workers>>
checks == <<calls, finished>>
notes == <<buffer, journal, outputs, lost>>
asides == <<impulses, questionPending, cooling>>
vars == <<row, text, work, checks, notes, asides, accepting, left>>

Blocks == {b \in (0..Ends[Total]) \X (1..Ends[Total]) : b[1] < b[2]}
Outputs == Nat \ {0}
Fragments == Outputs \X (1..Parts)
Progress == [nyx : Paras, count : Nat, rev : Nat]
NoRow == [nyx |-> 1, count |-> 0, rev |-> 0]

Resting == [pc |-> "idle", target |-> 1, item |-> 0, pre |-> 0, taken |-> {}]
NoCall == [pc |-> "idle", target |-> 1, seen |-> NoRow]
NoImpulse == [pc |-> "idle", para |-> 1, mutter |-> FALSE, question |-> FALSE]

Locked == {"choosing", "recording", "digesting", "remembering", "composing", "announcing"}

TypeOK ==
    /\ progress \in Progress
    /\ source \in [cursor : 0..Ends[Total], block : Blocks \cup {<<>>}, digest : Nat]
    /\ evidence \subseteq Blocks
    /\ \A k \in knowledge : k[1] \in evidence /\ k[2] \in 1..digests /\ k[3] \in 1..Items
    /\ journal \subseteq Fragments
    /\ lock \in Workers \cup {"free"}
    /\ \A w \in Workers :
        /\ workers[w].pc \in Locked \cup {"idle", "waiting", "advancing", "gathering"}
        /\ workers[w].target \in Paras
        /\ workers[w].item \in 0..Items
        /\ workers[w].taken \subseteq Fragments
        /\ workers[w].pc \in Locked <=> lock = w
    /\ \A c \in Callers :
        /\ calls[c].pc \in {"idle", "resetting", "reading", "deciding", "spawning"}
        /\ calls[c].target \in Paras
        /\ calls[c].seen \in Progress
    /\ finished \in BOOLEAN
    /\ buffer \in Seq([id : Outputs, from : 1..Parts]) /\ Len(buffer) <= BufferMax
    /\ impulses \in [Slots -> [pc : {"idle", "evaluating", "queued", "muttering", "asking"},
                               para : Paras, mutter : BOOLEAN, question : BOOLEAN]]
    /\ questionPending \in BOOLEAN /\ cooling \in BOOLEAN /\ accepting \in BOOLEAN
    /\ client \in Progress
    /\ digests \in Nat
    /\ outputs \in {0} \cup Outputs
    /\ lost \subseteq Outputs

Init ==
    /\ progress = NoRow
    /\ source = [cursor |-> 0, block |-> <<>>, digest |-> 0]
    /\ evidence = {} /\ knowledge = {} /\ journal = {}
    /\ lock = "free"
    /\ workers = [w \in Workers |-> Resting]
    /\ calls = [c \in Callers |-> NoCall]
    /\ finished = FALSE
    /\ buffer = <<>>
    /\ impulses = [s \in Slots |-> NoImpulse]
    /\ questionPending = FALSE /\ cooling = FALSE /\ accepting = TRUE
    /\ client = NoRow
    /\ digests = 0 /\ outputs = 0 /\ lost = {}
    /\ left = [reads |-> MaxReads, turns |-> MaxTurns, saves |-> MaxSaves,
               checks |-> MaxChecks, faults |-> MaxFaults]

Spend(what) == left[what] > 0 /\ left' = [left EXCEPT ![what] = @ - 1]

To(w, pc) == workers' = [workers EXCEPT ![w].pc = pc]

-----------------------------------------------------------------------------
(* Sedimentation: source text to evidence and knowledge *)

\* The next block up to the end of a paragraph; a short one only to flush.
NextBlock(target, flush) ==
    LET full == source.cursor + Block
        to == IF full < Ends[target] THEN full ELSE Ends[target]
    IN  IF source.cursor >= Ends[target] \/ (to < full /\ ~ flush)
        THEN <<>> ELSE <<source.cursor, to>>

\* What the caller of sediment does when it returns, or raises.
AfterSediment(w, ok) ==
    CASE w = "page" -> Resting
      [] w = "activity" -> IF ok THEN [workers[w] EXCEPT !.pc = "advancing"] ELSE Resting
      [] w = "boundary" -> [workers[w] EXCEPT !.pc = "gathering"]

\* (wrong on purpose) an exception leaves the lock held
LeaveLocked(w, ok) ==
    /\ lock' = IF ok THEN "free" ELSE lock
    /\ workers' = [workers EXCEPT ![w] = AfterSediment(w, ok)]

Leave(w, ok) ==
    /\ lock' = "free"
    /\ workers' = [workers EXCEPT ![w] = AfterSediment(w, ok)]

\* (wrong on purpose) the block is cut anew although one is pending
TakeSourceBlockAnew(w) ==
    LET next == NextBlock(workers[w].target, w # "page") IN
    /\ workers[w].pc = "choosing" \/ (workers[w].pc = "waiting" /\ lock = "free")
    /\ UNCHANGED <<evidence, knowledge, digests>>
    /\ \/ /\ next # <<>>
          /\ source' = [source EXCEPT !.block = next, !.digest = 0]
          /\ lock' = w
          /\ To(w, "recording")
       \/ next = <<>> /\ Leave(w, TRUE) /\ UNCHANGED source

\* Under the lock of the book: a pending block first; otherwise the next one, saved before
\* any work on it.
TakeSourceBlock(w) ==
    LET next == NextBlock(workers[w].target, w # "page") IN
    /\ workers[w].pc = "choosing" \/ (workers[w].pc = "waiting" /\ lock = "free")
    /\ UNCHANGED <<evidence, knowledge, digests>>
    /\ \/ source.block # <<>> /\ lock' = w /\ To(w, "recording") /\ UNCHANGED source
       \/ /\ source.block = <<>> /\ next # <<>>
          /\ source' = [source EXCEPT !.block = next]
          /\ lock' = w
          /\ To(w, "recording")
       \/ source.block = <<>> /\ next = <<>> /\ Leave(w, TRUE) /\ UNCHANGED source

\* Recording the same block again changes nothing.
RecordEvidence(w) ==
    /\ workers[w].pc = "recording"
    /\ evidence' = evidence \cup {source.block}
    /\ workers' = [workers EXCEPT ![w].item = 0,
                     ![w].pc = IF source.digest = 0 THEN "digesting" ELSE "remembering"]
    /\ UNCHANGED <<source, knowledge, digests, lock>>

\* What the model answered is saved with the pending block before any of it is used.
DigestSourceBlock(w) ==
    /\ workers[w].pc = "digesting"
    /\ digests' = digests + 1
    /\ source' = [source EXCEPT !.digest = digests + 1]
    /\ To(w, "remembering")
    /\ UNCHANGED <<evidence, knowledge, lock>>

\* Each item in a transaction of its own; one that is there already is strengthened.
RememberKnowledge(w) ==
    /\ workers[w].pc = "remembering" /\ workers[w].item < Items
    /\ workers' = [workers EXCEPT ![w].item = @ + 1]
    /\ knowledge' = knowledge \cup {<<source.block, source.digest, workers[w].item + 1>>}
    /\ UNCHANGED <<source, evidence, digests, lock>>

CommitPending(w) ==
    /\ workers[w].pc = "remembering" /\ workers[w].item = Items
    /\ source' = [cursor |-> source.block[2], block |-> <<>>, digest |-> 0]
    /\ To(w, "choosing")
    /\ UNCHANGED <<evidence, knowledge, digests, lock>>

\* The exception leaves the pending block, and what was saved with it, for the next caller.
SedimentFails(w) ==
    /\ workers[w].pc \in {"recording", "digesting", "remembering"}
    /\ Spend("faults")
    /\ Leave(w, FALSE)
    /\ UNCHANGED text

SedimentStep(w) ==
    /\ \/ UNCHANGED left /\ ( \/ TakeSourceBlock(w) \/ RecordEvidence(w)
                              \/ DigestSourceBlock(w) \/ RememberKnowledge(w)
                              \/ CommitPending(w) )
       \/ SedimentFails(w)
    /\ UNCHANGED <<row, checks, notes, asides, accepting>>

-----------------------------------------------------------------------------
(* The progress row *)

\* The page reads the row again; a default stands for a missing one.
LoadProgress ==
    /\ client # progress /\ left.saves + left.checks > 0  \* bound: while the page is used
    /\ client' = progress
    /\ UNCHANGED <<progress, text, work, checks, notes, asides, accepting, left>>

\* The page saves the position it shows; a stale revision is refused.
SaveProgress(p) ==
    /\ Spend("saves")
    /\ client.rev = progress.rev
    /\ progress' = [progress EXCEPT !.nyx = p, !.rev = @ + 1]
    /\ client' = progress'
    /\ UNCHANGED <<text, work, checks, notes, asides, accepting>>

\* The paragraph at which an activity without a target stops: about one block on.
ActivityReadTarget(start) ==
    LET before == IF start = 1 THEN 0 ELSE Ends[start - 1]
        far == {p \in start..Total : Ends[p] - before >= Block}
    IN  IF far = {} THEN Total ELSE CHOOSE p \in far : \A q \in far : p <= q

\* The activity reads on to a target, or (0) about one block; what it read before is done.
ReadForActivity(wish) ==
    LET start == IF progress.rev = 0 THEN progress.nyx ELSE progress.nyx + 1
        target == IF wish = 0 THEN ActivityReadTarget(start) ELSE wish
    IN  /\ workers["activity"] = Resting /\ calls["activity"] = NoCall
        /\ wish = 0 => start <= Total
        /\ progress.rev > 0 => target > progress.nyx
        /\ Spend("reads")
        /\ workers' = [workers EXCEPT !["activity"].pc = "waiting", !["activity"].target = target]
        /\ UNCHANGED <<row, text, lock, checks, notes, asides, accepting>>

BoundaryKind(p) ==
    IF p >= Total THEN "book" ELSE IF p + 1 \in ChapterStarts THEN "chapter" ELSE "none"

Check(c, p) ==
    calls' = [calls EXCEPT ![c] = [pc |-> IF BoundaryKind(p) = "none" THEN "resetting" ELSE "reading",
                                   target |-> p, seen |-> NoRow]]

\* (wrong on purpose) the revision stays
AdvanceUnrevised ==
    LET target == workers["activity"].target IN
    /\ workers["activity"].pc = "advancing"
    /\ progress' = IF progress.rev = 0 THEN [progress EXCEPT !.nyx = target, !.rev = 1]
                   ELSE IF target > progress.nyx THEN [progress EXCEPT !.nyx = target] ELSE progress
    /\ workers' = [workers EXCEPT !["activity"] = Resting]
    /\ Check("activity", target)
    /\ UNCHANGED <<client, text, lock, finished, notes, asides, accepting, left>>

\* Only forwards, whatever the page saved meanwhile; then the activity checks the boundary.
AdvanceNyxPosition ==
    LET target == workers["activity"].target IN
    /\ workers["activity"].pc = "advancing"
    /\ progress' = IF progress.rev = 0 \/ target > progress.nyx
                   THEN [progress EXCEPT !.nyx = target, !.rev = @ + 1] ELSE progress
    /\ workers' = [workers EXCEPT !["activity"] = Resting]
    /\ Check("activity", target)
    /\ UNCHANGED <<client, text, lock, finished, notes, asides, accepting, left>>

UserChecksBoundary ==
    /\ calls["user"] = NoCall
    /\ Spend("checks")
    /\ Check("user", client.nyx)
    /\ UNCHANGED <<row, text, work, finished, notes, asides, accepting>>

-----------------------------------------------------------------------------
(* check_chapter_boundary *)

Done(c) == calls' = [calls EXCEPT ![c] = NoCall]

\* Inside a chapter: the book is being read again.
ResetCompletionMarker(c) ==
    /\ calls[c].pc = "resetting"
    /\ progress' = IF progress.rev > 0 /\ progress.nyx > calls[c].target
                   THEN [progress EXCEPT !.nyx = calls[c].target, !.rev = @ + 1] ELSE progress
    /\ finished' = FALSE
    /\ Done(c)
    /\ UNCHANGED workers

GetProgress(c) ==
    /\ calls[c].pc = "reading"
    /\ calls' = [calls EXCEPT ![c].pc = "deciding", ![c].seen = progress]
    /\ UNCHANGED <<progress, finished, workers>>

\* As far as this call has seen, this end of the book was counted before.
Counted(c) ==
    \/ finished
    \/ calls[c].seen.rev > 0 /\ calls[c].seen.nyx >= Total /\ calls[c].seen.count >= 1

\* _spawn_background(_integrate_buffer): one at a time, none after quiesce.
SpawnIntegration(c, pre) ==
    workers' = IF accepting /\ workers["boundary"] = Resting
               THEN [workers EXCEPT !["boundary"].pc = "waiting",
                       !["boundary"].target = calls[c].target, !["boundary"].pre = pre]
               ELSE workers

ChapterEnds(c) ==
    /\ calls[c].pc = "deciding" /\ BoundaryKind(calls[c].target) = "chapter"
    /\ finished' = FALSE
    /\ SpawnIntegration(c, calls[c].seen.count)
    /\ Done(c)
    /\ UNCHANGED progress

IncrementReadCount(c) ==
    /\ calls[c].pc = "deciding" /\ BoundaryKind(calls[c].target) = "book" /\ ~ Counted(c)
    /\ progress' = [nyx |-> Total, count |-> progress.count + 1, rev |-> progress.rev + 1]
    /\ calls' = [calls EXCEPT ![c].pc = "spawning"]
    /\ UNCHANGED <<finished, workers>>

BookEnds(c) ==
    /\ calls[c].pc = "spawning"
    /\ finished' = TRUE
    /\ SpawnIntegration(c, calls[c].seen.count)
    /\ Done(c)
    /\ UNCHANGED progress

SourceMemoryPending == source.block # <<>> \/ source.cursor < Ends[Total]

\* Not counted twice; but what a failed integration kept is tried again, with the count
\* from before this reading.
EndsAgain(c) ==
    /\ calls[c].pc = "deciding" /\ BoundaryKind(calls[c].target) = "book" /\ Counted(c)
    /\ finished' = TRUE
    /\ IF buffer # <<>> \/ SourceMemoryPending
       THEN SpawnIntegration(c, IF calls[c].seen.count = 0 THEN 0 ELSE calls[c].seen.count - 1)
       ELSE UNCHANGED workers
    /\ Done(c)
    /\ UNCHANGED progress

BoundaryStep(c) ==
    /\ \/ ResetCompletionMarker(c) \/ GetProgress(c) \/ ChapterEnds(c)
       \/ IncrementReadCount(c) \/ BookEnds(c) \/ EndsAgain(c)
    /\ UNCHANGED <<client, text, lock, notes, asides, accepting, left>>

-----------------------------------------------------------------------------
(* ReadingIntegration.integrate: the buffer becomes a memory *)

\* Fragments of the buffer that no memory was made of: the place of the output, the part.
Waiting == {f \in (1..Len(buffer)) \X (1..Parts) : f[2] >= buffer[f[1]].from}

Before(f) == {g \in Waiting : g[1] < f[1] \/ (g[1] = f[1] /\ g[2] < f[2])}

\* What the prompt holds of a snapshot of the buffer: whole outputs, and a part of the last.
Prompted ==
    {<<buffer[f[1]].id, f[2]>> : f \in {g \in Waiting : Cardinality(Before(g)) < PromptParts}}

GatherOutputs ==
    /\ workers["boundary"].pc = "gathering" /\ lock = "free"
    /\ IF buffer = <<>>
       THEN workers' = [workers EXCEPT !["boundary"] = Resting] /\ UNCHANGED lock
       ELSE /\ lock' = "boundary"
            /\ workers' = [workers EXCEPT !["boundary"].pc = "composing",
                                          !["boundary"].taken = Prompted]
    /\ UNCHANGED <<notes, left>>

RememberReading ==
    /\ workers["boundary"].pc = "composing"
    /\ journal' = journal \cup workers["boundary"].taken
    /\ To("boundary", "announcing")
    /\ UNCHANGED <<lock, buffer, outputs, lost, left>>

EndIntegration ==
    /\ lock' = "free"
    /\ workers' = [workers EXCEPT !["boundary"] = Resting]

\* (wrong on purpose) the whole buffer goes
ConsumeAll ==
    /\ workers["boundary"].pc = "announcing"
    /\ buffer' = <<>>
    /\ EndIntegration
    /\ UNCHANGED <<journal, outputs, lost, left>>

Eaten(output) == {p \in 1..Parts : <<output.id, p>> \in workers["boundary"].taken}

\* The reflection of a second reading is out: what the memory was made of may go, and only
\* that; what was said meanwhile waits for the next boundary.  The outputs used up are the
\* oldest, for a prompt takes them in order.
Consume ==
    LET rest == [i \in 1..Len(buffer) |->
                   [buffer[i] EXCEPT !.from = @ + Cardinality(Eaten(buffer[i]))]]
        usedUp == {i \in 1..Len(buffer) : rest[i].from > Parts}
    IN  /\ workers["boundary"].pc = "announcing"
        /\ buffer' = SubSeq(rest, Cardinality(usedUp) + 1, Len(buffer))
        /\ EndIntegration
        /\ UNCHANGED <<journal, outputs, lost, left>>

\* The model fails, or the reflection of a second reading is not admitted.
IntegrationFails ==
    /\ \/ workers["boundary"].pc = "composing"
       \/ workers["boundary"].pc = "announcing" /\ workers["boundary"].pre >= 1
    /\ Spend("faults")
    /\ EndIntegration
    /\ UNCHANGED notes

IntegrationStep ==
    /\ GatherOutputs \/ RememberReading \/ Consume \/ IntegrationFails
    /\ UNCHANGED <<row, text, checks, asides, accepting>>

-----------------------------------------------------------------------------
(* evaluate_paragraph, _dispatch and the companion *)

InFlight(p) == \E s \in Slots : impulses[s].para = p /\ impulses[s].pc \notin {"idle", "evaluating"}

\* A turned page: its text may sediment in the background, and its impulses are weighed.
EvaluateParagraph(s, p) ==
    /\ impulses[s] = NoImpulse /\ ~ InFlight(p)
    /\ accepting => workers["page"] = Resting  \* bound: one such sediment at a time
    /\ Spend("turns")
    /\ workers' = IF accepting
                  THEN [workers EXCEPT !["page"].pc = "waiting", !["page"].target = p]
                  ELSE workers
    /\ impulses' = [impulses EXCEPT ![s].pc = "evaluating", ![s].para = p]
    /\ UNCHANGED <<lock, questionPending, cooling, notes>>

\* After the awaits: the cooldowns are read and set in one piece, and the dispatch spawned.
CheckTriggers(s, mutter, question) ==
    /\ impulses[s].pc = "evaluating"
    /\ question => ~ questionPending /\ ~ cooling
    /\ IF (mutter \/ question) /\ ~ InFlight(impulses[s].para) /\ accepting
       THEN /\ impulses' = [impulses EXCEPT ![s].pc = "queued", ![s].mutter = mutter,
                                            ![s].question = question]
            /\ questionPending' = (questionPending \/ question)
       ELSE /\ impulses' = [impulses EXCEPT ![s] = NoImpulse]
            /\ UNCHANGED questionPending
    /\ UNCHANGED <<work, cooling, notes, left>>

Running == {s \in Slots : impulses[s].pc \in {"muttering", "asking"}}

\* The semaphore of the book.
StartDispatch(s) ==
    /\ impulses[s].pc = "queued" /\ Cardinality(Running) < Concurrency
    /\ impulses' = [impulses EXCEPT ![s].pc = IF impulses[s].mutter THEN "muttering" ELSE "asking"]
    /\ UNCHANGED <<work, questionPending, cooling, notes, left>>

\* record_nyx_output: the oldest goes when the buffer is full.
RecordOutput ==
    LET all == Append(buffer, [id |-> outputs + 1, from |-> 1]) IN
    /\ outputs' = outputs + 1
    /\ IF Len(all) > BufferMax
       THEN buffer' = Tail(all) /\ lost' = lost \cup {Head(all).id}
       ELSE buffer' = all /\ UNCHANGED lost
    /\ UNCHANGED journal

EndDispatch(s) ==
    /\ impulses' = [impulses EXCEPT ![s] = NoImpulse]
    /\ questionPending' = (questionPending /\ ~ impulses[s].question)

\* An aside: said and recorded, or nothing comes of it.
Mutter(s) ==
    /\ impulses[s].pc = "muttering"
    /\ RecordOutput \/ UNCHANGED notes
    /\ IF impulses[s].question
       THEN impulses' = [impulses EXCEPT ![s].pc = "asking"] /\ UNCHANGED questionPending
       ELSE EndDispatch(s)
    /\ UNCHANGED <<work, cooling, left>>

\* A question: committed with its waiting row, then recorded; only then the cooldown runs.
Question(s) ==
    /\ impulses[s].pc = "asking"
    /\ \/ RecordOutput /\ cooling' = TRUE
       \/ UNCHANGED <<notes, cooling>>
    /\ EndDispatch(s)
    /\ UNCHANGED <<work, left>>

CooldownElapses ==
    /\ cooling
    /\ cooling' = FALSE
    /\ UNCHANGED <<work, impulses, questionPending, notes, left>>

ImpulseStep ==
    /\ \/ \E s \in Slots, p \in Paras : EvaluateParagraph(s, p)
       \/ \E s \in Slots, mutter, question \in BOOLEAN : CheckTriggers(s, mutter, question)
       \/ \E s \in Slots : StartDispatch(s) \/ Mutter(s) \/ Question(s)
       \/ CooldownElapses
    /\ UNCHANGED <<row, text, checks, accepting>>

-----------------------------------------------------------------------------
(* Stopping *)

Quiesce ==
    /\ accepting /\ accepting' = FALSE
    /\ UNCHANGED <<row, text, work, checks, notes, asides, left>>

\* The process dies, or drain gives up on what still runs and the character starts again.
Restart ==
    /\ Spend("faults")
    /\ lock' = "free" /\ workers' = [w \in Workers |-> Resting]
    /\ calls' = [c \in Callers |-> NoCall] /\ finished' = FALSE
    /\ lost' = lost \cup {buffer[i].id : i \in 1..Len(buffer)} /\ buffer' = <<>>
    /\ impulses' = [s \in Slots |-> NoImpulse]
    /\ questionPending' = FALSE /\ cooling' = FALSE /\ accepting' = TRUE
    /\ UNCHANGED <<row, text, journal, outputs>>

Next ==
    \/ \E w \in Workers : SedimentStep(w)
    \/ \E c \in Callers : BoundaryStep(c)
    \/ \E p \in Paras : SaveProgress(p)
    \/ \E wish \in {0} \cup Paras : ReadForActivity(wish)
    \/ LoadProgress \/ AdvanceNyxPosition \/ UserChecksBoundary
    \/ IntegrationStep \/ ImpulseStep
    \/ Quiesce \/ Restart

Spec == Init /\ [][Next]_vars

-----------------------------------------------------------------------------
(* Properties *)

\* Through failures, restarts and callers with different targets, the text is cut into
\* blocks that follow one another without a gap or an overlap; what lies behind the cursor
\* has all the knowledge of one digest and of one only, and Nyx's position follows the
\* activity only over text that was sedimented.
SourceCovered ==
    /\ \A u \in 1..source.cursor : \E b \in evidence : b[1] < u /\ u <= b[2]
    /\ \A a, b \in evidence : a = b \/ a[2] <= b[1] \/ b[2] <= a[1]
    /\ \A b \in evidence : b[2] <= source.cursor =>
         \E d \in 1..digests : {k \in knowledge : k[1] = b} = {b} \X {d} \X (1..Items)
    /\ workers["activity"].pc = "advancing" => Ends[workers["activity"].target] <= source.cursor

\* An output is never forgotten before a memory was made of it: every fragment still waits
\* for a boundary or is in a memory, but for those the cap or the end of the process took.
OutputsKept ==
    \A f \in (1..outputs) \X (1..Parts) :
        \/ f \in journal \/ f[1] \in lost
        \/ \E i \in 1..Len(buffer) : buffer[i].id = f[1] /\ f[2] >= buffer[i].from

\* A revision names one content of the progress row, so that a save which passes the check
\* overwrites only what its page has seen, although two writers go past the check.
RevisionNamesProgress == client.rev = progress.rev => client = progress
=============================================================================
