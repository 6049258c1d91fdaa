---------------------------- MODULE ActivityWork ----------------------------
(***************************************************************************)
(* What the runner of an activity executes (activity/facade.py,            *)
(* activity/exploration.py, activity/browser_survey.py): a book (Reading), *)
(* a page of the web, an exploration of sources it searches for, a piece   *)
(* of writing, or a questionnaire answered in a browser.  It saves a       *)
(* checkpoint as it goes; whatever halts it (the user, a stop, the end of  *)
(* the process), the next run goes on from there, but for a questionnaire, *)
(* which is given up.                                                      *)
(*                                                                         *)
(* A behaviour is the life of one activity, or of one page's task, whose   *)
(* checkpoint the activities started for it hand on.  One runner executes  *)
(* it at a time (ActivityLifecycle says when); an exploration or a piece   *)
(* that is not taken up in its block of the schedule stays halted.         *)
(*                                                                         *)
(* A model call and the save of what it answered are one step: what a halt *)
(* loses between them left no trace.  A call and a save that are both      *)
(* durable are two steps.  An answer of a model is a number of its own.    *)
(***************************************************************************)
EXTENDS Reading

CONSTANTS
    Jobs,        \* the kinds of work the character may be given
    PageLength,  \* PageLength[v]: blocks of the page in its v-th version
    Found,       \* the lists of sources a search may give
    FetchCount,  \* so many of them are read (_FETCH_COUNT)
    MaxActions,  \* so many controls of a questionnaire are clicked (_MAX_ACTIONS)
    MaxHalts     \* bound: times the work is halted

ASSUME JobsOK ==
    /\ Jobs \subseteq {"book", "page", "sources", "piece", "survey"}
    /\ PageLength \in Seq(Nat)
    /\ Found \subseteq Seq({"remote", "unusable"})  \* unusable: unnamed, or one of its own files
    /\ {FetchCount, MaxActions, MaxHalts} \subseteq Nat

VARIABLES
    \* durable
    job,       \* the activity: its kind and status, and the runs it took
    ckpt,      \* the checkpoint in its progress, or in its task
    pageText,  \* assigned_task_source: the version of the page that is read, or 0
    exposed,   \* evidence of blocks read
    learnt,    \* knowledge memories: <<of what, answer, item>>
    topics,    \* subtopics of the parent desire: the judgements they are from
    pieces,    \* files written: the drafts they hold
    clicked,   \* the runs that clicked something on the questionnaire
    \* volatile
    mine,      \* the runner's copy of the checkpoint
    at,        \* how far it is within what the checkpoint says comes next
    answers    \* history: answers the models gave

jobVars == <<job, ckpt, pageText, exposed, learnt, topics, pieces, clicked, mine, at, answers>>
traces == <<exposed, learnt, topics, pieces, clicked>>

Versions == DOMAIN PageLength

None == [block |-> <<"none", 0, 0>>, digest |-> 0]

\* The checkpoint before anything is done: each kind of work has its own.
Fresh(kind) ==
    CASE kind = "page" -> [cursor |-> 0, pending |-> None, profile |-> 0]
      [] kind = "sources" -> [phase |-> "searching", results |-> <<>>, cursor |-> 0,
                              pending |-> None, findings |-> <<>>, judged |-> 0]
      [] kind = "piece" -> [styled |-> FALSE, draft |-> 0, written |-> FALSE]
      [] kind = "survey" -> [steps |-> 0]
      [] kind = "book" -> <<>>

Start == [step |-> "", text |-> 0, item |-> 0]

WorkTypeOK ==
    /\ TypeOK
    /\ job \in [kind : Jobs, status : {"running", "halted", "completed", "failed"},
                runs : 1..(MaxHalts + 1)]
    /\ DOMAIN ckpt = DOMAIN Fresh(job.kind) /\ DOMAIN mine = DOMAIN ckpt
    /\ job.kind = "sources" => ckpt.phase \in
         {"searching", "reading_results", "summarizing", "sinking", "completed"}
    /\ pageText \in {0} \cup Versions
    /\ at.step \in {"", "recorded", "sunk", "written", "clicked"}
    /\ at.item \in 0..Items
    /\ clicked \subseteq 1..job.runs

-----------------------------------------------------------------------------
(* Runs and checkpoints *)

Doing(kind) == job.kind = kind /\ job.status = "running"

Saved(checkpoint) == ckpt' = checkpoint /\ mine' = checkpoint

\* The same place in the work, with the next thing to do.
Onward(step) == at' = [at EXCEPT !.step = step]

EndJob(status) == job' = [job EXCEPT !.status = status]

\* A tool, a model call or a save raises: the activity is INCOMPLETE, its task FAILED.
FailJob ==
    /\ job.status = "running"
    /\ EndJob("failed")
    /\ UNCHANGED <<ckpt, mine, pageText, traces, at, answers>>

\* What a halt makes of the work: a questionnaire is not taken up again.
StatusAfterHalt == IF job.kind = "survey" THEN "failed" ELSE "halted"

\* The user, a stop or the end of the process cuts the run off.
HaltJob ==
    /\ job.status = "running"
    /\ job.runs <= MaxHalts   \* bound
    /\ EndJob(StatusAfterHalt)
    /\ mine' = Fresh(job.kind) /\ at' = Start
    /\ UNCHANGED <<ckpt, pageText, traces, answers>>

\* A new run takes the checkpoint, and the source of the page as it was saved.
ResumeJob ==
    /\ job.status = "halted"
    /\ job' = [job EXCEPT !.status = "running", !.runs = @ + 1]
    /\ mine' = ckpt
    /\ at' = [Start EXCEPT !.text = pageText]
    /\ UNCHANGED <<ckpt, pageText, traces, answers>>

-----------------------------------------------------------------------------
(* A block of a page or a source, from the checkpoint to what is learnt *)

Pending == (Doing("page") \/ Doing("sources")) /\ mine.pending # None

RecordBlock ==
    /\ Pending /\ at.step = "" /\ mine.pending.block # <<>>
    /\ exposed' = exposed \cup {mine.pending.block}
    /\ Onward("recorded")
    /\ UNCHANGED <<job, ckpt, mine, pageText, learnt, topics, pieces, clicked, answers>>

Digested == [mine EXCEPT !.pending.digest = answers + 1]

\* (wrong on purpose) what the model answered is not saved
DigestUnsaved ==
    /\ Pending /\ at.step = "recorded" /\ mine.pending.digest = 0
    /\ answers' = answers + 1
    /\ mine' = Digested
    /\ UNCHANGED <<job, ckpt, pageText, traces, at>>

\* What a block taught is saved before any of it is remembered.
DigestBlock ==
    /\ Pending /\ at.step = "recorded" /\ mine.pending.digest = 0
    /\ answers' = answers + 1
    /\ Saved(Digested)
    /\ UNCHANGED <<job, pageText, traces, at>>

RememberBlock ==
    /\ Pending /\ at.step = "recorded" /\ mine.pending.digest > 0 /\ at.item < Items
    /\ learnt' = learnt \cup {<<mine.pending.block, mine.pending.digest, at.item + 1>>}
    /\ at' = [at EXCEPT !.item = @ + 1]
    /\ UNCHANGED <<job, ckpt, mine, pageText, exposed, topics, pieces, clicked, answers>>

Behind == [mine EXCEPT !.cursor = @ + 1, !.pending = None]

\* Behind the cursor with it: a page keeps its profile, an exploration what was found.
FinishBlock ==
    LET p == mine.pending IN
    /\ Pending
    /\ p.block = <<>> \/ (at.step = "recorded" /\ at.item = Items)
    /\ Saved(IF job.kind = "page" THEN [Behind EXCEPT !.profile = p.digest]
             ELSE IF p.block = <<>> THEN Behind
             ELSE [Behind EXCEPT !.findings = Append(@, p.block)])
    /\ at' = [at EXCEPT !.step = "", !.item = 0]
    /\ UNCHANGED <<job, pageText, traces, answers>>

-----------------------------------------------------------------------------
(* _run_web_task *)

\* save_task_source: the text that was saved first stays.
SourceKept(version) == IF pageText = 0 THEN version ELSE pageText

\* Only when this run found no text: the page as it is now.
FetchPage ==
    /\ Doing("page") /\ mine.pending = None /\ at.text = 0
    /\ \E v \in Versions :
        /\ pageText' = SourceKept(v)
        /\ at' = [at EXCEPT !.text = pageText']
    /\ UNCHANGED <<job, ckpt, mine, traces, answers>>

\* The next block, saved before any work on it.  (Blocks of blanks, which teach nothing, are
\* left out.)
CutBlock ==
    /\ Doing("page") /\ mine.pending = None /\ at.text > 0
    /\ mine.cursor < PageLength[at.text]
    /\ Saved([mine EXCEPT !.pending = [block |-> <<"page", at.text, mine.cursor + 1>>,
                                         digest |-> 0]])
    /\ UNCHANGED <<job, pageText, traces, at, answers>>

EndPage ==
    /\ Doing("page") /\ mine.pending = None /\ at.text > 0
    /\ mine.cursor >= PageLength[at.text]
    /\ EndJob("completed")
    /\ UNCHANGED <<ckpt, mine, pageText, traces, at, answers>>

-----------------------------------------------------------------------------
(* Exploration.run *)

In(phase) == Doing("sources") /\ mine.phase = phase

\* The web, or the files of the user if it has nothing; not the program's own files.
Search ==
    /\ In("searching")
    /\ \E r \in Found : Saved([mine EXCEPT !.results = r, !.phase = "reading_results"])
    /\ UNCHANGED <<job, pageText, traces, at, answers>>

SourcesToRead ==
    IF Len(mine.results) < FetchCount THEN Len(mine.results) ELSE FetchCount

\* The text of a source, the words of the search if it cannot be fetched, or nothing.
SaidBy(result) == IF result = "unusable" THEN {""} ELSE {"", "text", "snippet"}

PrepareSource ==
    /\ In("reading_results") /\ mine.pending = None /\ mine.cursor < SourcesToRead
    /\ \E said \in SaidBy(mine.results[mine.cursor + 1]) :
        Saved([mine EXCEPT !.pending =
             [block |-> IF said = "" THEN <<>> ELSE <<said, 0, mine.cursor + 1>>,
              digest |-> 0]])
    /\ UNCHANGED <<job, pageText, traces, at, answers>>

EndSources ==
    /\ In("reading_results") /\ mine.pending = None /\ mine.cursor >= SourcesToRead
    /\ Saved([mine EXCEPT !.phase = "summarizing"])
    /\ UNCHANGED <<job, pageText, traces, at, answers>>

\* Nothing found, or no answer: nothing to sink.
Summarize ==
    /\ In("summarizing")
    /\ \E given \in IF mine.findings = <<>> THEN {FALSE} ELSE BOOLEAN :
        /\ answers' = IF given THEN answers + 1 ELSE answers
        /\ Saved([mine EXCEPT !.phase = "sinking", !.judged = IF given THEN answers' ELSE 0])
    /\ UNCHANGED <<job, pageText, traces, at>>

\* add_long_term_subtopics: each topic once, in the parent desire if there is one.
WithSubtopics == {topics, topics \cup {mine.judged}}

SinkTopics ==
    /\ In("sinking") /\ at.step = ""
    /\ IF mine.judged = 0 THEN UNCHANGED topics ELSE topics' \in WithSubtopics
    /\ Onward("sunk")
    /\ UNCHANGED <<job, ckpt, mine, pageText, exposed, learnt, pieces, clicked, answers>>

Judgement == <<"judged", 0, 0>>   \* beside blocks <<of, version, place>>

SinkKnowledge ==
    /\ In("sinking") /\ at.step = "sunk" /\ mine.judged > 0 /\ at.item < Items
    /\ learnt' = learnt \cup {<<Judgement, mine.judged, at.item + 1>>}
    /\ at' = [at EXCEPT !.item = @ + 1]
    /\ UNCHANGED <<job, ckpt, mine, pageText, exposed, topics, pieces, clicked, answers>>

EndSinking ==
    /\ In("sinking") /\ at.step = "sunk" /\ (mine.judged = 0 \/ at.item = Items)
    /\ Saved([mine EXCEPT !.phase = "completed"])
    /\ UNCHANGED <<job, pageText, traces, at, answers>>

EndExploration ==
    /\ In("completed")
    /\ EndJob("completed")
    /\ UNCHANGED <<ckpt, mine, pageText, traces, at, answers>>

-----------------------------------------------------------------------------
(* _run_creation *)

PickStyle ==
    /\ Doing("piece") /\ ~ mine.styled
    /\ Saved([mine EXCEPT !.styled = TRUE])
    /\ UNCHANGED <<job, pageText, traces, at, answers>>

Compose ==
    /\ Doing("piece") /\ mine.styled /\ mine.draft = 0
    /\ answers' = answers + 1
    /\ Saved([mine EXCEPT !.draft = answers'])
    /\ UNCHANGED <<job, pageText, traces, at>>

\* The path follows from the saved title and the activity: the same draft, the same file.
WritePiece ==
    /\ Doing("piece") /\ mine.draft > 0 /\ ~ mine.written /\ at.step = ""
    /\ pieces' = pieces \cup {mine.draft}
    /\ Onward("written")
    /\ UNCHANGED <<job, ckpt, mine, pageText, exposed, learnt, topics, clicked, answers>>

SavePath ==
    /\ Doing("piece") /\ at.step = "written" /\ ~ mine.written
    /\ Saved([mine EXCEPT !.written = TRUE])
    /\ UNCHANGED <<job, pageText, traces, at, answers>>

EndPiece ==
    /\ Doing("piece") /\ mine.written
    /\ EndJob("completed")
    /\ UNCHANGED <<ckpt, mine, pageText, traces, at, answers>>

-----------------------------------------------------------------------------
(* run_browser_survey *)

ClickChoice ==
    /\ Doing("survey") /\ at.step = "" /\ mine.steps < MaxActions
    /\ clicked' = clicked \cup {job.runs}
    /\ Onward("clicked")
    /\ UNCHANGED <<job, ckpt, mine, pageText, exposed, learnt, topics, pieces, answers>>

SaveProgressOfSurvey ==
    /\ Doing("survey") /\ at.step = "clicked"
    /\ Saved([mine EXCEPT !.steps = @ + 1])
    /\ Onward("")
    /\ UNCHANGED <<job, pageText, traces, answers>>

\* The result is in sight, after a click at least and before the last that is allowed.
EndSurvey ==
    /\ Doing("survey") /\ at.step = "" /\ mine.steps \in 1..(MaxActions - 1)
    /\ EndJob("completed")
    /\ UNCHANGED <<ckpt, mine, pageText, traces, at, answers>>

-----------------------------------------------------------------------------
(* The whole: the book has the character's time, or another work has it. *)

WorkInit ==
    /\ Init
    /\ job \in [kind : Jobs, status : {"running"}, runs : {1}]
    /\ ckpt = Fresh(job.kind) /\ mine = ckpt
    /\ pageText = 0
    /\ exposed = {} /\ learnt = {} /\ topics = {} /\ pieces = {} /\ clicked = {}
    /\ at = Start
    /\ answers = 0

JobStep ==
    \/ FailJob \/ HaltJob \/ ResumeJob
    \/ RecordBlock \/ DigestBlock \/ RememberBlock \/ FinishBlock
    \/ FetchPage \/ CutBlock \/ EndPage
    \/ Search \/ PrepareSource \/ EndSources \/ Summarize
    \/ SinkTopics \/ SinkKnowledge \/ EndSinking \/ EndExploration
    \/ PickStyle \/ Compose \/ WritePiece \/ SavePath \/ EndPiece
    \/ ClickChoice \/ SaveProgressOfSurvey \/ EndSurvey

WorkNext ==
    \/ job.kind = "book" /\ Next /\ UNCHANGED jobVars
    \/ job.kind # "book" /\ JobStep /\ UNCHANGED vars

WorkSpec == WorkInit /\ [][WorkNext]_<<vars, jobVars>>

-----------------------------------------------------------------------------
(* Properties *)

\* The blocks behind the cursor that had something to say.
ReadBlocks ==
    IF job.kind = "page" THEN {<<"page", pageText, i>> : i \in 1..ckpt.cursor}
                         ELSE {ckpt.findings[i] : i \in DOMAIN ckpt.findings}

LearntOf(what) == {k \in learnt : k[1] = what}
All(what, answer) == {what} \X {answer} \X (1..Items)

\* Each block behind the cursor was recorded and taught all of one digest; of the block in
\* hand nothing is known but from the digest saved with it, and of others nothing.
BlocksOnce ==
    /\ \A b \in ReadBlocks : b \in exposed /\ \E d \in 1..answers : LearntOf(b) = All(b, d)
    /\ LearntOf(ckpt.pending.block) \subseteq All(ckpt.pending.block, ckpt.pending.digest)
    /\ \A k \in learnt : k[1] \in ReadBlocks \cup {ckpt.pending.block, Judgement}
    /\ job.kind = "sources" => Cardinality(ReadBlocks) = Len(ckpt.findings)
    /\ job.status = "completed" => exposed = ReadBlocks

\* An exploration leaves the conclusions of one judgement, all of them when it is done.
JudgedOnce ==
    /\ LearntOf(Judgement) \subseteq All(Judgement, ckpt.judged)
    /\ topics \subseteq {ckpt.judged}
    /\ ckpt.phase = "completed" /\ ckpt.judged > 0 =>
         LearntOf(Judgement) = All(Judgement, ckpt.judged)

\* However often it is halted and taken up again, a work leaves what one run of it would
\* have left: a page is read whole and in one version, a source's block taught once, an
\* exploration judged once, one file written with the draft that is reported, and a
\* questionnaire clicked through in one session.
LeavesOneRun ==
    CASE job.kind = "page" ->
           /\ BlocksOnce
           /\ job.status = "completed" => ckpt.cursor = PageLength[pageText]
      [] job.kind = "sources" -> BlocksOnce /\ JudgedOnce
      [] job.kind = "piece" ->
           /\ pieces \subseteq {ckpt.draft}
           /\ job.status = "completed" => pieces = {ckpt.draft}
      [] job.kind = "survey" ->
           /\ Cardinality(clicked) <= 1
           /\ job.status = "completed" => clicked # {}
      [] job.kind = "book" -> TRUE
=============================================================================
