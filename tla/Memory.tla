------------------------------- MODULE Memory -------------------------------
(***************************************************************************)
(* What is remembered and what follows from it (memory/facade.py,          *)
(* memory/store.py, inner_life/): the memories beside the segments of      *)
(* ConversationSegments, with which they share the facts; the lessons that *)
(* corrections add up to; and the reflections that rewrite the narrative.  *)
(*                                                                         *)
(* Each consumer of the event bus has one worker, so of the scene requests *)
(* one is in hand at a time, and of the activities, and of the requests to *)
(* reflect; but the three run beside each other, beside the activity that  *)
(* stores what it read, and beside the conversation.  The outcome of a     *)
(* model call is prepared outside the database and committed in one        *)
(* transaction with the mark that makes its event done; what comes after   *)
(* the commit (links, the search for contradictions, eviction) is best     *)
(* effort, and a crash forgets it.                                         *)
(***************************************************************************)
EXTENDS ConversationSegments

CONSTANTS
    Writers,    \* the requests to remember something
    Asked,      \* what each is: [route, kind, contents, source, lasting, claims, scope]
    Close,      \* the sets of two contents so alike that one stands for both
    Akin,       \* the sets of two contents alike enough to be compared
    MemoryCapacity, \* so many short-term memories are kept
    LinkLimit,  \* so many links may a memory have
    Notes,      \* the user's remarks on replies
    Remark,     \* what each is: [words, at, topic, correction, claims]
    LessonThreshold,\* so many corrections of a topic make a lesson
    Evidence,   \* the passages read, in their order
    EvidenceLimit,  \* so many passages are judged in one reflection
    MinNew,     \* a periodic reflection needs so many new memories
    ReflectEvery    \* and this long since the last

ASSUME MemoryAssumption ==
    /\ {MemoryCapacity, LinkLimit, LessonThreshold, EvidenceLimit, MinNew,
        ReflectEvery} \subseteq Nat
    /\ LessonThreshold > 0
    /\ IsFiniteSet(Notes)

\* A request has words; the words of a lesson name the occasion, so a remark's
\* lesson has none of another's; what is observed is one kind, and lasts.  A book,
\* a page or a file may be its source, "" is none: of the topics of a row the one
\* with a source's prefix.
ASSUME AskedAssumption ==
    \A w \in Writers:
        /\ Asked[w].route \in {"scene", "activity", "observation", "direct", "lesson"}
        /\ Asked[w].scope \in Scopes
        /\ Asked[w].lasting \in BOOLEAN
        /\ "" \notin Asked[w].contents
        /\ Asked[w].kind = "lesson" => Asked[w].contents \cap Notes = {}
        /\ Asked[w].route = "observation" =>
              Asked[w].kind = "user_profile" /\ Asked[w].lasting /\ Asked[w].source = ""
        /\ Len(Asked[w].claims) \in Nat
        /\ \A i \in 1..Len(Asked[w].claims): IsClaim(Asked[w].claims[i])

ASSUME RemarkAssumption ==
    \A n \in Notes:
        /\ Remark[n].at \in Nat
        /\ Remark[n].topic # ""
        /\ Len(Remark[n].claims) \in Nat
        /\ \A i \in 1..Len(Remark[n].claims): IsClaim(Remark[n].claims[i])

VARIABLES
    memories,   \* the rows
    staler,     \* the pairs of ids of which the first was written or hit longer ago
    edges,      \* the links between them, as sets of two ids
    marked,     \* the durable requests whose effect was committed
    merged,     \* what a lasting one asked for when a fading row stood for it: history
    writers,    \* for each request how far its handler is
    observed,   \* the last observation, kept in the process only
    receipts,   \* for each remark what became of it
    signals,    \* for each topic the corrections counted
    learner,    \* the remark whose lesson is being learned, and how far
    requested,  \* the requests to reflect, in the order of their admission
    narrative,  \* when it was revised, and the reflections it is made of
    unread,     \* the passages no reflection has consumed
    goals,      \* the revision of the long-term desires
    reflector,  \* the reflection in hand, and how far
    mood,       \* the shifts reflections gave since the process started
    epoch       \* how many reflections were begun: the times that are compared

memoryVars == <<memories, staler, edges, marked, merged, writers, observed, receipts, signals,
                learner, requested, narrative, unread, goals, reflector, mood, epoch>>

rows == <<memories, staler, merged>>
writing == <<rows, edges, marked, writers, observed>>
learning == <<receipts, signals, learner>>
reflecting == <<narrative, unread, goals, reflector, mood, epoch>>
conversing == <<segments, archive, recallUses, keeper, clock>>

----------------------------------------------------------------------------
(* Rows and links *)

Durable(w) == Asked[w].route \in {"scene", "activity", "observation"}

\* An observation is an activity: one worker hands on both.
Lane(w) == IF Asked[w].route = "scene" THEN "scene" ELSE "activity"

\* The id of the memory a request, a remark or a reflection leaves.
Made(w) == <<"request", w>>
LessonOf(n) == <<"lesson", n>>
RecordOf(n) == <<"reflection", n>>

IdsOf(some) == {m.id: m \in some}
Ids == IdsOf(memories)
Pairs(S) == {{a, b}: a \in S, b \in S} \ {{a}: a \in S}

Row(id, content, kind, source, lasting, since) ==
    [id |-> id, content |-> content, kind |-> kind, source |-> source,
     lasting |-> lasting, since |-> since]

\* The freshness of a row is full again: all the others are staler.
Refreshed(id) ==
    {pair \in staler: pair[1] # id} \cup {<<other, id>>: other \in Ids \ {id}}

Add(row) == /\ memories' = memories \cup {row}
            /\ staler' = Refreshed(row.id)
            /\ UNCHANGED merged

\* strengthen: a row stands for a content; what lasts does not make it last.
Touched(m, w, content) ==
    /\ staler' = Refreshed(m.id)
    /\ merged' = IF Asked[w].lasting /\ ~m.lasting
                 THEN merged \cup {<<content, Asked[w].kind, Asked[w].source>>} ELSE merged
    /\ UNCHANGED memories

\* find_by_content: the same words in the same kind, from the same source or, like
\* them, from none.
Twin(content, kind, source) ==
    {m \in memories: m.content = content /\ m.kind = kind /\ m.source = source}

\* A lesson or a reflection stands for no other, however alike.
Near(content, kind, source) ==
    IF kind \in {"lesson", "reflection"} THEN {}
    ELSE {m \in memories: m.kind = kind /\ m.source = source
                          /\ {m.content, content} \in Close}

\* The rows that stand for a content, one at most: its twin, else the nearest, if
\* its likeness, its hour, its numbers and negations let it pass; or none, also
\* because there is no vector to compare.
StandIns(w, content) ==
    LET twin == Twin(content, Asked[w].kind, Asked[w].source)
        near == Near(content, Asked[w].kind, Asked[w].source)
    IN IF twin # {} THEN {twin} ELSE {{}} \cup {{m}: m \in near}

Candidates(content) == IdsOf({m \in memories: {m.content, content} \in Akin})

Working == [step |-> "asked", content |-> "", before |-> "", at |-> 0, since |-> 0,
            near |-> {}, held |-> {}, linked |-> {}]
Finished == [Working EXCEPT !.step = "done"]

At(w, step) == [writers[w] EXCEPT !.step = step]

\* The row that stands for the content, or a new one with its facts.
Keep(w, twins, candidates, kept) ==
    IF twins # {}
    THEN /\ \E m \in twins: Touched(m, w, writers[w].content)
         /\ writers' = [writers EXCEPT ![w] = Finished]
         /\ UNCHANGED known
    ELSE /\ Add(Row(Made(w), writers[w].content, Asked[w].kind, Asked[w].source,
                    Asked[w].lasting, writers[w].since))
         /\ writers' = [writers EXCEPT ![w] =
                IF Asked[w].route = "lesson" THEN Finished
                ELSE [At(w, "link") EXCEPT !.near = candidates]]
         /\ known' = ApplyFacts(known, Asked[w].claims, kept, writers[w].at,
                                Asked[w].scope, Made(w))

\* What the model, or the patterns it falls back on, understood of a content.
Heard(w) == {{}, ParseFacts(Asked[w].claims, FALSE)}

----------------------------------------------------------------------------
(* Requests that come as events *)

LaneFree(w) == \A v \in Writers:
    Durable(v) /\ Lane(v) = Lane(w) => writers[v].step \in {"asked", "done"}

\* The model composes the scene; an activity's words are its own.  What was
\* observed last is not remembered again.  (The budget names the requests that
\* are made in a behaviour.)
Compose(w) ==
    /\ w \in left.wishes \ marked
    /\ writers[w].step = "asked"
    /\ Durable(w)
    /\ LaneFree(w)
    /\ \E content \in Asked[w].contents:
          LET seen == Asked[w].route = "observation"
          IN /\ writers' = [writers EXCEPT ![w] =
                   [@ EXCEPT !.step = IF seen /\ content = observed THEN "known"
                                      ELSE "composed",
                             !.content = content, !.before = observed,
                             !.at = clock, !.since = epoch]]
             /\ observed' = IF seen THEN content ELSE observed
    /\ UNCHANGED <<rows, edges, marked, known, requested, left>>
    /\ UNCHANGED <<conversing, learning, reflecting>>

CommitKnown(w) ==
    /\ writers[w].step = "known"
    /\ marked' = marked \cup {w}
    /\ writers' = [writers EXCEPT ![w] = Finished]
    /\ UNCHANGED <<rows, edges, observed, known, requested, left>>
    /\ UNCHANGED <<conversing, learning, reflecting>>

\* One transaction: the mark, the row or what stands for it, the facts.
CommitDurable(w) ==
    LET content == writers[w].content
    IN /\ writers[w].step = "composed"
       /\ marked' = marked \cup {w}
       /\ \E kept \in Heard(w), stand \in StandIns(w, content):
             Keep(w, stand, Candidates(content), kept)
       /\ UNCHANGED <<edges, observed, requested, left>>
       /\ UNCHANGED <<conversing, learning, reflecting>>

\* (wrong on purpose) the observation that failed counts as the last one
StaysObserved(w) == observed

Restored(w) == writers[w].before

\* A model call, or the transaction, fails: the event is delivered again.
WriterFails(w) ==
    /\ writers[w].step \in {"composed", "known"}
    /\ Spend("faults")
    /\ writers' = [writers EXCEPT ![w] = Working]
    /\ observed' = IF Asked[w].route = "observation" THEN Restored(w) ELSE observed
    /\ UNCHANGED <<rows, edges, marked, known, requested>>
    /\ UNCHANGED <<conversing, learning, reflecting>>

----------------------------------------------------------------------------
(* Calls of the activity, of an upload and of a failed tool *)

StartDirect(w) ==
    /\ w \in left.wishes
    /\ writers[w].step = "asked"
    /\ ~Durable(w)
    /\ \E content \in Asked[w].contents: \E stand \in StandIns(w, content):
          IF stand # {}
          THEN /\ \E m \in stand: Touched(m, w, content)
               /\ writers' = [writers EXCEPT ![w] = Finished]
          ELSE /\ writers' = [writers EXCEPT ![w] =
                     [@ EXCEPT !.step = "listed", !.content = content, !.at = clock,
                               !.since = epoch, !.near = Candidates(content)]]
               /\ UNCHANGED rows
    /\ UNCHANGED <<edges, marked, observed, known, requested, left>>
    /\ UNCHANGED <<conversing, learning, reflecting>>

\* (wrong on purpose) the search made before the facts is relied on
NoneFound(w) == {}

FoundAgain(w) == Twin(writers[w].content, Asked[w].kind, Asked[w].source)

\* The facts were extracted meanwhile; the search is repeated in the transaction.
CommitDirect(w) ==
    /\ writers[w].step = "listed"
    /\ \E kept \in Heard(w): Keep(w, FoundAgain(w), writers[w].near, kept)
    /\ UNCHANGED <<edges, marked, observed, requested, left>>
    /\ UNCHANGED <<conversing, learning, reflecting>>

----------------------------------------------------------------------------
(* What follows the commit: links, contradictions, eviction *)

Others(w) == Ids \ {Made(w)}

\* Likeness, common names and words, the hour and the model's opinion link it.
ChooseLinks(w) ==
    /\ writers[w].step = "link"
    /\ \E links \in SUBSET Others(w):
          /\ Cardinality(links) <= LinkLimit
          /\ writers' = [writers EXCEPT ![w] = [At(w, "linking") EXCEPT !.held = links]]
    /\ UNCHANGED <<rows, edges, marked, observed, known, requested, left>>
    /\ UNCHANGED <<conversing, learning, reflecting>>

\* An end of the link may be gone; then the rest is left, and nothing pruned.
LinkOne(w) ==
    /\ writers[w].step = "linking"
    /\ \E id \in writers[w].held:
          IF {id, Made(w)} \subseteq Ids
          THEN /\ edges' = edges \cup {{id, Made(w)}}
               /\ writers' = [writers EXCEPT ![w].held = @ \ {id},
                                            ![w].linked = @ \cup {id}]
          ELSE /\ writers' = [writers EXCEPT ![w] =
                     [At(w, "judge") EXCEPT !.held = {}, !.linked = {}]]
               /\ UNCHANGED edges
    /\ UNCHANGED <<rows, marked, observed, known, requested, left>>
    /\ UNCHANGED <<conversing, learning, reflecting>>

LinksOf(id) == {e \in edges: id \in e}

Excess(id) == IF Cardinality(LinksOf(id)) > LinkLimit
              THEN Cardinality(LinksOf(id)) - LinkLimit ELSE 0

\* Of each memory just linked the weakest links beyond the bound are cut.
Prune(w) ==
    LET touched == {Made(w)} \cup writers[w].linked
    IN /\ writers[w].step = "linking" /\ writers[w].held = {}
       /\ \E cut \in [touched -> SUBSET edges]:
             /\ \A id \in touched: /\ cut[id] \subseteq LinksOf(id)
                                   /\ Cardinality(cut[id]) = Excess(id)
             /\ edges' = edges \ UNION {cut[id]: id \in touched}
       /\ writers' = [writers EXCEPT ![w] = [At(w, "judge") EXCEPT !.linked = {}]]
       /\ UNCHANGED <<rows, marked, observed, known, requested, left>>
       /\ UNCHANGED <<conversing, learning, reflecting>>

Request(reason, about, topic, seen) ==
    [reason |-> reason, about |-> about, topic |-> topic, seen |-> seen,
     at |-> epoch, done |-> FALSE]

\* The model compares the memory with those like it when it was committed, which
\* may be gone; it may find that one contradicts it, or fail.
JudgeContradiction(w) ==
    /\ writers[w].step = "judge"
    /\ \/ UNCHANGED requested
       \/ \E id \in writers[w].near:
             requested' = Append(requested,
                 Request("memory_contradiction", {Made(w), id}, "", 0))
    /\ writers' = [writers EXCEPT ![w] = [At(w, "settle") EXCEPT !.near = {}]]
    /\ UNCHANGED <<rows, edges, marked, observed, known, left>>
    /\ UNCHANGED <<conversing, learning, reflecting>>

Passing == IdsOf({m \in memories: ~m.lasting})

\* The stalest of the rows that do not last, as many as are too many.
ListOverflow(w) ==
    /\ writers[w].step = "settle"
    /\ writers' = [writers EXCEPT ![w] = [At(w, "drop") EXCEPT
          !.held = {id \in Passing:
                      Cardinality({other \in Passing: <<other, id>> \in staler})
                         < Cardinality(Passing) - MemoryCapacity}]]
    /\ UNCHANGED <<rows, edges, marked, observed, known, requested, left>>
    /\ UNCHANGED <<conversing, learning, reflecting>>

\* (wrong on purpose) the rows go and their links stay
LinksKept(gone) == edges

LinksLeft(gone) == {e \in edges: e \cap gone = {}}

\* The links of a memory go with it.
DropListed(w) ==
    LET gone == writers[w].held
    IN /\ writers[w].step = "drop"
       /\ memories' = {m \in memories: m.id \notin gone}
       /\ staler' = {pair \in staler: pair[1] \notin gone /\ pair[2] \notin gone}
       /\ edges' = LinksLeft(gone)
       /\ writers' = [writers EXCEPT ![w] = Finished]
       /\ UNCHANGED <<merged, marked, observed, known, requested, left>>
       /\ UNCHANGED <<conversing, learning, reflecting>>

----------------------------------------------------------------------------
(* Remarks and lessons *)

\* One transaction: the mark, the receipt unless there is one, its event.
RecordFeedback(n) ==
    /\ Spend("notes")
    /\ receipts[n] = "new"
    /\ Remark[n].at <= clock
    /\ receipts' = [receipts EXCEPT ![n] =
          IF \E m \in Notes: Remark[m].words = Remark[n].words
                             /\ receipts[m] \notin {"new", "repeated"}
          THEN "repeated" ELSE "queued"]
    /\ UNCHANGED <<signals, learner, known, requested>>
    /\ UNCHANGED <<conversing, writing, reflecting>>

Nobody == [note |-> "", step |-> "idle"]

\* What the user says of himself, and what he says of the reply.
About(n, reply) ==
    {c \in ParseFacts(Remark[n].claims, TRUE): (c.predicate = "reply") = reply}

RemarkFacts(n, before, reply, scope) ==
    ApplyFacts(before, Remark[n].claims, About(n, reply), Remark[n].at, scope,
               <<"remark", n>>)

\* The model reads the remark or fails; one transaction: the mark, the facts.
ApplyFeedback(n) ==
    /\ receipts[n] = "queued"
    /\ learner = Nobody
    /\ receipts' = [receipts EXCEPT ![n] = "applied"]
    /\ \/ UNCHANGED <<known, learner>>
       \/ /\ known' = RemarkFacts(n, RemarkFacts(n, known, FALSE, "profile"),
                                  TRUE, "conversation")
          /\ learner' = IF Remark[n].correction
                        THEN [note |-> n, step |-> "count"] ELSE Nobody
    /\ UNCHANGED <<signals, requested, left>>
    /\ UNCHANGED <<conversing, writing, reflecting>>

Topic == Remark[learner.note].topic

\* A topic corrected often enough becomes a lesson.
CountCorrection ==
    /\ learner.step = "count"
    /\ signals' = [signals EXCEPT ![Topic] = @ + 1]
    /\ learner' = IF signals[Topic] + 1 < LessonThreshold THEN Nobody
                  ELSE [learner EXCEPT !.step = "persist"]
    /\ UNCHANGED <<receipts, known, requested, left>>
    /\ UNCHANGED <<conversing, writing, reflecting>>

PersistLesson ==
    /\ learner.step = "persist"
    /\ Add(Row(LessonOf(learner.note), learner.note, "lesson", "", TRUE, epoch))
    /\ learner' = [learner EXCEPT !.step = "promote"]
    /\ UNCHANGED <<edges, marked, writers, observed, receipts, signals, known,
                   requested, left>>
    /\ UNCHANGED <<conversing, reflecting>>

\* (wrong on purpose) the count stays as it is
StillCounted(topic) == signals[topic]

Cleared(topic) == 0

\* One transaction: the request to reflect, and the count starts again.
PromoteLesson ==
    /\ learner.step = "promote"
    /\ requested' = Append(requested,
          Request("annotation_correction", {LessonOf(learner.note)}, Topic, 0))
    /\ signals' = [signals EXCEPT ![Topic] = Cleared(Topic)]
    /\ learner' = Nobody
    /\ UNCHANGED <<receipts, known, left>>
    /\ UNCHANGED <<conversing, writing, reflecting>>

\* What was counted stays, for the next correction.
LearnFails ==
    /\ learner # Nobody
    /\ Spend("faults")
    /\ learner' = Nobody
    /\ UNCHANGED <<receipts, signals, known, requested>>
    /\ UNCHANGED <<conversing, writing, reflecting>>

----------------------------------------------------------------------------
(* Requests to reflect *)

\* count_new: what was made after the narrative was, reflections apart.
NewSince(time) == IdsOf({m \in memories: m.kind # "reflection" /\ m.since >= time})

CheckReflect ==
    /\ Spend("requests")
    /\ clock - narrative.when >= ReflectEvery
    /\ Cardinality(NewSince(narrative.updated)) >= MinNew
    /\ requested' = Append(requested, Request("periodic", {}, "", narrative.updated))
    /\ UNCHANGED known
    /\ UNCHANGED <<conversing, writing, learning, reflecting>>

\* An idle activity ends, or an integrated book calls for a look back.
AskReflection(reason) ==
    /\ Spend("requests")
    /\ requested' = Append(requested, Request(reason, {}, "", 0))
    /\ UNCHANGED known
    /\ UNCHANGED <<conversing, writing, learning, reflecting>>

\* A request is outdated when a reflection was begun after it; a periodic one
\* also when the narrative it was made for, or its conditions, are gone.
Outdated(n) ==
    LET request == requested[n]
    IN \/ request.at < narrative.updated
       \/ /\ request.reason = "periodic"
          /\ \/ request.seen # narrative.updated
             \/ clock - narrative.when < ReflectEvery
             \/ Cardinality(NewSince(narrative.updated)) < MinNew

----------------------------------------------------------------------------
(* A reflection *)

AtRest == [step |-> "idle", n |-> 0, base |-> 0, stamp |-> 0, when |-> 0,
           listed |-> {}, evidence |-> {}, used |-> {}, goals |-> 0, wants |-> FALSE]

SkipReflection(n) ==
    /\ reflector = AtRest
    /\ ~requested[n].done
    /\ Outdated(n)
    /\ requested' = [requested EXCEPT ![n].done = TRUE]
    /\ UNCHANGED <<known, left>>
    /\ UNCHANGED <<conversing, writing, learning, reflecting>>

\* The passages that were read first, as many as one reflection judges.
Oldest(S) ==
    {Evidence[i]: i \in {j \in DOMAIN Evidence:
        /\ Evidence[j] \in S
        /\ Cardinality({k \in 1..(j - 1): Evidence[k] \in S}) < EvidenceLimit}}

\* prepare: the hour is taken first, then everything is read.
BeginReflection(n) ==
    /\ reflector = AtRest
    /\ ~requested[n].done
    /\ ~Outdated(n)
    /\ Spend("reflections")
    /\ epoch' = epoch + 1
    /\ reflector' = [AtRest EXCEPT
          !.step = "thinking", !.n = n, !.base = narrative.updated,
          !.stamp = epoch', !.when = clock,
          !.listed = IdsOf({m \in memories: m.kind # "reflection"}),
          !.evidence = Oldest(unread)]
    /\ UNCHANGED <<known, requested, narrative, unread, goals, mood>>
    /\ UNCHANGED <<conversing, writing, learning>>

\* The model answers.  Of the passages it names some, or all are meant; or their
\* judgement fails and they wait.  It may want a new long-term desire, which only
\* reflections give rise to.
PlanReflection ==
    /\ reflector.step = "thinking"
    /\ \E used \in SUBSET reflector.evidence, wants \in BOOLEAN:
          reflector' = [reflector EXCEPT !.step = "planned", !.used = used,
                                         !.goals = goals, !.wants = wants]
    /\ UNCHANGED <<known, requested, narrative, unread, goals, mood, epoch, left>>
    /\ UNCHANGED <<conversing, writing, learning>>

ReflectionFails ==
    /\ reflector.step = "thinking"
    /\ Spend("faults")
    /\ reflector' = AtRest
    /\ UNCHANGED <<known, requested, narrative, unread, goals, mood, epoch>>
    /\ UNCHANGED <<conversing, writing, learning>>

(* What the plan was made from must hold when it is committed. *)

SameNarrative == narrative.updated = reflector.base

SameGoals == reflector.wants => goals = reflector.goals

StillUnread == reflector.used \subseteq unread

\* (wrong on purpose) the narrative dates from its commit
CommitStamp == epoch + 1

\* The narrative dates from the moment before anything was read for it.
NarrativeStamp == reflector.stamp

\* One transaction: the mark, the passages, the slow variables, the desires and
\* the record of the reflection.
CommitReflection ==
    /\ reflector.step = "planned"
    /\ SameNarrative /\ SameGoals /\ StillUnread
    /\ requested' = [requested EXCEPT ![reflector.n].done = TRUE]
    /\ narrative' = [updated |-> NarrativeStamp, when |-> reflector.when,
                     reviewed |-> narrative.reviewed \cup reflector.listed,
                     stories |-> Append(narrative.stories,
                         [n |-> reflector.n, base |-> reflector.base,
                          stamp |-> NarrativeStamp, used |-> reflector.used])]
    /\ unread' = unread \ reflector.used
    /\ goals' = IF reflector.wants THEN goals + 1 ELSE goals
    /\ Add(Row(RecordOf(reflector.n), "reflection", "reflection", "", TRUE, epoch))
    /\ mood' = [mood EXCEPT !.shifts = @ + 1]
    /\ reflector' = AtRest
    /\ UNCHANGED <<edges, marked, writers, observed, known, epoch, left>>
    /\ UNCHANGED <<conversing, learning>>

\* (wrong on purpose) the shift outlives the transaction it belonged to
ShiftKept == [mood EXCEPT !.shifts = @ + 1]

ShiftUndone == mood

\* A write fails: the transaction is rolled back, the mood restored, and the
\* request delivered again.
RejectReflection ==
    /\ reflector.step = "planned"
    /\ Spend("faults")
    /\ mood' = ShiftUndone
    /\ reflector' = AtRest
    /\ UNCHANGED <<known, requested, narrative, unread, goals, epoch>>
    /\ UNCHANGED <<conversing, writing, learning>>

----------------------------------------------------------------------------
(* The process dies and starts again: what was committed stays, an event is   *)
(* delivered again, and a call that had begun is gone with its caller.        *)
Crash ==
    /\ Spend("crashes")
    /\ writers' = [w \in Writers |->
          IF writers[w].step = "asked" \/ (Durable(w) /\ w \notin marked)
          THEN Working ELSE Finished]
    /\ observed' = ""
    /\ learner' = Nobody
    /\ reflector' = AtRest
    /\ mood' = [shifts |-> 0, since |-> Len(narrative.stories)]
    /\ keeper' = Idle
    /\ UNCHANGED <<rows, edges, marked, receipts, signals, requested, narrative,
                   unread, goals, epoch, segments, archive, recallUses, known, clock>>

----------------------------------------------------------------------------
Init ==
    /\ SegmentInit
    /\ memories = {}
    /\ staler = {}
    /\ edges = {}
    /\ marked = {}
    /\ merged = {}
    /\ writers = [w \in Writers |-> Working]
    /\ observed = ""
    /\ receipts = [n \in Notes |-> "new"]
    /\ signals = [t \in {Remark[n].topic: n \in Notes} |-> 0]
    /\ learner = Nobody
    /\ requested = <<>>
    /\ narrative = [updated |-> 0, when |-> 0, reviewed |-> {}, stories |-> <<>>]
    /\ unread = ToSet(Evidence)
    /\ goals = 0
    /\ reflector = AtRest
    /\ mood = [shifts |-> 0, since |-> 0]
    /\ epoch = 0

Remember ==
    \E w \in Writers:
        \/ Compose(w)
        \/ CommitKnown(w)
        \/ CommitDurable(w)
        \/ WriterFails(w)
        \/ StartDirect(w)
        \/ CommitDirect(w)
        \/ ChooseLinks(w)
        \/ LinkOne(w)
        \/ Prune(w)
        \/ JudgeContradiction(w)
        \/ ListOverflow(w)
        \/ DropListed(w)

Learn ==
    \/ \E n \in Notes: RecordFeedback(n) \/ ApplyFeedback(n)
    \/ CountCorrection
    \/ PersistLesson
    \/ PromoteLesson
    \/ LearnFails

Reflect ==
    \/ CheckReflect
    \/ \E reason \in {"idle_activity", "reading_revisit"}: AskReflection(reason)
    \/ \E n \in DOMAIN requested: SkipReflection(n) \/ BeginReflection(n)
    \/ PlanReflection
    \/ ReflectionFails
    \/ CommitReflection
    \/ RejectReflection

Next ==
    \/ SegmentNext /\ UNCHANGED memoryVars
    \/ Remember
    \/ Learn
    \/ Reflect
    \/ Crash

vars == <<segmentVars, memoryVars>>

Spec == Init /\ [][Next]_vars

----------------------------------------------------------------------------
TypeOK ==
    /\ SegmentTypeOK
    /\ edges \subseteq Pairs(Ids)
    /\ marked \subseteq {w \in Writers: Durable(w)}
    /\ \A w \in Writers: writers[w].step \in
          {"asked", "known", "composed", "listed", "link", "linking", "judge",
           "settle", "drop", "done"}
    /\ \A n \in Notes: receipts[n] \in {"new", "queued", "repeated", "applied"}
    /\ learner.step \in {"idle", "count", "persist", "promote"}
    /\ unread \subseteq ToSet(Evidence)
    /\ reflector.step \in {"idle", "thinking", "planned"}

(***************************************************************************)
(* Nothing is remembered twice: no two memories of a kind have the same    *)
(* words from the same source, or both from none, though four routes look  *)
(* for them and add them side by side.                                     *)
(***************************************************************************)
NoTwins ==
    \A m, o \in memories:
        /\ m.kind = o.kind
        /\ m.kind # "reflection"
        /\ m.source = o.source
        /\ m.content = o.content
        => m = o

(***************************************************************************)
(* What was to last and is done is in memory to stay, as a row of its      *)
(* kind and source in its own words or in words so close that they stand   *)
(* for it, also the observation whose handler failed and came again;       *)
(* unless a row that fades stood for it already, which then may fade all   *)
(* the same.                                                               *)
(***************************************************************************)
Kept(content, kind, source) ==
    \/ \E m \in memories: /\ m.lasting /\ m.kind = kind /\ m.source = source
                          /\ m.content = content \/ {m.content, content} \in Close
    \/ <<content, kind, source>> \in merged

Lasts ==
    \A w \in marked:
        Asked[w].lasting => \E content \in Asked[w].contents:
            Kept(content, Asked[w].kind, Asked[w].source)

RememberedOnce == NoTwins /\ Lasts

(***************************************************************************)
(* A correction counts once, whatever is delivered again: behind every     *)
(* reflection a topic asked for, and the count that is left, stand as many *)
(* different remarks.                                                      *)
(***************************************************************************)
LessonsEarned ==
    \A t \in DOMAIN signals:
        LET remarks == {n \in Notes: /\ receipts[n] = "applied"
                                     /\ Remark[n].correction
                                     /\ Remark[n].topic = t}
            asked == {i \in DOMAIN requested: requested[i].topic = t}
        IN signals[t] + LessonThreshold * Cardinality(asked) <= Cardinality(remarks)

(***************************************************************************)
(* A request that names memories is done only when a reflection, its own   *)
(* or one begun after the request, has read them from the store, or they   *)
(* are gone.  (What reflections wrote themselves, none reads.  Of what it  *)
(* has read a reflection shows its model the latest.)                      *)
(***************************************************************************)
Heeded ==
    \A i \in DOMAIN requested:
        requested[i].done =>
            \A m \in memories:
                m.id \in requested[i].about /\ m.kind # "reflection" =>
                    m.id \in narrative.reviewed

(***************************************************************************)
(* The inner state follows from the reflections that were committed: each  *)
(* request gave one at most, each was made from the narrative before it,   *)
(* no passage formed the taste twice, and the mood has shifted as often as *)
(* the process has committed one.                                          *)
(***************************************************************************)
InnerStateFollows ==
    LET stories == narrative.stories
    IN /\ \A i \in DOMAIN stories:
             /\ requested[stories[i].n].done
             /\ stories[i].used \cap unread = {}
             /\ stories[i].base = IF i = 1 THEN 0 ELSE stories[i - 1].stamp
             /\ \A j \in DOMAIN stories: i # j =>
                   /\ stories[i].n # stories[j].n
                   /\ stories[i].used \cap stories[j].used = {}
       /\ mood.shifts = Len(stories) - mood.since
=============================================================================
