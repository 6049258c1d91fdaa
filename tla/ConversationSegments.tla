------------------------ MODULE ConversationSegments ------------------------
(***************************************************************************)
(* The archive of what was said (memory/segments.py and the segment        *)
(* methods of memory/facade.py).  Every turn of a conversation is appended *)
(* once to the latest segment, or opens a new one.  A segment that has     *)
(* ended is judged by a model and its facts are extracted by another call; *)
(* a turn that joins it later asks for both again.  Recalls are counted by *)
(* the reply that used the segment, and promote it.  Beyond a capacity the *)
(* short-term segments leave the recall.                                   *)
(*                                                                         *)
(* One lock covers an operation from its first read to its last write,     *)
(* model calls included, because the row of a segment is written back as a *)
(* whole from the copy that was read.  The process may die, or the caller  *)
(* be cancelled, between any two steps; the reply then finishes again and  *)
(* gives the same turns.                                                   *)
(***************************************************************************)
EXTENDS Facts

CONSTANTS
    Turns,          \* the keys of the turns
    Text,           \* what each turn is: [speaker, at, topics, ack, breaks, claims]
    Statements,     \* what a model may make of some turns, claim by claim
    Judgements,     \* what the model may judge: [kind, high, cites, names, topics]
    PromptTurns,    \* so many turns of a segment fit the prompt that shows it
    Gap,            \* a pause longer than this ends a segment
    RecallThreshold,\* so many recalls make a segment or a memory long-term
    SegmentCapacity,\* so many short-term segments stay within reach
    PendingLimit,   \* so many segments are judged in one maintenance
    Inquiries,      \* the user's messages whose replies recall
    MaxTime,        \* bound: the clock stops here
    Budgets         \* bound: how often each thing may happen in a behaviour

ASSUME SegmentAssumption ==
    /\ {Gap, RecallThreshold, SegmentCapacity, PendingLimit, MaxTime} \subseteq Nat
    /\ PromptTurns \in Nat
    /\ RecallThreshold > 0 /\ PendingLimit > 0
    /\ Never > MaxTime
    /\ IsFiniteSet(Inquiries)
    /\ \A t \in Turns: Text[t].at \in Nat
    /\ \A claims \in Statements:
          /\ Len(claims) \in Nat
          /\ \A i \in 1..Len(claims): IsClaim(claims[i])

VARIABLES
    segments,   \* the chain of segments, oldest first
    archive,    \* for each turn the number of its segment, 0 before it has one
    recallUses, \* the pairs of a message and a segment already counted
    known,      \* the facts, see Facts
    keeper,     \* the operation that holds the lock and how far it is
    clock,
    left        \* what is left of the budget

segmentVars == <<segments, archive, recallUses, known, keeper, clock, left>>

Idle == [job |-> "none", turn |-> "", queue |-> {}, step |-> "idle", draft |-> {}]

Spend(what) == /\ left[what] > 0
               /\ left' = [left EXCEPT ![what] = @ - 1]

----------------------------------------------------------------------------
(* The segments and their rows *)

Latest == Len(segments)

UserTurns(row) == {t \in ToSet(row.turns): Text[t].speaker = "user"}

\* The prompt shows the first 12000 characters of a segment, here so many turns,
\* a turn it cuts among them; what follows is judged and extracted unread.
Shown(row) == SubSeq(row.turns, 1, IF Len(row.turns) < PromptTurns THEN Len(row.turns)
                                   ELSE PromptTurns)

\* (wrong on purpose) the archive is not asked whether the turn is known
ForgetsTurn(t) == FALSE

Archived(t) == archive[t] # 0

\* should_continue: a short acknowledgement continues anything; a long pause
\* needs a common topic; a marker of change breaks; else a weak link will do.
Continues(row, t) ==
    LET common == Text[t].topics \cap row.topics # {}
    IN \/ Text[t].ack
       \/ /\ Text[t].at - row.ended > Gap
          /\ common
       \/ /\ Text[t].at - row.ended <= Gap
          /\ ~Text[t].breaks
          /\ common \/ row.topics = {}

Joins(t) ==
    /\ Latest > 0
    /\ segments[Latest].active
    /\ Text[t].speaker = "nyx" \/ Continues(segments[Latest], t)

FreshSegment(t) ==
    [turns |-> <<t>>, started |-> Text[t].at, ended |-> Text[t].at,
     topics |-> Text[t].topics, judged |-> FALSE, extracted |-> FALSE,
     longTerm |-> FALSE, scope |-> "conversation", recalls |-> 0,
     active |-> TRUE, supports |-> {}, heard |-> <<>>]

\* (wrong on purpose) a turn that joins a segment leaves its judgement standing
JoinedQuietly(row, t) ==
    [row EXCEPT !.turns = Append(@, t), !.ended = IF @ > Text[t].at THEN @ ELSE Text[t].at,
                !.topics = @ \cup Text[t].topics]

JoinedSegment(row, t) ==
    [row EXCEPT !.turns = Append(@, t),
                !.started = IF @ < Text[t].at THEN @ ELSE Text[t].at,
                !.ended = IF @ > Text[t].at THEN @ ELSE Text[t].at,
                !.topics = @ \cup Text[t].topics,
                !.judged = FALSE, !.extracted = FALSE,
                !.longTerm = row.recalls >= RecallThreshold]

\* The row as the judgement leaves it.  Only a profile that other segments and
\* the user's own words bear out is long-term, or an episode that matters.  The
\* events it cites may be any of the segment, shown or not: all are listed to it.
JudgedRow(n, row, j) ==
    LET cited == j.cites /\ UserTurns(row) # {}
        others == {m \in DOMAIN segments: j.names /\ m # n}
        keeps == \/ j.kind = "user_profile" /\ cited /\ others # {}
                 \/ j.kind = "episode" /\ cited /\ j.high
        longTerm == keeps \/ row.recalls >= RecallThreshold
    IN [row EXCEPT
           !.judged = TRUE,
           !.longTerm = longTerm,
           !.scope = IF j.kind = "user_profile" THEN "profile" ELSE "conversation",
           !.supports = IF longTerm /\ j.kind = "user_profile" THEN @ \cup others ELSE @,
           !.topics = IF j.topics = {} THEN @ ELSE j.topics,
           !.heard = Shown(row)]

\* The segments over the capacity: short-term ones, the longest ended first.
Overflow ==
    LET short == {n \in DOMAIN segments: segments[n].active /\ ~segments[n].longTerm}
        over == Cardinality(short) - SegmentCapacity
    IN {gone \in SUBSET short:
           /\ Cardinality(gone) = IF over > 0 THEN over ELSE 0
           /\ \A g \in gone, k \in short \ gone: segments[g].ended <= segments[k].ended}

----------------------------------------------------------------------------
(* The queue of segments to judge *)

\* The row of a segment as it was read.
Copy(n) == [n |-> n, row |-> segments[n]]

\* By the time they ended, and then by their number.
Sooner(a, b) ==
    \/ a.row.ended < b.row.ended
    \/ a.row.ended = b.row.ended /\ a.n < b.n

\* What follows the last segment of the queue.
After(job) == IF job = "append" THEN "prepare"
              ELSE IF job = "maintain" THEN "settle" ELSE "idle"

Queued(job, turn, queue) ==
    IF queue = {} /\ After(job) = "idle" THEN Idle
    ELSE [job |-> job, turn |-> turn, queue |-> queue,
          step |-> IF queue = {} THEN After(job) ELSE "judge", draft |-> {}]

Advanced(c) == Queued(keeper.job, keeper.turn, keeper.queue \ {c})

Unsettled(n) == ~segments[n].judged \/ ~segments[n].extracted

\* The oldest ended segments that were not judged or whose facts are missing.
Pending ==
    LET due == {Copy(n): n \in {m \in DOMAIN segments:
                   Unsettled(m) /\ segments[m].ended + Gap <= clock}}
    IN {c \in due: Cardinality({d \in due: Sooner(d, c)}) < PendingLimit}

----------------------------------------------------------------------------
(* Judging a segment and extracting its facts *)

Leading(c) == c \in keeper.queue /\ \A d \in keeper.queue: ~Sooner(d, c)

Wrote(n, row) == segments' = [segments EXCEPT ![n] = row]

JudgeSegment(c) ==
    /\ Leading(c)
    /\ keeper.step = "judge"
    /\ ~c.row.judged
    /\ \E j \in Judgements:
          LET row == JudgedRow(c.n, c.row, j)
          IN /\ Wrote(c.n, row)
             /\ keeper' = [keeper EXCEPT !.step = "extract",
                              !.queue = (@ \ {c}) \cup {[n |-> c.n, row |-> row]}]
    /\ UNCHANGED <<archive, recallUses, known, clock, left>>

\* The model fails: the row is written back as it was read.
JudgeFails(c) ==
    /\ Leading(c)
    /\ keeper.step = "judge"
    /\ ~c.row.judged
    /\ Spend("faults")
    /\ Wrote(c.n, c.row)
    /\ keeper' = [keeper EXCEPT !.step = "extract"]
    /\ UNCHANGED <<archive, recallUses, known, clock>>

Extracting(c) ==
    /\ Leading(c)
    /\ keeper.step = "extract" \/ (keeper.step = "judge" /\ c.row.judged)

\* What the model may have understood of what it was shown of the user's words.
Understood(row) ==
    {claims \in Statements:
        ToSet(claims) \subseteq
            UNION {Text[t].claims: t \in UserTurns(row) \cap ToSet(Shown(row))}}

\* One transaction: what the segment stated ends, what it states now begins.
SegmentFacts(n, row, claims) ==
    LET source == <<"segment", n>>
        kept == ParseFacts(claims, FALSE)
        profile == {c \in kept: row.scope = "profile" /\ c.subject = User}
        closed == CloseSegmentFacts(known, source, row.ended)
        mine == ApplyFacts(closed, claims, profile, row.ended, "profile", source)
    IN ApplyFacts(mine, claims, kept \ profile, row.ended, "conversation", source)

ExtractFacts(c) ==
    /\ Extracting(c)
    /\ c.row.judged /\ ~c.row.extracted
    /\ \E claims \in Understood(c.row): known' = SegmentFacts(c.n, c.row, claims)
    /\ Wrote(c.n, [c.row EXCEPT !.extracted = TRUE])
    /\ keeper' = Advanced(c)
    /\ UNCHANGED <<archive, recallUses, clock, left>>

\* Not judged, already extracted, or the extraction fails.
LeaveFacts(c) ==
    /\ Extracting(c)
    /\ IF c.row.judged /\ ~c.row.extracted
       THEN Spend("faults") ELSE UNCHANGED left
    /\ keeper' = Advanced(c)
    /\ UNCHANGED <<segments, archive, recallUses, known, clock>>

----------------------------------------------------------------------------
(* Appending a turn *)

BeginAppend(t) ==
    /\ keeper = Idle
    /\ Spend("turns")
    /\ Text[t].at <= clock
    /\ keeper' =
          IF Archived(t) THEN Idle
          ELSE Queued("append", t,
                      IF /\ Latest > 0
                         /\ Text[t].speaker = "user"
                         /\ ~Continues(segments[Latest], t)
                      THEN {Copy(Latest)} ELSE {})
    /\ UNCHANGED <<segments, archive, recallUses, known, clock>>

\* The row is made from the latest one, and its text embedded.
PrepareTurn ==
    /\ keeper.step = "prepare"
    /\ keeper' = [keeper EXCEPT
          !.step = "commit",
          !.draft = {IF Joins(keeper.turn)
                     THEN [n |-> Latest, row |-> JoinedSegment(segments[Latest], keeper.turn)]
                     ELSE [n |-> Latest + 1, row |-> FreshSegment(keeper.turn)]}]
    /\ UNCHANGED <<segments, archive, recallUses, known, clock, left>>

\* One transaction: the archive is asked again, the row is written with the
\* recalls counted since, its evidence is cleared, and the turn is archived.
CommitTurn(draft) ==
    /\ keeper.step = "commit"
    /\ ~Archived(keeper.turn)
    /\ segments' =
          IF draft.n > Latest THEN Append(segments, draft.row)
          ELSE [segments EXCEPT ![draft.n] =
                   [draft.row EXCEPT !.recalls = segments[draft.n].recalls,
                                     !.longTerm = segments[draft.n].recalls >= RecallThreshold,
                                     !.supports = {}]]
    /\ archive' = [archive EXCEPT ![keeper.turn] = draft.n]
    /\ keeper' = [keeper EXCEPT !.step = "settle", !.draft = {}]
    /\ UNCHANGED <<recallUses, known, clock, left>>

\* The embedding fails or the caller is cancelled: the lock is released.
KeeperFails ==
    /\ keeper # Idle
    /\ Spend("faults")
    /\ keeper' = Idle
    /\ UNCHANGED <<segments, archive, recallUses, known, clock>>

----------------------------------------------------------------------------
(* Maintenance, closing and recall *)

SettleCapacity ==
    /\ keeper.step = "settle"
    /\ \E gone \in Overflow:
          segments' = [n \in DOMAIN segments |->
              [segments[n] EXCEPT !.active = @ /\ n \notin gone]]
    /\ keeper' = Idle
    /\ UNCHANGED <<archive, recallUses, known, clock, left>>

MaintainSegments ==
    /\ keeper = Idle
    /\ Spend("maintenance")
    /\ keeper' = Queued("maintain", "", Pending)
    /\ UNCHANGED <<segments, archive, recallUses, known, clock>>

FinalizeSegment ==
    /\ keeper = Idle
    /\ Latest > 0
    /\ Spend("maintenance")
    /\ keeper' = Queued("finalize", "", {Copy(Latest)})
    /\ UNCHANGED <<segments, archive, recallUses, known, clock>>

\* What a search may find, by its words or by its vector.
Found == {n \in DOMAIN segments: segments[n].active}

\* (wrong on purpose) a recall is counted without waiting for the lock
LockIgnored == TRUE

LockFree == keeper = Idle

RecallSegment(n, u) ==
    /\ LockFree
    /\ n \in Found
    /\ <<u, n>> \notin recallUses
    /\ recallUses' = recallUses \cup {<<u, n>>}
    /\ Wrote(n, [segments[n] EXCEPT
                    !.recalls = @ + 1,
                    !.longTerm = @ \/ segments[n].recalls + 1 >= RecallThreshold])
    /\ UNCHANGED <<archive, known, keeper, clock, left>>

Tick ==
    /\ clock < MaxTime
    /\ Spend("ticks")
    /\ clock' = clock + 1
    /\ UNCHANGED <<segments, archive, recallUses, known, keeper>>

----------------------------------------------------------------------------
SegmentInit ==
    /\ segments = <<>>
    /\ archive = [t \in Turns |-> 0]
    /\ recallUses = {}
    /\ known = NothingKnown
    /\ keeper = Idle
    /\ clock = 0
    /\ left \in Budgets

SegmentNext ==
    \/ \E t \in Turns: BeginAppend(t)
    \/ \E c \in keeper.queue:
          JudgeSegment(c) \/ JudgeFails(c) \/ ExtractFacts(c) \/ LeaveFacts(c)
    \/ PrepareTurn
    \/ \E draft \in keeper.draft: CommitTurn(draft)
    \/ KeeperFails
    \/ SettleCapacity
    \/ MaintainSegments
    \/ FinalizeSegment
    \/ \E n \in DOMAIN segments, u \in Inquiries: RecallSegment(n, u)
    \/ Tick

----------------------------------------------------------------------------
SegmentTypeOK ==
    /\ archive \in [Turns -> 0..Len(segments)]
    /\ recallUses \subseteq (Inquiries \X (DOMAIN segments))
    /\ KnownOK(known)
    /\ clock \in 0..MaxTime
    /\ keeper.step \in {"idle", "judge", "extract", "prepare", "commit", "settle"}
    /\ \A n \in DOMAIN segments:
          /\ segments[n].started <= segments[n].ended
          /\ segments[n].extracted => segments[n].judged
          /\ segments[n].supports \subseteq (DOMAIN segments) \ {n}

(***************************************************************************)
(* A turn is in the segment the archive names, once, and in no other, how- *)
(* ever often the reply that gives it was finished.                        *)
(***************************************************************************)
TurnsKept ==
    /\ \A n \in DOMAIN segments: \A i, j \in DOMAIN segments[n].turns:
          /\ archive[segments[n].turns[i]] = n
          /\ segments[n].turns[i] = segments[n].turns[j] => i = j
    /\ \A t \in Turns: archive[t] # 0 => t \in ToSet(segments[archive[t]].turns)

(***************************************************************************)
(* A segment counts as judged only while a judgement would read nothing    *)
(* else in it: none of the turns the prompt has room for joined it         *)
(* unheard, before or during the model call.  (For the others the code     *)
(* makes no such promise: what lies beyond the prompt is never heard, and  *)
(* the segment counts as judged all the same.)                             *)
(***************************************************************************)
JudgedAsItStands ==
    \A n \in DOMAIN segments: segments[n].judged => segments[n].heard = Shown(segments[n])

(***************************************************************************)
(* Every recall counts once, whatever was written back meanwhile, and      *)
(* enough of them keep the segment.                                        *)
(***************************************************************************)
RecallsCounted ==
    \A n \in DOMAIN segments:
        /\ segments[n].recalls = Cardinality({u \in Inquiries: <<u, n>> \in recallUses})
        /\ segments[n].recalls >= RecallThreshold => segments[n].longTerm

SegmentsKept == TurnsKept /\ JudgedAsItStands /\ RecallsCounted

(***************************************************************************)
(* Whatever time is asked about, a functional matter has one answer: when  *)
(* a fact begins to hold, no other fact about the same thing is valid,     *)
(* whatever the order in which they were learned.                          *)
(***************************************************************************)
FactsDisjoint ==
    \A f \in known.facts: \A g \in ValidFacts(known, {f.scope}, f.from):
        ~f.multi /\ ~g.multi /\ SameMatter(f, g) => SameClaim(f, g)
=============================================================================
