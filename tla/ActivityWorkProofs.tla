------------------------- MODULE ActivityWorkProofs -------------------------
(***************************************************************************)
(* The safety of Reading and of ActivityWork for every book, page, result  *)
(* of a search and number of halts.                                        *)
(***************************************************************************)
EXTENDS ActivityWork, TLAPS, FiniteSetTheorems, WellFoundedInduction, SequenceTheorems

-----------------------------------------------------------------------------
(* The book: the inductive invariant *)

Worker == [pc : Locked \cup {"idle", "waiting", "advancing", "gathering"}, target : Paras,
           item : 0..Items, pre : Nat, taken : SUBSET Fragments]
Call == [pc : {"idle", "resetting", "reading", "deciding", "spawning"}, target : Paras,
         seen : Progress]
Impulse == [pc : {"idle", "evaluating", "queued", "muttering", "asking"}, para : Paras,
            mutter : BOOLEAN, question : BOOLEAN]
Counts == {"reads", "turns", "saves", "checks", "faults"}

RowTyped == progress \in Progress /\ client \in Progress

TextTyped ==
    /\ source \in [cursor : 0..Ends[Total], block : Blocks \cup {<<>>}, digest : Nat]
    /\ evidence \subseteq Blocks
    /\ knowledge \subseteq evidence \X (1..digests) \X (1..Items)
    /\ digests \in Nat

WorkersTyped ==
    /\ lock \in Workers \cup {"free"}
    /\ workers \in [Workers -> Worker]
    /\ \A w \in Workers : workers[w].pc \in Locked <=> lock = w

ChecksTyped == calls \in [Callers -> Call] /\ finished \in BOOLEAN

NotesTyped ==
    /\ buffer \in Seq([id : Outputs, from : 1..Parts]) /\ Len(buffer) <= BufferMax
    /\ journal \subseteq Fragments
    /\ outputs \in Nat
    /\ lost \subseteq Outputs

AsidesTyped ==
    /\ impulses \in [Slots -> Impulse]
    /\ questionPending \in BOOLEAN /\ cooling \in BOOLEAN

RestTyped == accepting \in BOOLEAN /\ left \in [Counts -> Nat]

Typed ==
    /\ RowTyped /\ TextTyped /\ WorkersTyped /\ ChecksTyped /\ NotesTyped /\ AsidesTyped
    /\ RestTyped

\* The pending block begins at the cursor, and the only knowledge of it is of the digest that
\* is saved with it.
PendingAtCursor ==
    /\ source.block = <<>> => source.digest = 0
    /\ source.block # <<>> => source.block[1] = source.cursor
    /\ source.digest <= digests
    /\ \A b \in evidence : b[2] <= source.cursor \/ b = source.block
    /\ \A k \in knowledge : k[1] = source.block => k[2] = source.digest

\* How far the holder of the lock is with the pending block.
Knows(w) ==
    /\ workers[w].pc \in {"recording", "digesting", "remembering"} => source.block # <<>>
    /\ workers[w].pc \in {"digesting", "remembering"} => source.block \in evidence
    /\ workers[w].pc = "digesting" => source.digest = 0 /\ workers[w].item = 0
    /\ workers[w].pc = "remembering" =>
         /\ source.digest > 0
         /\ \A i \in 1..workers[w].item : <<source.block, source.digest, i>> \in knowledge

HolderKnows == \A w \in Workers : Knows(w)

SourceInv == PendingAtCursor /\ HolderKnows /\ SourceCovered

RevisionInv == client.rev <= progress.rev /\ RevisionNamesProgress

\* The buffer holds the latest outputs in their order.
BufferInOrder ==
    /\ \A i \in 1..Len(buffer) : buffer[i].id <= outputs
    /\ \A i, j \in 1..Len(buffer) : i < j => buffer[i].id < buffer[j].id

\* What an integration has taken of the buffer is its oldest fragments.
TakenFirst ==
    LET taken == workers["boundary"].taken IN
    workers["boundary"].pc \in {"composing", "announcing"} =>
        /\ \A f \in taken : f[1] <= outputs
        /\ \A i \in 1..Len(buffer), p \in 1..Parts :
             <<buffer[i].id, p>> \in taken =>
                 /\ p >= buffer[i].from
                 /\ \A q \in buffer[i].from..p : <<buffer[i].id, q>> \in taken
                 /\ \A j \in 1..(i - 1), q \in 1..Parts :
                      q >= buffer[j].from => <<buffer[j].id, q>> \in taken
        /\ workers["boundary"].pc = "announcing" => taken \subseteq journal

OutputsInv == BufferInOrder /\ TakenFirst /\ OutputsKept

BookInv == Typed /\ SourceInv /\ RevisionInv /\ OutputsInv

LEMMA TypedTypeOK == Typed => TypeOK
  <1> SUFFICES ASSUME Typed PROVE TypeOK
    OBVIOUS
  <1> USE DEF Typed
  <1>1. \A k \in knowledge : k[1] \in evidence /\ k[2] \in 1..digests /\ k[3] \in 1..Items
    BY DEF TextTyped
  <1>2. \A w \in Workers :
            /\ workers[w].pc \in Locked \cup {"idle", "waiting", "advancing", "gathering"}
            /\ workers[w].target \in Paras
            /\ workers[w].item \in 0..Items
            /\ workers[w].taken \subseteq Fragments
            /\ workers[w].pc \in Locked <=> lock = w
    BY DEF WorkersTyped, Worker
  <1>3. \A c \in Callers :
            /\ calls[c].pc \in {"idle", "resetting", "reading", "deciding", "spawning"}
            /\ calls[c].target \in Paras
            /\ calls[c].seen \in Progress
    BY DEF ChecksTyped, Call
  <1>4. outputs \in {0} \cup Outputs
    BY DEF NotesTyped, Outputs
  <1> QED
    BY <1>1, <1>2, <1>3, <1>4 DEF TypeOK, RowTyped, TextTyped, WorkersTyped, ChecksTyped,
       NotesTyped, AsidesTyped, RestTyped, Impulse

-----------------------------------------------------------------------------
(* The book: lemmas *)

\* A set of numbers that is not empty has a least one.
LEMMA Least ==
    ASSUME NEW S \in SUBSET Nat, S # {}
    PROVE  \E n \in S : \A o \in S : n <= o
  <1> DEFINE T == {0..n : n \in S}
  <1>1. T \subseteq FiniteSubsetsOf(Nat)
    <2> SUFFICES ASSUME NEW n \in S PROVE 0..n \in FiniteSubsetsOf(Nat)
      OBVIOUS
    <2>1. IsFiniteSet(0..n)
      BY FS_Interval
    <2> QED BY <2>1 DEF FiniteSubsetsOf
  <1>2. T # {}
    OBVIOUS
  <1> HIDE DEF T
  <1>3. PICK t \in T : \A u \in T : ~ (<<u, t>> \in StrictSubsetOrdering(Nat))
    BY <1>1, <1>2, FS_StrictSubsetOrderingWellFounded, WFMin
  <1>4. PICK n \in S : t = 0..n
    BY <1>3 DEF T
  <1>5. ASSUME NEW o \in S, o < n PROVE FALSE
    <2>1. 0..o \in T
      BY DEF T
    <2>2. 0..o \subseteq 0..n /\ n \in 0..n /\ ~ (n \in 0..o)
      BY <1>5
    <2>3. <<0..o, 0..n>> \in StrictSubsetOrdering(Nat)
      BY <2>2 DEF StrictSubsetOrdering
    <2> QED BY <1>3, <1>4, <2>1, <2>3
  <1> QED BY <1>5

LEMMA Constants ==
    /\ Total \in Nat \ {0} /\ Paras = 1..Total
    /\ \A p \in Paras : Ends[p] \in Nat \ {0}
    /\ Block \in Nat \ {0} /\ Items \in Nat \ {0} /\ Parts \in Nat \ {0}
    /\ PromptParts \in Nat \ {0} /\ BufferMax \in Nat \ {0}
    /\ MaxReads \in Nat /\ MaxTurns \in Nat /\ MaxSaves \in Nat /\ MaxChecks \in Nat
    /\ MaxFaults \in Nat
  BY ConstantsOK DEF Paras, Total

\* A paragraph ends before the next, so before every later one: a first counterexample has a
\* predecessor that is none.
LEMMA EndsGrow ==
    ASSUME NEW p \in Paras, NEW q \in Paras, p < q
    PROVE  Ends[p] < Ends[q]
  <1> USE Constants
  <1> DEFINE Bad == {n \in Paras : p < n /\ ~ (Ends[p] < Ends[n])}
  <1>1. SUFFICES ASSUME Bad # {} PROVE FALSE
    OBVIOUS
  <1>a. Bad \subseteq Nat
    OBVIOUS
  <1> HIDE DEF Bad
  <1>2. PICK n \in Bad : \A o \in Bad : n <= o
    BY <1>a, <1>1, Least
  <1> USE DEF Bad
  <1>3. n \in 2..Total /\ n - 1 \in Paras /\ p <= n - 1
    BY <1>2
  <1>4. Ends[n - 1] < Ends[n]
    BY <1>3, ConstantsOK
  <1>5. Ends[p] <= Ends[n - 1]
    <2>1. CASE p = n - 1
      BY <2>1
    <2>2. CASE p < n - 1
      <3>1. n - 1 \notin Bad
        BY <1>2, <1>3
      <3> QED BY <2>2, <3>1, <1>3
    <2> QED BY <2>1, <2>2, <1>3
  <1> QED BY <1>2, <1>3, <1>4, <1>5

LEMMA EndsBelow ==
    ASSUME NEW p \in Paras
    PROVE  Ends[p] \in 1..Ends[Total] /\ Total \in Paras
  BY Constants, EndsGrow

LEMMA SpendTyped ==
    ASSUME left \in [Counts -> Nat], NEW what \in Counts, Spend(what)
    PROVE  left' \in [Counts -> Nat]
  BY DEF Spend

\* What is cut next begins at the cursor and ends no later than the paragraph; nothing is left
\* for one that flushes only when the cursor has passed it.
LEMMA NextBlockCut ==
    ASSUME TextTyped, NEW target \in Paras, NEW flush \in BOOLEAN
    PROVE  LET next == NextBlock(target, flush) IN
           /\ next # <<>> => /\ next \in Blocks /\ next[1] = source.cursor
                             /\ source.cursor < next[2] /\ next[2] <= Ends[target]
           /\ next = <<>> /\ flush => Ends[target] <= source.cursor
  <1> DEFINE full == source.cursor + Block
             to == IF full < Ends[target] THEN full ELSE Ends[target]
  <1>1. source.cursor \in 0..Ends[Total] /\ Ends[target] \in 1..Ends[Total] /\ Block \in Nat \ {0}
        /\ Ends[Total] \in Nat
    BY Constants, EndsBelow DEF TextTyped
  <1>2. CASE source.cursor >= Ends[target]
    BY <1>1, <1>2 DEF NextBlock
  <1>3. CASE source.cursor < Ends[target]
    <2>1. to \in 1..Ends[Total] /\ source.cursor < to /\ to <= Ends[target]
      BY <1>1, <1>3
    <2>2. <<source.cursor, to>> \in Blocks
      BY <1>1, <2>1 DEF Blocks
    <2>3. to < full => to = Ends[target]
      BY <1>1
    <2>4. NextBlock(target, flush) = IF to < full /\ ~ flush THEN <<>> ELSE <<source.cursor, to>>
      BY <1>1, <1>3 DEF NextBlock
    <2>5. <<source.cursor, to>> # <<>>
      OBVIOUS
    <2> QED BY <2>1, <2>2, <2>4, <2>5
  <1> QED BY <1>1, <1>2, <1>3

-----------------------------------------------------------------------------
(* The book: types *)

LEMMA RestingTyped == Resting \in Worker
  BY Constants DEF Resting, Worker, Locked

\* One worker moves on, and the lock with it or not.
LEMMA WorkerMoves ==
    ASSUME WorkersTyped, NEW w \in Workers, NEW r \in Worker,
           workers' = [workers EXCEPT ![w] = r],
           \/ lock' = w /\ r.pc \in Locked /\ (lock = w \/ lock = "free")
           \/ lock' = "free" /\ r.pc \notin Locked /\ (lock = w \/ lock = "free")
           \/ lock' = lock /\ (r.pc \in Locked <=> lock = w)
    PROVE  WorkersTyped'
  <1>1. \A v \in Workers : v # "free"
    BY DEF Workers
  <1>2. lock' \in Workers \cup {"free"} /\ workers' \in [Workers -> Worker]
    BY DEF WorkersTyped
  <1>3. ASSUME NEW v \in Workers PROVE workers'[v].pc \in Locked <=> lock' = v
    <2>1. CASE v = w
      BY <1>1, <2>1 DEF WorkersTyped
    <2>2. CASE v # w
      BY <1>1, <2>2 DEF WorkersTyped
    <2> QED BY <2>1, <2>2
  <1> QED BY <1>2, <1>3 DEF WorkersTyped

LEMMA AfterSedimentTyped ==
    ASSUME WorkersTyped, NEW w \in Workers, NEW ok \in BOOLEAN
    PROVE  AfterSediment(w, ok) \in Worker /\ AfterSediment(w, ok).pc \notin Locked
  <1>1. workers[w] \in Worker
    BY DEF WorkersTyped
  <1>2. Resting.pc \notin Locked
    BY DEF Resting, Locked
  <1>3. \A pc \in {"advancing", "gathering"} :
            [workers[w] EXCEPT !.pc = pc] \in Worker /\ [workers[w] EXCEPT !.pc = pc].pc \notin Locked
    BY <1>1 DEF Worker, Locked
  <1> QED BY <1>2, <1>3, RestingTyped DEF AfterSediment, Workers

LEMMA LeaveTyped ==
    ASSUME WorkersTyped, NEW w \in Workers, NEW ok \in BOOLEAN, lock \in {w, "free"}, Leave(w, ok)
    PROVE  WorkersTyped'
  BY AfterSedimentTyped, WorkerMoves DEF Leave

\* One worker goes on to another step, under the lock or without it.
LEMMA ToTyped ==
    ASSUME WorkersTyped, NEW w \in Workers, NEW pc, To(w, pc),
           pc \in Locked \cup {"idle", "waiting", "advancing", "gathering"},
           \/ lock' = w /\ pc \in Locked /\ (lock = w \/ lock = "free")
           \/ lock' = lock /\ (pc \in Locked <=> lock = w)
    PROVE  WorkersTyped'
  <1> DEFINE r == [workers[w] EXCEPT !.pc = pc]
  <1>1. r \in Worker /\ r.pc = pc
    BY DEF WorkersTyped, Worker
  <1>2. workers' = [workers EXCEPT ![w] = r]
    BY DEF To
  <1> QED BY <1>1, <1>2, WorkerMoves

LEMMA SedimentTyped ==
    ASSUME Typed, PendingAtCursor, HolderKnows, NEW w \in Workers, SedimentStep(w)
    PROVE  Typed'
  <1> USE DEF Typed
  <1>1. RowTyped' /\ ChecksTyped' /\ NotesTyped' /\ AsidesTyped' /\ accepting' \in BOOLEAN
    BY DEF SedimentStep, row, checks, notes, asides, RowTyped, ChecksTyped, NotesTyped, AsidesTyped,
       RestTyped
  <1>2. left' \in [Counts -> Nat]
    BY SpendTyped DEF SedimentStep, SedimentFails, RestTyped, Counts
  <1>3. workers[w].pc \in Locked <=> lock = w
    BY DEF WorkersTyped
  <1>4. CASE TakeSourceBlock(w)
    <2> DEFINE next == NextBlock(workers[w].target, w # "page")
    <2>1. workers[w].target \in Paras /\ lock \in {w, "free"}
      BY <1>3, <1>4 DEF TakeSourceBlock, WorkersTyped, Worker, Locked
    <2>2. next # <<>> => next \in Blocks
      BY <2>1, NextBlockCut
    <2> HIDE DEF next
    <2>3. source' \in [cursor : 0..Ends[Total], block : Blocks \cup {<<>>}, digest : Nat]
      BY <1>4, <2>2 DEF TakeSourceBlock, TextTyped, next
    <2>4. TextTyped'
      BY <1>4, <2>3 DEF TakeSourceBlock, TextTyped
    <2>5. WorkersTyped'
      BY <1>4, <2>1, ToTyped, LeaveTyped DEF TakeSourceBlock, Locked
    <2> QED BY <1>1, <1>2, <2>4, <2>5 DEF RestTyped
  <1>5. CASE RecordEvidence(w)
    <2>1. source.block \in Blocks
      BY <1>5 DEF RecordEvidence, HolderKnows, Knows, TextTyped
    <2> DEFINE r == [workers[w] EXCEPT !.item = 0,
                       !.pc = IF source.digest = 0 THEN "digesting" ELSE "remembering"]
    <2>2. r \in Worker /\ r.pc \in Locked /\ workers' = [workers EXCEPT ![w] = r] /\ lock = w
          /\ lock' = lock
      BY <1>3, <1>5, Constants DEF RecordEvidence, WorkersTyped, Worker, Locked
    <2>3. WorkersTyped'
      BY <2>2, WorkerMoves
    <2>4. TextTyped'
      BY <1>5, <2>1 DEF RecordEvidence, TextTyped
    <2> QED BY <1>1, <1>2, <2>3, <2>4 DEF RestTyped
  <1>6. CASE DigestSourceBlock(w)
    <2>1. lock = w /\ lock' = lock
      BY <1>3, <1>6 DEF DigestSourceBlock, Locked
    <2>2. WorkersTyped'
      BY <1>6, <2>1, ToTyped DEF DigestSourceBlock, Locked
    <2>3. TextTyped'
      BY <1>6 DEF DigestSourceBlock, TextTyped
    <2> QED BY <1>1, <1>2, <2>2, <2>3 DEF RestTyped
  <1>7. CASE RememberKnowledge(w)
    <2> DEFINE r == [workers[w] EXCEPT !.item = @ + 1]
    <2>a. workers[w].item + 1 \in 1..Items /\ workers[w] \in Worker
      BY <1>7, Constants DEF RememberKnowledge, WorkersTyped, Worker
    <2>1. r \in Worker /\ r.pc \in Locked /\ workers' = [workers EXCEPT ![w] = r] /\ lock = w
          /\ lock' = lock
      BY <1>3, <1>7, <2>a DEF RememberKnowledge, Worker, Locked
    <2>2. WorkersTyped'
      BY <2>1, WorkerMoves
    <2>3. source.block \in evidence /\ source.digest \in 1..digests /\ workers[w].item + 1 \in 1..Items
      BY <1>7, <2>a DEF RememberKnowledge, HolderKnows, Knows, PendingAtCursor, TextTyped
    <2>4. <<source.block, source.digest, workers[w].item + 1>> \in
             evidence \X (1..digests) \X (1..Items)
      BY <2>3
    <2>5. TextTyped'
      BY <1>7, <2>4 DEF RememberKnowledge, TextTyped
    <2> QED BY <1>1, <1>2, <2>2, <2>5 DEF RestTyped
  <1>8. CASE CommitPending(w)
    <2>1. lock = w /\ lock' = lock
      BY <1>3, <1>8 DEF CommitPending, Locked
    <2>2. WorkersTyped'
      BY <1>8, <2>1, ToTyped DEF CommitPending, Locked
    <2>3. source.block[2] \in 0..Ends[Total]
      BY <1>8 DEF CommitPending, HolderKnows, Knows, TextTyped, Blocks
    <2>4. TextTyped'
      BY <1>8, <2>3 DEF CommitPending, TextTyped
    <2> QED BY <1>1, <1>2, <2>2, <2>4 DEF RestTyped
  <1>9. CASE SedimentFails(w)
    <2>1. lock = w
      BY <1>3, <1>9 DEF SedimentFails, Locked
    <2>2. WorkersTyped'
      BY <1>9, <2>1, LeaveTyped DEF SedimentFails
    <2>3. TextTyped'
      BY <1>9 DEF SedimentFails, text, TextTyped
    <2> QED BY <1>1, <1>2, <2>2, <2>3 DEF RestTyped
  <1> QED BY <1>4, <1>5, <1>6, <1>7, <1>8, <1>9 DEF SedimentStep

\* The paragraph at which an activity stops is one of the book.
LEMMA ReadTarget ==
    ASSUME NEW start \in Paras
    PROVE  ActivityReadTarget(start) \in Paras
  <1> DEFINE before == IF start = 1 THEN 0 ELSE Ends[start - 1]
             far == {p \in start..Total : Ends[p] - before >= Block}
  <1>1. far \subseteq Paras /\ far \in SUBSET Nat
    BY Constants
  <1>2. ActivityReadTarget(start) =
           IF far = {} THEN Total ELSE CHOOSE p \in far : \A q \in far : p <= q
    BY DEF ActivityReadTarget
  <1> HIDE DEF far
  <1>3. CASE far # {}
    <2>1. \E p \in far : \A q \in far : p <= q
      BY <1>1, <1>3, Least
    <2> QED BY <1>1, <1>2, <1>3, <2>1
  <1> QED BY <1>2, <1>3, Constants

LEMMA NoCallTyped == NoCall \in Call /\ NoRow \in Progress
  <1>1. NoRow \in Progress
    BY Constants DEF NoRow, Progress
  <1> QED BY <1>1, Constants DEF NoCall, Call

LEMMA CheckTyped ==
    ASSUME ChecksTyped, NEW c \in Callers, NEW p \in Paras, Check(c, p)
    PROVE  calls' \in [Callers -> Call]
  BY NoCallTyped DEF Check, ChecksTyped, Call

LEMMA RevisedTyped ==
    ASSUME NEW r \in Progress, NEW p \in Paras
    PROVE  [r EXCEPT !.nyx = p, !.rev = @ + 1] \in Progress
  <1>1. r.rev + 1 \in Nat /\ r.count \in Nat
    BY DEF Progress
  <1> QED BY <1>1 DEF Progress

\* The page, the activity and the user's checks.
RowStep ==
    \/ \E p \in Paras : SaveProgress(p)
    \/ \E wish \in {0} \cup Paras : ReadForActivity(wish)
    \/ LoadProgress \/ AdvanceNyxPosition \/ UserChecksBoundary

LEMMA RowStepTyped == ASSUME Typed, RowStep PROVE Typed'
  <1> USE DEF Typed
  <1>1. CASE \E p \in Paras : SaveProgress(p)
    <2>1. RowTyped'
      <3>1. PICK p \in Paras : SaveProgress(p)
        BY <1>1
      <3>2. progress' = [progress EXCEPT !.nyx = p, !.rev = @ + 1] /\ client' = progress'
        BY <3>1 DEF SaveProgress
      <3>3. progress' \in Progress
        BY <3>2, RevisedTyped DEF RowTyped
      <3> QED BY <3>2, <3>3 DEF RowTyped
    <2>2. left' \in [Counts -> Nat]
      BY <1>1, SpendTyped DEF SaveProgress, RestTyped, Counts
    <2> QED
      BY <1>1, <2>1, <2>2 DEF SaveProgress, text, work, checks, notes, asides, TextTyped, WorkersTyped,
         ChecksTyped, NotesTyped, AsidesTyped, RestTyped
  <1>2. ASSUME NEW wish \in {0} \cup Paras, ReadForActivity(wish) PROVE Typed'
    <2> DEFINE start == IF progress.rev = 0 THEN progress.nyx ELSE progress.nyx + 1
               target == IF wish = 0 THEN ActivityReadTarget(start) ELSE wish
               r == [Resting EXCEPT !.pc = "waiting", !.target = target]
    <2>1. wish = 0 => start \in Paras
      BY <1>2, Constants DEF ReadForActivity, RowTyped, Progress
    <2>2. target \in Paras
      BY <2>1, ReadTarget
    <2>3. /\ workers["activity"] = Resting /\ Spend("reads")
          /\ workers' = [workers EXCEPT !["activity"].pc = "waiting", !["activity"].target = target]
          /\ UNCHANGED <<row, text, lock, checks, notes, asides, accepting>>
      BY <1>2 DEF ReadForActivity
    <2> HIDE DEF target
    <2>4. r \in Worker /\ r.pc \notin Locked /\ Resting.pc \notin Locked
      BY <2>2, RestingTyped DEF Worker, Locked, Resting
    <2>5. workers' = [workers EXCEPT !["activity"] = r]
      BY <2>3 DEF WorkersTyped, Workers, Worker
    <2>6. WorkersTyped'
      BY <2>3, <2>4, <2>5, WorkerMoves DEF Workers, WorkersTyped
    <2>7. left' \in [Counts -> Nat]
      BY <2>3, SpendTyped DEF RestTyped, Counts
    <2> QED
      BY <2>3, <2>6, <2>7 DEF row, text, checks, notes, asides, RowTyped, TextTyped,
         ChecksTyped, NotesTyped, AsidesTyped, RestTyped
  <1>3. CASE LoadProgress
    BY <1>3 DEF LoadProgress, text, work, checks, notes, asides, RowTyped, TextTyped, WorkersTyped,
       ChecksTyped, NotesTyped, AsidesTyped, RestTyped
  <1>4. CASE AdvanceNyxPosition
    <2> DEFINE target == workers["activity"].target
    <2>1. target \in Paras /\ workers["activity"].pc \notin Locked
      BY <1>4 DEF AdvanceNyxPosition, WorkersTyped, Workers, Worker, Locked
    <2>2. RowTyped'
      <3>1. progress' \in {progress, [progress EXCEPT !.nyx = target, !.rev = @ + 1]}
        BY <1>4 DEF AdvanceNyxPosition
      <3>2. [progress EXCEPT !.nyx = target, !.rev = @ + 1] \in Progress
        BY <2>1, RevisedTyped DEF RowTyped
      <3> QED BY <1>4, <3>1, <3>2 DEF AdvanceNyxPosition, RowTyped
    <2>3. WorkersTyped'
      BY <1>4, <2>1, RestingTyped, WorkerMoves DEF AdvanceNyxPosition, Workers, WorkersTyped, Resting,
         Locked
    <2>4. ChecksTyped'
      BY <1>4, <2>1, CheckTyped DEF AdvanceNyxPosition, ChecksTyped, Callers
    <2> QED
      BY <1>4, <2>2, <2>3, <2>4 DEF AdvanceNyxPosition, text, notes, asides, TextTyped, NotesTyped,
         AsidesTyped, RestTyped
  <1>5. CASE UserChecksBoundary
    <2>1. ChecksTyped'
      BY <1>5, CheckTyped DEF UserChecksBoundary, ChecksTyped, Callers, RowTyped, Progress
    <2>2. left' \in [Counts -> Nat]
      BY <1>5, SpendTyped DEF UserChecksBoundary, RestTyped, Counts
    <2> QED
      BY <1>5, <2>1, <2>2 DEF UserChecksBoundary, row, text, work, notes, asides, RowTyped, TextTyped,
         WorkersTyped, NotesTyped, AsidesTyped, RestTyped
  <1> QED BY <1>1, <1>2, <1>3, <1>4, <1>5 DEF RowStep

\* An integration begins, or one is running already.
LEMMA SpawnTyped ==
    ASSUME WorkersTyped, ChecksTyped, NEW c \in Callers, NEW pre \in Nat, SpawnIntegration(c, pre),
           lock' = lock
    PROVE  WorkersTyped'
  <1> DEFINE r == [Resting EXCEPT !.pc = "waiting", !.target = calls[c].target, !.pre = pre]
  <1>1. CASE accepting /\ workers["boundary"] = Resting
    <2>1. calls[c].target \in Paras
      BY DEF ChecksTyped, Call
    <2>2. r \in Worker /\ r.pc \notin Locked /\ Resting.pc \notin Locked
      BY <2>1, RestingTyped DEF Worker, Locked, Resting
    <2>3. workers' = [workers EXCEPT !["boundary"] = r]
      BY <1>1 DEF SpawnIntegration, WorkersTyped, Workers, Worker
    <2> QED BY <1>1, <2>2, <2>3, WorkerMoves DEF Workers, WorkersTyped
  <1>2. CASE ~ (accepting /\ workers["boundary"] = Resting)
    BY <1>2 DEF SpawnIntegration, WorkersTyped
  <1> QED BY <1>1, <1>2

LEMMA BoundaryTyped ==
    ASSUME Typed, NEW c \in Callers, BoundaryStep(c)
    PROVE  Typed'
  <1> USE DEF Typed
  <1>1. TextTyped' /\ NotesTyped' /\ AsidesTyped' /\ RestTyped' /\ client' \in Progress /\ lock' = lock
    BY DEF BoundaryStep, text, notes, asides, TextTyped, NotesTyped, AsidesTyped, RestTyped, RowTyped
  <1>2. calls[c] \in Call /\ calls[c].target \in Paras /\ calls[c].seen \in Progress
    BY DEF ChecksTyped, Call
  <1>4. Done(c) => calls' \in [Callers -> Call]
    BY NoCallTyped DEF Done, ChecksTyped
  <1>5. CASE ResetCompletionMarker(c)
    <2>1. progress' \in Progress
      BY <1>2, <1>5, RevisedTyped DEF ResetCompletionMarker, RowTyped
    <2> QED
      BY <1>1, <1>4, <1>5, <2>1 DEF ResetCompletionMarker, RowTyped, WorkersTyped, ChecksTyped
  <1>6. CASE GetProgress(c)
    <2>1. calls' = [calls EXCEPT ![c] = [calls[c] EXCEPT !.pc = "deciding", !.seen = progress]]
      BY <1>6 DEF GetProgress, ChecksTyped, Call
    <2>2. [calls[c] EXCEPT !.pc = "deciding", !.seen = progress] \in Call
      BY <1>2 DEF Call, RowTyped
    <2> QED
      BY <1>1, <1>6, <2>1, <2>2 DEF GetProgress, RowTyped, WorkersTyped, ChecksTyped
  <1>7. CASE ChapterEnds(c)
    <2>1. calls[c].seen.count \in Nat
      BY <1>2 DEF Progress
    <2>2. WorkersTyped'
      BY <1>1, <1>7, <2>1, SpawnTyped DEF ChapterEnds
    <2> QED
      BY <1>1, <1>4, <1>7, <2>2 DEF ChapterEnds, RowTyped, ChecksTyped
  <1>8. CASE IncrementReadCount(c)
    <2>1. progress.count + 1 \in Nat /\ progress.rev + 1 \in Nat
      BY DEF RowTyped, Progress
    <2>2. progress' \in Progress
      BY <1>8, <2>1, Constants DEF IncrementReadCount, Progress
    <2>3. calls' = [calls EXCEPT ![c] = [calls[c] EXCEPT !.pc = "spawning"]]
      BY <1>8 DEF IncrementReadCount, ChecksTyped
    <2>4. [calls[c] EXCEPT !.pc = "spawning"] \in Call
      BY <1>2 DEF Call
    <2> QED
      BY <1>1, <1>8, <2>2, <2>3, <2>4 DEF IncrementReadCount, RowTyped, WorkersTyped, ChecksTyped
  <1>9. CASE BookEnds(c)
    <2>1. calls[c].seen.count \in Nat
      BY <1>2 DEF Progress
    <2>2. WorkersTyped'
      BY <1>1, <1>9, <2>1, SpawnTyped DEF BookEnds
    <2> QED
      BY <1>1, <1>4, <1>9, <2>2 DEF BookEnds, RowTyped, ChecksTyped
  <1>10. CASE EndsAgain(c)
    <2> DEFINE pre == IF calls[c].seen.count = 0 THEN 0 ELSE calls[c].seen.count - 1
    <2>1. pre \in Nat
      BY <1>2 DEF Progress
    <2>2. UNCHANGED workers \/ SpawnIntegration(c, pre)
      BY <1>10 DEF EndsAgain
    <2> HIDE DEF pre
    <2>3. WorkersTyped'
      BY <1>1, <2>1, <2>2, SpawnTyped DEF WorkersTyped
    <2> QED
      BY <1>1, <1>4, <1>10, <2>3 DEF EndsAgain, RowTyped, ChecksTyped
  <1> QED BY <1>5, <1>6, <1>7, <1>8, <1>9, <1>10 DEF BoundaryStep

\* A set of numbers that holds whatever precedes a member is told by its size.
LEMMA Initial ==
    ASSUME NEW a \in Int, NEW b \in Int, NEW S \in SUBSET (a..b),
           \A i \in S : \A j \in a..i : j \in S
    PROVE  /\ Cardinality(S) \in Nat
           /\ a <= b + 1 => a + Cardinality(S) <= b + 1
           /\ \A i \in a..b : i \in S <=> i < a + Cardinality(S)
  <1>1. IsFiniteSet(a..b) /\ Cardinality(a..b) = (IF a > b THEN 0 ELSE b - a + 1)
    BY FS_Interval
  <1>2. IsFiniteSet(S) /\ Cardinality(S) <= Cardinality(a..b)
    BY <1>1, FS_Subset
  <1>3. Cardinality(S) \in Nat
    BY <1>2, FS_CardinalityType
  <1>4. ASSUME NEW i \in a..b, i \in S PROVE i < a + Cardinality(S)
    <2>1. a..i \in SUBSET S
      BY <1>4
    <2>2. Cardinality(a..i) = i - a + 1
      BY <1>4, FS_Interval
    <2>3. Cardinality(a..i) <= Cardinality(S)
      BY <1>2, <2>1, FS_Subset
    <2> QED BY <1>3, <2>2, <2>3
  <1>5. ASSUME NEW i \in a..b, i \notin S PROVE ~ (i < a + Cardinality(S))
    <2>1. ASSUME NEW j \in S PROVE j \in a..(i - 1)
      <3>1. j \in a..b
        OBVIOUS
      <3>2. ~ (i <= j)
        BY <1>5, <3>1
      <3> QED BY <1>5, <3>1, <3>2
    <2>2. S \in SUBSET (a..(i - 1))
      BY <2>1
    <2>3. IsFiniteSet(a..(i - 1)) /\ Cardinality(a..(i - 1)) = i - a
      <3> DEFINE h == i - 1
      <3>1. h \in Int
        OBVIOUS
      <3> HIDE DEF h
      <3>2. IsFiniteSet(a..h) /\ Cardinality(a..h) = IF a > h THEN 0 ELSE h - a + 1
        BY <3>1, FS_Interval
      <3> QED BY <1>5, <3>2 DEF h
    <2>4. Cardinality(S) <= i - a
      BY <2>2, <2>3, FS_Subset
    <2> QED BY <1>3, <1>5, <2>4
  <1> QED BY <1>1, <1>2, <1>3, <1>4, <1>5

-----------------------------------------------------------------------------
(* The book: what an integration takes of the buffer *)

Precedes(g, f) == g[1] < f[1] \/ (g[1] = f[1] /\ g[2] < f[2])

LEMMA BufferAt ==
    ASSUME NotesTyped, NEW i \in 1..Len(buffer)
    PROVE  /\ buffer[i] \in [id : Outputs, from : 1..Parts]
           /\ buffer[i].id \in Nat \ {0} /\ buffer[i].from \in 1..Parts /\ Len(buffer) \in Nat
  <1>1. buffer[i] \in [id : Outputs, from : 1..Parts]
    BY ElementOfSeq DEF NotesTyped
  <1> QED BY <1>1 DEF NotesTyped, Outputs

\* The fragments before one are no fewer than those before an older one.
LEMMA BeforeGrows ==
    ASSUME NotesTyped, NEW g \in Waiting, NEW f \in Waiting, Precedes(g, f)
    PROVE  Cardinality(Before(g)) <= Cardinality(Before(f)) /\ Cardinality(Before(f)) \in Nat
           /\ Cardinality(Before(g)) \in Nat
  <1> DEFINE Places == (1..Len(buffer)) \X (1..Parts)
  <1>1. IsFiniteSet(1..Len(buffer)) /\ IsFiniteSet(1..Parts)
    BY Constants, FS_Interval DEF NotesTyped
  <1>2. IsFiniteSet(Places)
    BY <1>1, FS_Product
  <1>3. Waiting \subseteq Places
    BY DEF Waiting
  <1> HIDE DEF Places
  <1>4. Before(f) \subseteq Waiting /\ Before(g) \subseteq Waiting
    BY DEF Before
  <1>5. Before(g) \subseteq Before(f)
    <2> SUFFICES ASSUME NEW h \in Before(g) PROVE h \in Before(f)
      OBVIOUS
    <2>1. h \in Waiting /\ Precedes(h, g)
      BY DEF Before, Precedes
    <2>2. /\ h[1] \in 1..Len(buffer) /\ h[2] \in 1..Parts
          /\ g[1] \in 1..Len(buffer) /\ g[2] \in 1..Parts
          /\ f[1] \in 1..Len(buffer) /\ f[2] \in 1..Parts
      BY <2>1 DEF Waiting
    <2>3. Len(buffer) \in Nat /\ Parts \in Nat
      BY Constants DEF NotesTyped
    <2>4. Precedes(h, f)
      BY <2>1, <2>2, <2>3 DEF Precedes
    <2> QED BY <2>1, <2>4 DEF Before, Precedes
  <1>6. IsFiniteSet(Before(f))
    BY <1>2, <1>3, <1>4, FS_Subset
  <1>7. IsFiniteSet(Before(g)) /\ Cardinality(Before(g)) <= Cardinality(Before(f))
    BY <1>5, <1>6, FS_Subset
  <1> QED BY <1>6, <1>7, FS_CardinalityType

\* The fragments that the prompt holds, told by their places.
LEMMA PromptedAt ==
    ASSUME NotesTyped, BufferInOrder, NEW i \in 1..Len(buffer), NEW p \in 1..Parts
    PROVE  <<buffer[i].id, p>> \in Prompted <=>
             p >= buffer[i].from /\ Cardinality(Before(<<i, p>>)) < PromptParts
  <1>1. <<i, p>> \in Waiting <=> p >= buffer[i].from
    BY DEF Waiting
  <1>2. ASSUME NEW f \in Waiting, <<buffer[f[1]].id, f[2]>> = <<buffer[i].id, p>> PROVE f = <<i, p>>
    <2>1. f = <<f[1], f[2]>> /\ f[1] \in 1..Len(buffer) /\ f[2] = p
      BY <1>2 DEF Waiting
    <2>2. buffer[f[1]].id = buffer[i].id
      BY <1>2
    <2>3. \A j \in 1..Len(buffer) : buffer[j].id \in Nat
      BY BufferAt
    <2>4. \A j \in 1..Len(buffer) : buffer[j].id = buffer[i].id => j = i
      <3> SUFFICES ASSUME NEW j \in 1..Len(buffer), buffer[j].id = buffer[i].id PROVE j = i
        OBVIOUS
      <3>1. ~ (j < i) /\ ~ (i < j)
        BY <2>3 DEF BufferInOrder
      <3> QED BY <3>1, BufferAt
    <2> QED BY <2>1, <2>2, <2>4
  <1> QED BY <1>1, <1>2 DEF Prompted

LEMMA PromptedFirst ==
    ASSUME NotesTyped, BufferInOrder
    PROVE  /\ Prompted \subseteq Fragments
           /\ \A f \in Prompted : f[1] <= outputs
           /\ \A i \in 1..Len(buffer), p \in 1..Parts :
                <<buffer[i].id, p>> \in Prompted =>
                    /\ p >= buffer[i].from
                    /\ \A q \in buffer[i].from..p : <<buffer[i].id, q>> \in Prompted
                    /\ \A j \in 1..(i - 1), q \in 1..Parts :
                         q >= buffer[j].from => <<buffer[j].id, q>> \in Prompted
  <1>1. \A i \in 1..Len(buffer) : buffer[i].id \in Outputs /\ buffer[i].from \in 1..Parts
    BY BufferAt DEF Outputs
  <1>2. ASSUME NEW f \in Prompted PROVE f \in Fragments /\ f[1] <= outputs
    <2>1. PICK g \in Waiting : f = <<buffer[g[1]].id, g[2]>>
      BY DEF Prompted
    <2>2. g[1] \in 1..Len(buffer) /\ g[2] \in 1..Parts
      BY DEF Waiting
    <2> QED BY <1>1, <2>1, <2>2 DEF Fragments, BufferInOrder
  <1>3. ASSUME NEW i \in 1..Len(buffer), NEW p \in 1..Parts, <<buffer[i].id, p>> \in Prompted,
               NEW j \in 1..Len(buffer), NEW q \in 1..Parts, q >= buffer[j].from,
               j < i \/ (j = i /\ q < p)
        PROVE  <<buffer[j].id, q>> \in Prompted
    <2>1. p >= buffer[i].from /\ Cardinality(Before(<<i, p>>)) < PromptParts
      BY <1>3, PromptedAt
    <2>2. <<i, p>> \in Waiting /\ <<j, q>> \in Waiting
      BY <1>3, <2>1 DEF Waiting
    <2>3. Precedes(<<j, q>>, <<i, p>>)
      BY <1>3 DEF Precedes
    <2>4. Cardinality(Before(<<j, q>>)) < PromptParts
      BY <2>1, <2>2, <2>3, BeforeGrows, Constants
    <2> QED BY <1>3, <2>4, PromptedAt
  <1>4. ASSUME NEW i \in 1..Len(buffer), NEW p \in 1..Parts, <<buffer[i].id, p>> \in Prompted
        PROVE  /\ p >= buffer[i].from
               /\ \A q \in buffer[i].from..p : <<buffer[i].id, q>> \in Prompted
               /\ \A j \in 1..(i - 1), q \in 1..Parts :
                    q >= buffer[j].from => <<buffer[j].id, q>> \in Prompted
    <2>1. p >= buffer[i].from
      BY <1>4, PromptedAt
    <2>2. ASSUME NEW q \in buffer[i].from..p PROVE <<buffer[i].id, q>> \in Prompted
      <3>1. q \in 1..Parts /\ q >= buffer[i].from /\ (q = p \/ q < p)
        BY <1>1, Constants
      <3> QED BY <1>3, <1>4, <3>1
    <2>3. ASSUME NEW j \in 1..(i - 1), NEW q \in 1..Parts, q >= buffer[j].from
          PROVE  <<buffer[j].id, q>> \in Prompted
      <3>1. j \in 1..Len(buffer) /\ j < i
        BY DEF NotesTyped
      <3> QED BY <1>3, <1>4, <2>3, <3>1
    <2> QED BY <2>1, <2>2, <2>3
  <1> QED BY <1>2, <1>4

\* What is eaten of an output is what was left of it up to some part.
LEMMA EatenFirst ==
    ASSUME NotesTyped, TakenFirst, workers["boundary"].pc = "announcing",
           NEW i \in 1..Len(buffer)
    PROVE  LET k == Cardinality(Eaten(buffer[i])) IN
           /\ k \in Nat /\ buffer[i].from + k \in 1..(Parts + 1)
           /\ \A p \in buffer[i].from..Parts :
                <<buffer[i].id, p>> \in workers["boundary"].taken <=> p < buffer[i].from + k
  <1> DEFINE E == Eaten(buffer[i])
             a == buffer[i].from
             taken == workers["boundary"].taken
  <1>1. a \in 1..Parts /\ Parts \in Nat
    BY BufferAt, Constants
  <1>2. \A p \in 1..Parts : p \in E <=> <<buffer[i].id, p>> \in taken
    BY DEF Eaten
  <1>3. \A p \in E : p \in a..Parts /\ \A q \in a..p : q \in E
    <2> SUFFICES ASSUME NEW p \in E PROVE p \in a..Parts /\ \A q \in a..p : q \in E
      OBVIOUS
    <2>1. p \in 1..Parts /\ <<buffer[i].id, p>> \in taken
      BY DEF Eaten
    <2>2. p >= a /\ \A q \in a..p : <<buffer[i].id, q>> \in taken
      BY <2>1 DEF TakenFirst
    <2>3. ASSUME NEW q \in a..p PROVE q \in E
      <3>1. q \in 1..Parts
        BY <1>1, <2>1
      <3> QED BY <1>2, <2>2, <3>1
    <2>4. p \in a..Parts
      BY <1>1, <2>1, <2>2
    <2> QED BY <2>3, <2>4
  <1> HIDE DEF E, a
  <1>4. /\ Cardinality(E) \in Nat
        /\ a + Cardinality(E) <= Parts + 1
        /\ \A p \in a..Parts : p \in E <=> p < a + Cardinality(E)
    <2>1. E \in SUBSET (a..Parts) /\ a \in Int /\ Parts \in Int /\ a <= Parts + 1
      BY <1>1, <1>3
    <2> QED BY <1>3, <2>1, Initial
  <1>5. a..Parts \subseteq 1..Parts
    BY <1>1
  <1> QED BY <1>1, <1>2, <1>4, <1>5 DEF E, a

\* The oldest outputs are used up; of the others some part may be.
LEMMA Consumed ==
    ASSUME NotesTyped, TakenFirst, Consume
    PROVE  \E n \in 0..Len(buffer) :
             /\ buffer' \in Seq([id : Outputs, from : 1..Parts])
             /\ Len(buffer') = Len(buffer) - n
             /\ \A i \in 1..n, q \in 1..Parts :
                  q >= buffer[i].from => <<buffer[i].id, q>> \in workers["boundary"].taken
             /\ \A i \in 1..Len(buffer') :
                  /\ buffer'[i].id = buffer[n + i].id
                  /\ \A q \in 1..Parts : q >= buffer[n + i].from =>
                       q >= buffer'[i].from \/ <<buffer'[i].id, q>> \in workers["boundary"].taken
  <1> DEFINE N == Len(buffer)
             taken == workers["boundary"].taken
             k(i) == Cardinality(Eaten(buffer[i]))
             rest == [i \in 1..N |-> [buffer[i] EXCEPT !.from = @ + k(i)]]
             usedUp == {i \in 1..N : rest[i].from > Parts}
             n == Cardinality(usedUp)
  <1>1. workers["boundary"].pc = "announcing" /\ buffer' = SubSeq(rest, n + 1, N)
    BY DEF Consume
  <1>2. N \in Nat /\ Parts \in Nat
    BY Constants DEF NotesTyped
  <1>3. \A i \in 1..N :
            /\ k(i) \in Nat /\ buffer[i].from + k(i) \in 1..(Parts + 1)
            /\ buffer[i] \in [id : Outputs, from : 1..Parts]
            /\ buffer[i].id \in Outputs /\ buffer[i].from \in 1..Parts
            /\ \A p \in buffer[i].from..Parts :
                 <<buffer[i].id, p>> \in taken <=> p < buffer[i].from + k(i)
    BY <1>1, EatenFirst, BufferAt DEF Outputs
  <1> HIDE DEF k
  <1>4. \A i \in 1..N :
            /\ rest[i].from = buffer[i].from + k(i) /\ rest[i].id = buffer[i].id
            /\ rest[i] = [id |-> buffer[i].id, from |-> buffer[i].from + k(i)]
    BY <1>3
  <1> HIDE DEF rest
  <1>5. \A i \in 1..N : i \in usedUp <=> <<buffer[i].id, Parts>> \in taken
    <2> SUFFICES ASSUME NEW i \in 1..N PROVE i \in usedUp <=> <<buffer[i].id, Parts>> \in taken
      OBVIOUS
    <2>1. Parts \in buffer[i].from..Parts
      BY <1>2, <1>3
    <2>2. <<buffer[i].id, Parts>> \in taken <=> Parts < buffer[i].from + k(i)
      BY <1>3, <2>1
    <2>3. i \in usedUp <=> buffer[i].from + k(i) > Parts
      BY <1>4
    <2>4. buffer[i].from + k(i) \in Nat
      BY <1>3
    <2> QED BY <1>2, <2>2, <2>3, <2>4
  <1>6. \A i \in usedUp : \A j \in 1..i : j \in usedUp
    <2> SUFFICES ASSUME NEW i \in usedUp, NEW j \in 1..i, j # i PROVE j \in usedUp
      OBVIOUS
    <2>1. i \in 1..N /\ j \in 1..N /\ j \in 1..(i - 1) /\ <<buffer[i].id, Parts>> \in taken
      BY <1>2, <1>5
    <2>2. Parts \in 1..Parts /\ Parts >= buffer[j].from
      BY <1>2, <1>3, <2>1, Constants
    <2>3. <<buffer[j].id, Parts>> \in taken
      BY <1>1, <2>1, <2>2 DEF TakenFirst
    <2> QED BY <1>5, <2>1, <2>3
  <1>7. n \in 0..N /\ \A i \in 1..N : i \in usedUp <=> i <= n
    <2>1. usedUp \in SUBSET (1..N) /\ 1 \in Int /\ N \in Int /\ 1 <= N + 1
      BY <1>2
    <2> HIDE DEF usedUp
    <2>2. n \in Nat /\ 1 + n <= N + 1 /\ \A i \in 1..N : i \in usedUp <=> i < 1 + n
      BY <1>6, <2>1, Initial
    <2> QED BY <1>2, <2>2
  <1>8. \A i \in 1..N : rest[i].from > Parts <=> i <= n
    BY <1>7
  <1> HIDE DEF usedUp, n, N
  <1>9. \A i \in (n + 1)..N : rest[i] \in [id : Outputs, from : 1..Parts]
    <2> SUFFICES ASSUME NEW i \in (n + 1)..N PROVE rest[i] \in [id : Outputs, from : 1..Parts]
      OBVIOUS
    <2>1. i \in 1..N /\ ~ (i <= n)
      BY <1>2, <1>7
    <2>a. buffer[i].from + k(i) \in 1..(Parts + 1) /\ ~ (rest[i].from > Parts)
          /\ rest[i].from = buffer[i].from + k(i)
      BY <1>3, <1>4, <1>8, <2>1
    <2>2. buffer[i].from + k(i) \in 1..Parts /\ buffer[i].id \in Outputs
      BY <1>2, <1>3, <2>a, <2>1
    <2>3. rest[i] = [id |-> buffer[i].id, from |-> buffer[i].from + k(i)]
      BY <1>4, <2>1
    <2> QED BY <2>2, <2>3
  <1>10. /\ buffer' \in Seq([id : Outputs, from : 1..Parts])
         /\ Len(buffer') = N - n
         /\ \A i \in 1..(N - n) : buffer'[i] = rest[n + i]
    <2> DEFINE m == n + 1
    <2>1. m \in Int /\ N \in Int
      BY <1>2, <1>7
    <2>2. \A i \in m..N : rest[i] \in [id : Outputs, from : 1..Parts]
      BY <1>9
    <2> HIDE DEF m
    <2>3. /\ SubSeq(rest, m, N) \in Seq([id : Outputs, from : 1..Parts])
          /\ Len(SubSeq(rest, m, N)) = IF m <= N THEN N - m + 1 ELSE 0
          /\ \A i \in 1..(N - m + 1) : SubSeq(rest, m, N)[i] = rest[m + i - 1]
      BY <2>1, <2>2, SubSeqProperties
    <2>4. \A i \in 1..(N - n) : i \in 1..(N - m + 1) /\ m + i - 1 = n + i
      BY <1>2, <1>7 DEF m
    <2> QED BY <1>1, <1>2, <1>7, <2>3, <2>4 DEF m
  <1>11. ASSUME NEW i \in 1..n, NEW q \in 1..Parts, q >= buffer[i].from
         PROVE  <<buffer[i].id, q>> \in taken
    <2>a. i \in 1..N /\ i <= n
      BY <1>2, <1>7
    <2>b. rest[i].from > Parts /\ rest[i].from = buffer[i].from + k(i)
      BY <1>4, <1>8, <2>a
    <2>1. q \in buffer[i].from..Parts
      BY <1>2, <1>3, <2>a, <1>11
    <2>2. q < buffer[i].from + k(i)
      BY <1>2, <1>3, <2>a, <2>b, <2>1
    <2> QED BY <1>3, <2>a, <2>1, <2>2
  <1>12. ASSUME NEW i \in 1..Len(buffer')
         PROVE  /\ buffer'[i].id = buffer[n + i].id
                /\ \A q \in 1..Parts : q >= buffer[n + i].from =>
                     q >= buffer'[i].from \/ <<buffer'[i].id, q>> \in taken
    <2> DEFINE j == n + i
    <2>1. i \in 1..(N - n) /\ j \in 1..N
      BY <1>2, <1>7, <1>10
    <2>2. buffer'[i] = rest[j]
      BY <1>10, <2>1
    <2> HIDE DEF j
    <2>3. buffer'[i].id = buffer[j].id /\ buffer'[i].from = buffer[j].from + k(j)
      BY <1>4, <2>1, <2>2
    <2>4. ASSUME NEW q \in 1..Parts, q >= buffer[j].from, ~ (q >= buffer'[i].from)
          PROVE  <<buffer[j].id, q>> \in taken
      <3>1. q \in buffer[j].from..Parts /\ q < buffer[j].from + k(j)
        BY <1>2, <1>3, <2>1, <2>3, <2>4
      <3> QED BY <1>3, <2>1, <3>1
    <2> QED BY <2>3, <2>4 DEF j
  <1> QED BY <1>7, <1>10, <1>11, <1>12 DEF N

-----------------------------------------------------------------------------
(* The book: types, of the steps of an integration and of the impulses *)

LEMMA EndIntegrationTyped ==
    ASSUME WorkersTyped, lock = "boundary", EndIntegration
    PROVE  WorkersTyped'
  <1>1. Resting.pc \notin Locked /\ "boundary" \in Workers
    BY DEF Resting, Locked, Workers
  <1> QED BY <1>1, RestingTyped, WorkerMoves DEF EndIntegration

LEMMA IntegrationTyped ==
    ASSUME Typed, BufferInOrder, TakenFirst, IntegrationStep
    PROVE  Typed'
  <1> USE DEF Typed
  <1>1. RowTyped' /\ TextTyped' /\ ChecksTyped' /\ AsidesTyped' /\ accepting' \in BOOLEAN
    BY DEF IntegrationStep, row, text, checks, asides, RowTyped, TextTyped, ChecksTyped, AsidesTyped,
       RestTyped
  <1>2. /\ workers["boundary"] \in Worker
        /\ workers["boundary"].pc \in Locked <=> lock = "boundary"
        /\ workers["boundary"].taken \subseteq Fragments
    BY DEF WorkersTyped, Workers, Worker
  <1>3. CASE GatherOutputs
    <2>1. NotesTyped' /\ RestTyped'
      BY <1>1, <1>3 DEF GatherOutputs, notes, NotesTyped, RestTyped
    <2> DEFINE r == [workers["boundary"] EXCEPT !.pc = "composing", !.taken = Prompted]
    <2>2. CASE buffer = <<>>
      <3>1. Resting.pc \notin Locked /\ "boundary" \in Workers
        BY DEF Resting, Locked, Workers
      <3>2. lock = "free"
        BY <1>3 DEF GatherOutputs
      <3>3. WorkersTyped'
        BY <1>3, <2>2, <3>1, <3>2, RestingTyped, WorkerMoves DEF GatherOutputs
      <3> QED BY <1>1, <2>1, <3>3
    <2>3. CASE buffer # <<>>
      <3>1. r \in Worker /\ r.pc \in Locked /\ "boundary" \in Workers
        BY <1>2, PromptedFirst DEF Worker, Locked, Workers
      <3>2. workers' = [workers EXCEPT !["boundary"] = r] /\ lock' = "boundary" /\ lock = "free"
        BY <1>2, <1>3, <2>3 DEF GatherOutputs, Worker
      <3>3. WorkersTyped'
        BY <3>1, <3>2, WorkerMoves
      <3> QED BY <1>1, <2>1, <3>3
    <2> QED BY <2>2, <2>3
  <1>4. CASE RememberReading
    <2>1. lock = "boundary" /\ lock' = lock
      BY <1>2, <1>4 DEF RememberReading, Locked
    <2>2. WorkersTyped'
      BY <1>4, <2>1, ToTyped DEF RememberReading, Locked, Workers
    <2>3. NotesTyped' /\ RestTyped'
      BY <1>1, <1>2, <1>4 DEF RememberReading, NotesTyped, RestTyped
    <2> QED BY <1>1, <2>2, <2>3
  <1>5. CASE Consume
    <2>1. lock = "boundary" /\ EndIntegration
      BY <1>2, <1>5 DEF Consume, Locked
    <2>2. WorkersTyped'
      BY <2>1, EndIntegrationTyped
    <2>3. buffer' \in Seq([id : Outputs, from : 1..Parts]) /\ Len(buffer') <= Len(buffer)
          /\ Len(buffer') \in Nat
      <3>1. PICK n \in 0..Len(buffer) :
               buffer' \in Seq([id : Outputs, from : 1..Parts]) /\ Len(buffer') = Len(buffer) - n
        BY <1>5, Consumed
      <3> QED BY <3>1 DEF NotesTyped
    <2>a. Len(buffer') <= BufferMax
      BY <2>3, Constants DEF NotesTyped
    <2>4. NotesTyped' /\ RestTyped'
      BY <1>1, <1>5, <2>3, <2>a DEF Consume, NotesTyped, RestTyped
    <2> QED BY <1>1, <2>2, <2>4
  <1>6. CASE IntegrationFails
    <2>1. lock = "boundary" /\ EndIntegration
      BY <1>2, <1>6 DEF IntegrationFails, Locked
    <2>2. WorkersTyped'
      BY <2>1, EndIntegrationTyped
    <2>3. left' \in [Counts -> Nat]
      BY <1>6, SpendTyped DEF IntegrationFails, RestTyped, Counts
    <2>4. NotesTyped' /\ RestTyped'
      BY <1>1, <1>6, <2>3 DEF IntegrationFails, notes, NotesTyped, RestTyped
    <2> QED BY <1>1, <2>2, <2>4
  <1> QED BY <1>3, <1>4, <1>5, <1>6 DEF IntegrationStep

\* The buffer holds one more output, and the oldest is gone when there was no room.
LEMMA Recorded ==
    ASSUME NotesTyped, RecordOutput
    PROVE  \E n \in {0, 1} :
             /\ n <= Len(buffer) /\ Len(buffer') = Len(buffer) - n + 1
             /\ buffer' \in Seq([id : Outputs, from : 1..Parts])
             /\ \A i \in 1..(Len(buffer) - n) : buffer'[i] = buffer[n + i]
             /\ buffer'[Len(buffer) - n + 1] = [id |-> outputs + 1, from |-> 1]
             /\ Len(buffer') <= BufferMax
             /\ outputs' = outputs + 1 /\ journal' = journal
             /\ lost' = IF n = 0 THEN lost ELSE lost \cup {buffer[1].id}
  <1> DEFINE T == [id : Outputs, from : 1..Parts]
             e == [id |-> outputs + 1, from |-> 1]
             all == Append(buffer, e)
             After(n) ==
               /\ n <= Len(buffer) /\ Len(buffer') = Len(buffer) - n + 1
               /\ buffer' \in Seq(T)
               /\ \A i \in 1..(Len(buffer) - n) : buffer'[i] = buffer[n + i]
               /\ buffer'[Len(buffer) - n + 1] = e
               /\ Len(buffer') <= BufferMax
               /\ outputs' = outputs + 1 /\ journal' = journal
               /\ lost' = IF n = 0 THEN lost ELSE lost \cup {buffer[1].id}
  <1> SUFFICES \E n \in {0, 1} : After(n)
    OBVIOUS
  <1>1. e \in T /\ buffer \in Seq(T) /\ Len(buffer) \in Nat /\ BufferMax \in Nat \ {0}
    BY Constants DEF NotesTyped, Outputs
  <1> HIDE DEF T, e
  <1>2. /\ all \in Seq(T) /\ all # <<>> /\ Len(all) = Len(buffer) + 1
        /\ \A i \in 1..Len(buffer) : all[i] = buffer[i]
        /\ all[Len(buffer) + 1] = e
    BY <1>1, AppendProperties
  <1>3. /\ outputs' = outputs + 1 /\ journal' = journal
        /\ IF Len(all) > BufferMax
           THEN buffer' = Tail(all) /\ lost' = lost \cup {Head(all).id}
           ELSE buffer' = all /\ UNCHANGED lost
    BY DEF RecordOutput, e
  <1> HIDE DEF all
  <1>4. CASE Len(all) > BufferMax
    <2>1. /\ Tail(all) \in Seq(T) /\ Len(Tail(all)) = Len(all) - 1
          /\ \A i \in 1..Len(Tail(all)) : Tail(all)[i] = all[i + 1]
      BY <1>2, HeadTailProperties
    <2>2. Head(all) = all[1]
      BY <1>2
    <2>3. Len(buffer) >= 1 /\ Len(buffer) <= BufferMax
      BY <1>1, <1>2, <1>4 DEF NotesTyped
    <2>4. all[1] = buffer[1]
      BY <1>1, <1>2, <2>3
    <2>5. \A i \in 1..(Len(buffer) - 1) : Tail(all)[i] = buffer[1 + i]
      BY <1>1, <1>2, <2>1
    <2>6. Tail(all)[Len(buffer)] = e
      BY <1>1, <1>2, <2>1, <2>3
    <2>7. buffer' = Tail(all) /\ lost' = lost \cup {buffer[1].id}
      BY <1>3, <1>4, <2>2, <2>4
    <2>8. /\ 1 <= Len(buffer) /\ Len(buffer') = Len(buffer) - 1 + 1 /\ buffer' \in Seq(T)
          /\ \A i \in 1..(Len(buffer) - 1) : buffer'[i] = buffer[1 + i]
          /\ buffer'[Len(buffer) - 1 + 1] = e
          /\ Len(buffer') <= BufferMax
      BY <1>1, <1>2, <2>1, <2>3, <2>5, <2>6, <2>7
    <2>9. After(1)
      BY <1>3, <2>7, <2>8
    <2> HIDE DEF After
    <2> QED BY <2>9
  <1>5. CASE ~ (Len(all) > BufferMax)
    <2>1. After(0)
      BY <1>1, <1>2, <1>3, <1>5
    <2> HIDE DEF After
    <2> QED BY <2>1
  <1> QED BY <1>4, <1>5

LEMMA RecordTyped == ASSUME NotesTyped, RecordOutput PROVE NotesTyped'
  <1>1. lost' \subseteq Outputs
    <2>1. PICK n \in {0, 1} : n <= Len(buffer) /\ lost' = IF n = 0 THEN lost ELSE lost \cup {buffer[1].id}
      BY Recorded
    <2>2. n = 1 => 1 \in 1..Len(buffer)
      BY <2>1 DEF NotesTyped
    <2> QED BY <2>1, <2>2, BufferAt DEF NotesTyped, Outputs
  <1> QED BY <1>1, Recorded DEF NotesTyped

LEMMA NoImpulseTyped == NoImpulse \in Impulse
  BY Constants DEF NoImpulse, Impulse

LEMMA EndDispatchTyped ==
    ASSUME AsidesTyped, NEW s \in Slots, EndDispatch(s)
    PROVE  impulses' \in [Slots -> Impulse] /\ questionPending' \in BOOLEAN
  <1>1. impulses' \in [Slots -> Impulse]
    BY NoImpulseTyped DEF EndDispatch, AsidesTyped
  <1>2. questionPending' \in BOOLEAN
    BY Zenon DEF EndDispatch
  <1> QED BY <1>1, <1>2

LEMMA ImpulseMoves ==
    ASSUME AsidesTyped, NEW s \in Slots,
           NEW pc \in {"idle", "evaluating", "queued", "muttering", "asking"}
    PROVE  [impulses EXCEPT ![s].pc = pc] \in [Slots -> Impulse]
  BY DEF AsidesTyped, Impulse

LEMMA ImpulseTyped ==
    ASSUME Typed, ImpulseStep
    PROVE  Typed'
  <1> USE DEF Typed
  <1>1. RowTyped' /\ TextTyped' /\ ChecksTyped' /\ accepting' \in BOOLEAN
    BY DEF ImpulseStep, row, text, checks, RowTyped, TextTyped, ChecksTyped, RestTyped
  <1>2. ASSUME NEW s \in Slots, NEW p \in Paras, EvaluateParagraph(s, p) PROVE Typed'
    <2>1. left' \in [Counts -> Nat]
      BY <1>2, SpendTyped DEF EvaluateParagraph, RestTyped, Counts
    <2>2. NotesTyped' /\ lock' = lock
      BY <1>2 DEF EvaluateParagraph, notes, NotesTyped
    <2>3. WorkersTyped'
      <3>1. CASE accepting
        <4> DEFINE r == [Resting EXCEPT !.pc = "waiting", !.target = p]
        <4>1. workers["page"] = Resting /\ "page" \in Workers
              /\ workers' = [workers EXCEPT !["page"].pc = "waiting", !["page"].target = p]
          BY <1>2, <3>1 DEF EvaluateParagraph, Workers
        <4>2. r \in Worker /\ r.pc \notin Locked /\ Resting.pc \notin Locked
          BY RestingTyped DEF Worker, Locked, Resting
        <4>3. workers' = [workers EXCEPT !["page"] = r]
          BY <4>1 DEF WorkersTyped, Worker
        <4> QED BY <2>2, <4>1, <4>2, <4>3, WorkerMoves DEF WorkersTyped
      <3>2. CASE ~ accepting
        BY <1>2, <2>2, <3>2 DEF EvaluateParagraph, WorkersTyped
      <3> QED BY <3>1, <3>2
    <2>4. AsidesTyped'
      <3> DEFINE i == [impulses[s] EXCEPT !.pc = "evaluating", !.para = p]
      <3>1. i \in Impulse
        BY DEF AsidesTyped, Impulse
      <3>2. impulses' = [impulses EXCEPT ![s] = i]
        BY <1>2 DEF EvaluateParagraph, AsidesTyped, Impulse
      <3> QED BY <1>2, <3>1, <3>2 DEF EvaluateParagraph, AsidesTyped
    <2> QED BY <1>1, <2>1, <2>2, <2>3, <2>4 DEF RestTyped
  <1>3. ASSUME NEW s \in Slots, NEW mutter \in BOOLEAN, NEW question \in BOOLEAN,
               CheckTriggers(s, mutter, question)
        PROVE  Typed'
    <2>1. NotesTyped' /\ WorkersTyped' /\ RestTyped' /\ cooling' = cooling
      BY <1>1, <1>3 DEF CheckTriggers, work, notes, NotesTyped, WorkersTyped, RestTyped
    <2> DEFINE i == [impulses[s] EXCEPT !.pc = "queued", !.mutter = mutter, !.question = question]
    <2>2. i \in Impulse
      BY DEF AsidesTyped, Impulse
    <2>3. impulses' \in [Slots -> Impulse]
      <3>1. \/ impulses' = [impulses EXCEPT ![s].pc = "queued", ![s].mutter = mutter,
                                            ![s].question = question]
            \/ impulses' = [impulses EXCEPT ![s] = NoImpulse]
        BY <1>3 DEF CheckTriggers
      <3>2. [impulses EXCEPT ![s].pc = "queued", ![s].mutter = mutter, ![s].question = question]
              = [impulses EXCEPT ![s] = i]
        BY DEF AsidesTyped, Impulse
      <3> QED BY <2>2, <3>1, <3>2, NoImpulseTyped DEF AsidesTyped
    <2>4. questionPending' \in BOOLEAN
      <3>1. questionPending' = (questionPending \/ question) \/ questionPending' = questionPending
        BY <1>3, Zenon DEF CheckTriggers
      <3>2. (questionPending \/ question) \in BOOLEAN
        BY Zenon
      <3>3. questionPending \in BOOLEAN
        BY DEF AsidesTyped
      <3> QED BY <3>1, <3>2, <3>3, Zenon
    <2> QED BY <1>1, <2>1, <2>3, <2>4 DEF AsidesTyped
  <1>4. ASSUME NEW s \in Slots, StartDispatch(s) PROVE Typed'
    <2>1. NotesTyped' /\ WorkersTyped' /\ RestTyped'
      BY <1>1, <1>4 DEF StartDispatch, work, notes, NotesTyped, WorkersTyped, RestTyped
    <2>2. impulses' \in [Slots -> Impulse]
      BY <1>4, ImpulseMoves DEF StartDispatch
    <2> QED BY <1>1, <1>4, <2>1, <2>2 DEF StartDispatch, AsidesTyped
  <1>5. ASSUME NEW s \in Slots, Mutter(s) PROVE Typed'
    <2>1. NotesTyped'
      BY <1>5, RecordTyped DEF Mutter, notes, NotesTyped
    <2>2. WorkersTyped' /\ RestTyped' /\ cooling' = cooling
      BY <1>1, <1>5 DEF Mutter, work, WorkersTyped, RestTyped
    <2>3. impulses' \in [Slots -> Impulse] /\ questionPending' \in BOOLEAN
      BY <1>5, ImpulseMoves, EndDispatchTyped DEF Mutter, AsidesTyped
    <2> QED BY <1>1, <2>1, <2>2, <2>3 DEF AsidesTyped
  <1>6. ASSUME NEW s \in Slots, Question(s) PROVE Typed'
    <2>1. NotesTyped'
      BY <1>6, RecordTyped DEF Question, notes, NotesTyped
    <2>2. WorkersTyped' /\ RestTyped' /\ cooling' \in BOOLEAN
      BY <1>1, <1>6 DEF Question, work, WorkersTyped, RestTyped, AsidesTyped
    <2>3. impulses' \in [Slots -> Impulse] /\ questionPending' \in BOOLEAN
      BY <1>6, EndDispatchTyped DEF Question
    <2> QED BY <1>1, <2>1, <2>2, <2>3 DEF AsidesTyped
  <1>7. CASE CooldownElapses
    BY <1>1, <1>7 DEF CooldownElapses, work, notes, NotesTyped, WorkersTyped, RestTyped, AsidesTyped
  <1> QED BY <1>2, <1>3, <1>4, <1>5, <1>6, <1>7 DEF ImpulseStep

LEMMA StopTyped ==
    ASSUME Typed, Quiesce \/ Restart
    PROVE  Typed'
  <1> USE DEF Typed
  <1>1. CASE Quiesce
    BY <1>1 DEF Quiesce, row, text, work, checks, notes, asides, RowTyped, TextTyped, WorkersTyped,
       ChecksTyped, NotesTyped, AsidesTyped, RestTyped
  <1>2. CASE Restart
    <2>1. RowTyped' /\ TextTyped'
      BY <1>2 DEF Restart, row, text, RowTyped, TextTyped
    <2>2. WorkersTyped'
      <3>1. Resting.pc \notin Locked /\ \A w \in Workers : w # "free"
        BY DEF Resting, Locked, Workers
      <3> QED BY <1>2, <3>1, RestingTyped DEF Restart, WorkersTyped
    <2>3. ChecksTyped'
      BY <1>2, NoCallTyped DEF Restart, ChecksTyped
    <2>4. NotesTyped'
      <3>1. \A i \in 1..Len(buffer) : buffer[i].id \in Outputs
        BY BufferAt DEF Outputs
      <3>2. lost' \subseteq Outputs
        BY <1>2, <3>1 DEF Restart, NotesTyped
      <3>3. buffer' = <<>> /\ journal' = journal /\ outputs' = outputs
        BY <1>2 DEF Restart
      <3>4. <<>> \in Seq([id : Outputs, from : 1..Parts]) /\ Len(<<>>) = 0
        OBVIOUS
      <3> QED BY <3>2, <3>3, <3>4, Constants DEF NotesTyped
    <2>5. AsidesTyped'
      BY <1>2, NoImpulseTyped DEF Restart, AsidesTyped
    <2>6. RestTyped'
      BY <1>2, SpendTyped DEF Restart, RestTyped, Counts
    <2> QED BY <2>1, <2>2, <2>3, <2>4, <2>5, <2>6
  <1> QED BY <1>1, <1>2

LEMMA InitTyped == ASSUME Init PROVE Typed
  <1> USE DEF Init
  <1>1. RowTyped
    BY Constants DEF RowTyped, NoRow, Progress
  <1>2. TextTyped
    <2>1. Ends[Total] \in Nat
      BY Constants
    <2> QED BY <2>1 DEF TextTyped
  <1>3. WorkersTyped
    <2>1. Resting.pc \notin Locked /\ \A w \in Workers : w # "free"
      BY DEF Resting, Locked, Workers
    <2> QED BY <2>1, RestingTyped DEF WorkersTyped
  <1>4. ChecksTyped
    BY NoCallTyped DEF ChecksTyped
  <1>5. NotesTyped
    BY Constants DEF NotesTyped
  <1>6. AsidesTyped
    BY NoImpulseTyped DEF AsidesTyped
  <1>7. RestTyped
    BY Constants DEF RestTyped, Counts
  <1> QED BY <1>1, <1>2, <1>3, <1>4, <1>5, <1>6, <1>7 DEF Typed

-----------------------------------------------------------------------------
(* The book: the source *)

OtherStep ==
    \/ RowStep \/ (\E c \in Callers : BoundaryStep(c)) \/ IntegrationStep \/ ImpulseStep
    \/ Quiesce \/ Restart

AtSource == {"recording", "digesting", "remembering", "advancing"}

\* Only a step of sediment takes a worker to the source, or an activity past it.
LEMMA OtherKeepsText ==
    ASSUME Typed, OtherStep
    PROVE  UNCHANGED text /\ \A w \in Workers : workers'[w].pc \in AtSource => workers'[w] = workers[w]
  <1> USE DEF Typed, AtSource
  <1>a. Resting.pc = "idle"
    BY DEF Resting
  <1>b. \A w \in Workers : workers[w] \in Worker
    BY DEF WorkersTyped
  <1>1. CASE RowStep
    <2>1. UNCHANGED text
      BY <1>1 DEF RowStep, SaveProgress, ReadForActivity, LoadProgress, AdvanceNyxPosition,
         UserChecksBoundary
    <2>2. \/ workers' = workers
          \/ workers' = [workers EXCEPT !["activity"] = Resting]
          \/ \E t : workers' = [workers EXCEPT !["activity"].pc = "waiting", !["activity"].target = t]
      BY <1>1 DEF RowStep, SaveProgress, ReadForActivity, LoadProgress, AdvanceNyxPosition,
         UserChecksBoundary, work
    <2> QED BY <1>a, <1>b, <2>1, <2>2 DEF WorkersTyped, Worker
  <1>2. ASSUME NEW c \in Callers, BoundaryStep(c)
        PROVE  UNCHANGED text /\ \A w \in Workers : workers'[w].pc \in AtSource => workers'[w] = workers[w]
    <2>1. UNCHANGED text
      BY <1>2 DEF BoundaryStep
    <2>2. \/ workers' = workers
          \/ \E t, n : workers' = [workers EXCEPT !["boundary"].pc = "waiting",
                                     !["boundary"].target = t, !["boundary"].pre = n]
      BY <1>2 DEF BoundaryStep, ResetCompletionMarker, GetProgress, ChapterEnds, IncrementReadCount,
         BookEnds, EndsAgain, SpawnIntegration
    <2>3. ASSUME NEW t, NEW n,
                 workers' = [workers EXCEPT !["boundary"].pc = "waiting",
                               !["boundary"].target = t, !["boundary"].pre = n]
          PROVE  \A w \in Workers : workers'[w].pc \in AtSource => workers'[w] = workers[w]
      BY <1>b, <2>3 DEF WorkersTyped, Worker
    <2> QED BY <2>1, <2>2, <2>3
  <1>3. CASE IntegrationStep
    <2>1. UNCHANGED text
      BY <1>3 DEF IntegrationStep
    <2>2. \/ workers' = [workers EXCEPT !["boundary"] = Resting]
          \/ \E t : workers' = [workers EXCEPT !["boundary"].pc = "composing", !["boundary"].taken = t]
          \/ workers' = [workers EXCEPT !["boundary"].pc = "announcing"]
      BY <1>3 DEF IntegrationStep, GatherOutputs, RememberReading, Consume, IntegrationFails,
         EndIntegration, To
    <2> QED BY <1>a, <1>b, <2>1, <2>2 DEF WorkersTyped, Worker
  <1>4. CASE ImpulseStep
    <2>1. UNCHANGED text
      BY <1>4 DEF ImpulseStep
    <2>2. \/ workers' = workers
          \/ \E t : workers' = [workers EXCEPT !["page"].pc = "waiting", !["page"].target = t]
      BY <1>4 DEF ImpulseStep, EvaluateParagraph, CheckTriggers, StartDispatch, Mutter, Question,
         CooldownElapses, work
    <2> QED BY <1>b, <2>1, <2>2 DEF WorkersTyped, Worker
  <1>5. CASE Quiesce
    BY <1>5 DEF Quiesce, work
  <1>6. CASE Restart
    BY <1>a, <1>6 DEF Restart
  <1> QED BY <1>1, <1>2, <1>3, <1>4, <1>5, <1>6 DEF OtherStep

LEMMA OtherSource ==
    ASSUME Typed, SourceInv, OtherStep
    PROVE  SourceInv'
  <1>1. /\ UNCHANGED <<source, evidence, knowledge, digests>>
        /\ \A w \in Workers : workers'[w].pc \in AtSource => workers'[w] = workers[w]
    BY OtherKeepsText DEF text
  <1>2. PendingAtCursor'
    BY <1>1 DEF SourceInv, PendingAtCursor
  <1>3. HolderKnows'
    <2> SUFFICES ASSUME NEW w \in Workers, workers'[w].pc \in {"recording", "digesting", "remembering"}
                 PROVE  Knows(w)'
      BY DEF HolderKnows, Knows
    <2>1. workers'[w] = workers[w]
      BY <1>1 DEF AtSource
    <2> QED BY <1>1, <2>1 DEF SourceInv, HolderKnows, Knows
  <1>4. SourceCovered'
    <2>1. workers'["activity"].pc = "advancing" => workers'["activity"] = workers["activity"]
      BY <1>1 DEF AtSource, Workers
    <2> QED BY <1>1, <2>1 DEF SourceInv, SourceCovered
  <1> QED BY <1>2, <1>3, <1>4 DEF SourceInv

LEMMA InitSource == ASSUME Init PROVE SourceInv
  <1> USE DEF Init
  <1>1. PendingAtCursor
    BY DEF PendingAtCursor
  <1>2. HolderKnows
    BY DEF HolderKnows, Knows, Resting
  <1>3. SourceCovered
    BY DEF SourceCovered, Resting, Workers
  <1> QED BY <1>1, <1>2, <1>3 DEF SourceInv

\* Who works on the source holds the lock, so that nobody else is at it.
LEMMA Alone ==
    ASSUME WorkersTyped, NEW w \in Workers, NEW v \in Workers, v # w,
           lock \in {w, "free"}
    PROVE  workers[v].pc \notin Locked /\ workers[v].pc \notin AtSource \ {"advancing"}
  <1>1. v # "free"
    BY DEF Workers
  <1> QED BY <1>1 DEF WorkersTyped, Locked, AtSource

LEMMA BlockNotEmpty == ASSUME NEW b \in Blocks PROVE b # <<>> /\ b = <<b[1], b[2]>>
  <1>1. PICK x \in 0..Ends[Total], y \in 1..Ends[Total] : b = <<x, y>>
    BY DEF Blocks
  <1>2. <<x, y>> # <<>>
    OBVIOUS
  <1> QED BY <1>1, <1>2

LEMMA TakeSource ==
    ASSUME Typed, SourceInv, NEW w \in Workers, TakeSourceBlock(w)
    PROVE  SourceInv'
  <1> DEFINE next == NextBlock(workers[w].target, w # "page")
  <1>1. /\ workers[w] \in Worker /\ workers[w].target \in Paras /\ lock \in {w, "free"}
        /\ workers[w].pc \in {"choosing", "waiting"}
    BY DEF TakeSourceBlock, Typed, WorkersTyped, Worker, Locked
  <1>2. /\ next # <<>> => /\ next \in Blocks /\ next[1] = source.cursor
                          /\ source.cursor < next[2]
        /\ next = <<>> /\ w # "page" => Ends[workers[w].target] <= source.cursor
    BY <1>1, NextBlockCut DEF Typed
  <1> HIDE DEF next
  <1>3. UNCHANGED <<evidence, knowledge, digests>> /\ source'.cursor = source.cursor
        /\ source'.digest = source.digest
    BY DEF TakeSourceBlock, Typed, TextTyped
  <1>4. CASE source.block # <<>> /\ lock' = w /\ To(w, "recording") /\ UNCHANGED source
    <2>1. PendingAtCursor'
      BY <1>3, <1>4 DEF SourceInv, PendingAtCursor
    <2>2. HolderKnows'
      BY <1>1, <1>3, <1>4 DEF To, SourceInv, HolderKnows, Knows, Typed, WorkersTyped, Worker
    <2>3. workers'["activity"].pc = "advancing" => workers'["activity"] = workers["activity"]
      BY <1>1, <1>4 DEF To, Typed, WorkersTyped, Worker, Workers
    <2>4. SourceCovered'
      BY <1>3, <1>4, <2>3 DEF SourceInv, SourceCovered
    <2> QED BY <2>1, <2>2, <2>4 DEF SourceInv
  <1>5. CASE /\ source.block = <<>> /\ next # <<>>
             /\ source' = [source EXCEPT !.block = next]
             /\ lock' = w
             /\ To(w, "recording")
    <2>1. source'.block = next
      BY <1>5 DEF Typed, TextTyped
    <2>2. \A b \in evidence : b[2] <= source.cursor /\ b # next
      <3>1. ASSUME NEW b \in evidence PROVE b[2] <= source.cursor
        <4>1. b \in Blocks
          BY DEF Typed, TextTyped
        <4>2. b # <<>>
          BY <4>1, BlockNotEmpty
        <4> QED BY <1>5, <4>2 DEF SourceInv, PendingAtCursor
      <3>2. \A b \in evidence : b[2] \in Nat /\ next[2] \in Nat /\ source.cursor \in Nat
        BY <1>2, <1>5 DEF Typed, TextTyped, Blocks
      <3> QED BY <1>2, <1>5, <3>1, <3>2
    <2>3. PendingAtCursor'
      <3>1. \A k \in knowledge : k[1] \in evidence
        BY DEF Typed, TextTyped
      <3>2. \A k \in knowledge : k[1] # next
        BY <2>2, <3>1
      <3>3. source.digest = 0 /\ digests \in Nat
        BY <1>5 DEF SourceInv, PendingAtCursor, Typed, TextTyped
      <3> QED BY <1>2, <1>3, <1>5, <2>1, <2>2, <3>2, <3>3 DEF PendingAtCursor
    <2>4. HolderKnows'
      <3> SUFFICES ASSUME NEW v \in Workers PROVE Knows(v)'
        BY DEF HolderKnows
      <3>1. CASE v = w
        BY <1>1, <1>5, <2>1, <3>1 DEF To, Knows, Typed, WorkersTyped, Worker
      <3>2. CASE v # w
        <4>1. workers'[v] = workers[v]
          BY <1>5, <3>2 DEF To
        <4>2. workers[v].pc \notin {"recording", "digesting", "remembering"}
          BY <1>1, <3>2, Alone DEF Typed, AtSource
        <4> QED BY <4>1, <4>2 DEF Knows
      <3> QED BY <3>1, <3>2
    <2>5. workers'["activity"].pc = "advancing" => workers'["activity"] = workers["activity"]
      BY <1>1, <1>5 DEF To, Typed, WorkersTyped, Worker, Workers
    <2>6. SourceCovered'
      BY <1>3, <2>5 DEF SourceInv, SourceCovered
    <2> QED BY <2>3, <2>4, <2>6 DEF SourceInv
  <1>6. CASE source.block = <<>> /\ next = <<>> /\ Leave(w, TRUE) /\ UNCHANGED source
    <2>1. PendingAtCursor'
      BY <1>3, <1>6 DEF SourceInv, PendingAtCursor
    <2>2. workers' = [workers EXCEPT ![w] = AfterSediment(w, TRUE)]
          /\ AfterSediment(w, TRUE).pc \notin Locked
      BY <1>6, AfterSedimentTyped DEF Leave, Typed
    <2>3. HolderKnows'
      BY <1>3, <1>6, <2>2 DEF SourceInv, HolderKnows, Knows, Typed, WorkersTyped, Locked
    <2>4. workers'["activity"].pc = "advancing" => Ends[workers'["activity"].target] <= source.cursor
      <3>1. CASE w = "activity"
        <4>1. workers'["activity"] = [workers[w] EXCEPT !.pc = "advancing"]
          BY <2>2, <3>1 DEF AfterSediment, Typed, WorkersTyped
        <4>2. workers'["activity"].target = workers[w].target
          BY <1>1, <4>1 DEF Worker
        <4> QED BY <1>2, <1>6, <3>1, <4>2
      <3>2. CASE w # "activity"
        <4>1. workers'["activity"] = workers["activity"]
          BY <2>2, <3>2 DEF Typed, WorkersTyped, Workers
        <4> QED BY <4>1 DEF SourceInv, SourceCovered
      <3> QED BY <3>1, <3>2
    <2>5. SourceCovered'
      BY <1>3, <1>6, <2>4 DEF SourceInv, SourceCovered
    <2> QED BY <2>1, <2>3, <2>5 DEF SourceInv
  <1> QED BY <1>4, <1>5, <1>6 DEF TakeSourceBlock, next

\* What a worker holding the lock does to the source, seen from the others.
LEMMA OthersStill ==
    ASSUME WorkersTyped, NEW w \in Workers, lock = w,
           \A v \in Workers : v # w => workers'[v] = workers[v]
    PROVE  \A v \in Workers : v # w => Knows(v)'
  <1> SUFFICES ASSUME NEW v \in Workers, v # w PROVE Knows(v)'
    OBVIOUS
  <1>1. workers'[v].pc \notin {"recording", "digesting", "remembering"}
    BY Alone DEF AtSource
  <1> QED BY <1>1 DEF Knows

LEMMA RecordSource ==
    ASSUME Typed, SourceInv, NEW w \in Workers, RecordEvidence(w)
    PROVE  SourceInv'
  <1> DEFINE b == source.block
  <1>1. /\ workers[w] \in Worker /\ workers[w].pc = "recording" /\ lock = w /\ lock' = lock
        /\ UNCHANGED <<source, knowledge, digests>> /\ evidence' = evidence \cup {b}
        /\ workers' = [workers EXCEPT ![w].item = 0,
                         ![w].pc = IF source.digest = 0 THEN "digesting" ELSE "remembering"]
    BY DEF RecordEvidence, Typed, WorkersTyped, Locked
  <1>2. b \in Blocks /\ b[1] = source.cursor /\ source.cursor \in Nat /\ b[2] \in Nat
        /\ source.cursor < b[2]
    BY <1>1 DEF SourceInv, HolderKnows, Knows, PendingAtCursor, Typed, TextTyped, Blocks
  <1>3. PendingAtCursor'
    BY <1>1 DEF SourceInv, PendingAtCursor
  <1>4. HolderKnows'
    <2>1. \A v \in Workers : v # w => workers'[v] = workers[v]
      BY <1>1 DEF Typed, WorkersTyped
    <2>2. Knows(w)'
      <3>1. workers'[w].item = 0 /\ workers'[w].pc = IF source.digest = 0 THEN "digesting" ELSE "remembering"
        BY <1>1 DEF Typed, WorkersTyped, Worker
      <3>2. b # <<>> /\ source.digest \in Nat
        BY <1>2, BlockNotEmpty DEF Typed, TextTyped
      <3>3. source'.block \in evidence' /\ 1..workers'[w].item = {}
        BY <1>1, <3>1
      <3>4. CASE source.digest = 0
        BY <1>1, <3>1, <3>2, <3>3, <3>4 DEF Knows
      <3>5. CASE source.digest # 0
        <4>1. source'.digest > 0 /\ workers'[w].pc = "remembering" /\ source'.block # <<>>
          BY <1>1, <3>1, <3>2, <3>5
        <4> QED BY <3>3, <4>1 DEF Knows
      <3> QED BY <3>4, <3>5
    <2> QED BY <1>1, <2>1, <2>2, OthersStill DEF HolderKnows, Typed
  <1>5. SourceCovered'
    <2>1. \A u \in 1..source.cursor : \E c \in evidence' : c[1] < u /\ u <= c[2]
      BY <1>1 DEF SourceInv, SourceCovered
    <2>2. \A c \in evidence : c = b \/ c[2] <= b[1]
      BY <1>2 DEF SourceInv, PendingAtCursor
    <2>3. \A c, d \in evidence' : c = d \/ c[2] <= d[1] \/ d[2] <= c[1]
      BY <1>1, <2>2 DEF SourceInv, SourceCovered
    <2>4. \A c \in evidence' : c[2] <= source.cursor =>
             \E d \in 1..digests : {k \in knowledge : k[1] = c} = {c} \X {d} \X (1..Items)
      BY <1>1, <1>2 DEF SourceInv, SourceCovered
    <2>5. workers'["activity"].pc = "advancing" => workers'["activity"] = workers["activity"]
      BY <1>1 DEF Typed, WorkersTyped, Worker, Workers
    <2> QED BY <1>1, <2>1, <2>3, <2>4, <2>5 DEF SourceInv, SourceCovered
  <1> QED BY <1>3, <1>4, <1>5 DEF SourceInv

LEMMA DigestSource ==
    ASSUME Typed, SourceInv, NEW w \in Workers, DigestSourceBlock(w)
    PROVE  SourceInv'
  <1>1. /\ workers[w] \in Worker /\ workers[w].pc = "digesting" /\ lock = w
        /\ UNCHANGED <<evidence, knowledge>> /\ digests' = digests + 1 /\ digests \in Nat
        /\ source' = [source EXCEPT !.digest = digests + 1]
        /\ workers' = [workers EXCEPT ![w].pc = "remembering"]
    BY DEF DigestSourceBlock, To, Typed, WorkersTyped, Locked, TextTyped
  <1>2. source'.block = source.block /\ source'.cursor = source.cursor /\ source'.digest = digests + 1
    BY <1>1 DEF Typed, TextTyped
  <1>3. /\ source.digest = 0 /\ source.block # <<>> /\ source.block \in evidence
        /\ \A k \in knowledge : k[1] # source.block
    <2>1. source.digest = 0 /\ source.block # <<>> /\ source.block \in evidence
      BY <1>1 DEF SourceInv, HolderKnows, Knows
    <2>2. \A k \in knowledge : k[2] \in 1..digests
      BY DEF Typed, TextTyped
    <2>3. \A k \in knowledge : k[1] = source.block => k[2] = 0
      BY <2>1 DEF SourceInv, PendingAtCursor
    <2> QED BY <2>1, <2>2, <2>3
  <1>4. PendingAtCursor'
    BY <1>1, <1>2, <1>3 DEF SourceInv, PendingAtCursor
  <1>5. HolderKnows'
    <2>1. \A v \in Workers : v # w => workers'[v] = workers[v]
      BY <1>1
    <2>2. Knows(w)'
      <3>1. workers'[w].pc = "remembering" /\ workers'[w].item = workers[w].item
        BY <1>1 DEF Typed, WorkersTyped, Worker
      <3>2. workers'[w].item = 0 /\ 1..workers'[w].item = {}
        BY <1>1, <3>1 DEF SourceInv, HolderKnows, Knows
      <3> QED BY <1>1, <1>2, <1>3, <3>1, <3>2 DEF Knows
    <2> QED BY <1>1, <2>1, <2>2, OthersStill DEF HolderKnows, Typed
  <1>6. SourceCovered'
    <2>1. \A b \in evidence : b[2] <= source.cursor =>
             \E d \in 1..digests' : {k \in knowledge : k[1] = b} = {b} \X {d} \X (1..Items)
      <3>1. 1..digests \subseteq 1..digests'
        BY <1>1
      <3> QED BY <3>1 DEF SourceInv, SourceCovered
    <2>2. workers'["activity"].pc = "advancing" => workers'["activity"] = workers["activity"]
      BY <1>1 DEF Typed, WorkersTyped, Worker, Workers
    <2> QED BY <1>1, <1>2, <2>1, <2>2 DEF SourceInv, SourceCovered
  <1> QED BY <1>4, <1>5, <1>6 DEF SourceInv

\* Where the pending block lies.
LEMMA PendingAhead ==
    ASSUME Typed, PendingAtCursor, source.block # <<>>
    PROVE  /\ source.block \in Blocks /\ source.block[1] = source.cursor
           /\ source.cursor \in Nat /\ source.block[2] \in 1..Ends[Total]
           /\ source.cursor < source.block[2]
           /\ \A b \in evidence : b[2] \in Nat /\ (b[2] <= source.cursor => b # source.block)
  BY DEF Typed, PendingAtCursor, TextTyped, Blocks

LEMMA RememberSource ==
    ASSUME Typed, SourceInv, NEW w \in Workers, RememberKnowledge(w)
    PROVE  SourceInv'
  <1> DEFINE b == source.block
             k == <<b, source.digest, workers[w].item + 1>>
  <1>1. /\ workers[w] \in Worker /\ workers[w].pc = "remembering" /\ lock = w
        /\ UNCHANGED <<source, evidence, digests>> /\ knowledge' = knowledge \cup {k}
        /\ workers' = [workers EXCEPT ![w].item = @ + 1]
    BY DEF RememberKnowledge, Typed, WorkersTyped, Locked
  <1>2. b # <<>> /\ source.digest > 0 /\ Knows(w)
    BY <1>1 DEF SourceInv, HolderKnows, Knows
  <1>3. PendingAtCursor'
    BY <1>1, <1>2 DEF SourceInv, PendingAtCursor
  <1>4. HolderKnows'
    <2>1. \A v \in Workers : v # w => workers'[v] = workers[v]
      BY <1>1 DEF Typed, WorkersTyped
    <2>2. Knows(w)'
      <3>1. workers'[w].pc = "remembering" /\ workers'[w].item = workers[w].item + 1
            /\ workers[w].item \in Nat
        BY <1>1, Constants DEF Typed, WorkersTyped, Worker
      <3>2. \A i \in 1..workers[w].item : <<b, source.digest, i>> \in knowledge
        BY <1>1, <1>2 DEF Knows
      <3>3. \A i \in 1..workers'[w].item : i = workers[w].item + 1 \/ i \in 1..workers[w].item
        BY <3>1
      <3>4. \A i \in 1..workers'[w].item : <<b, source.digest, i>> \in knowledge'
        BY <1>1, <3>2, <3>3
      <3>5. source'.block # <<>> /\ source'.block \in evidence' /\ source'.digest > 0
        BY <1>1, <1>2 DEF Knows
      <3> QED BY <1>1, <3>1, <3>4, <3>5 DEF Knows
    <2> QED BY <1>1, <2>1, <2>2, OthersStill DEF HolderKnows, Typed
  <1>5. SourceCovered'
    <2>1. \A c \in evidence : c[2] <= source.cursor => {l \in knowledge' : l[1] = c} = {l \in knowledge : l[1] = c}
      <3> SUFFICES ASSUME NEW c \in evidence, c[2] <= source.cursor
                   PROVE  {l \in knowledge' : l[1] = c} = {l \in knowledge : l[1] = c}
        OBVIOUS
      <3>1. c # b
        BY <1>2, PendingAhead DEF SourceInv
      <3>2. k[1] = b
        OBVIOUS
      <3> HIDE DEF k, b
      <3> QED BY <1>1, <3>1, <3>2
    <2>2. \A c \in evidence : c[2] <= source.cursor =>
             \E d \in 1..digests : {l \in knowledge' : l[1] = c} = {c} \X {d} \X (1..Items)
      BY <2>1 DEF SourceInv, SourceCovered
    <2>3. workers'["activity"].pc = "advancing" =>
             Ends[workers'["activity"].target] <= source.cursor
      BY <1>1 DEF Typed, WorkersTyped, Worker, Workers, SourceInv, SourceCovered
    <2> QED BY <1>1, <2>2, <2>3 DEF SourceInv, SourceCovered
  <1> QED BY <1>3, <1>4, <1>5 DEF SourceInv

LEMMA CommitSource ==
    ASSUME Typed, SourceInv, NEW w \in Workers, CommitPending(w)
    PROVE  SourceInv'
  <1> DEFINE b == source.block
  <1>1. /\ workers[w] \in Worker /\ workers[w].pc = "remembering" /\ workers[w].item = Items /\ lock = w
        /\ UNCHANGED <<evidence, knowledge, digests>>
        /\ source' = [cursor |-> b[2], block |-> <<>>, digest |-> 0]
        /\ workers' = [workers EXCEPT ![w].pc = "choosing"]
    BY DEF CommitPending, To, Typed, WorkersTyped, Locked
  <1>2. b # <<>> /\ b \in evidence /\ source.digest > 0
        /\ \A i \in 1..Items : <<b, source.digest, i>> \in knowledge
    BY <1>1 DEF SourceInv, HolderKnows, Knows
  <1>3. /\ b \in Blocks /\ b[1] = source.cursor /\ source.cursor \in Nat /\ b[2] \in Nat
        /\ source.cursor < b[2]
        /\ \A c \in evidence : c[2] \in Nat
    BY <1>2, PendingAhead DEF SourceInv
  <1> HIDE DEF b
  <1>4. PendingAtCursor'
    <2>1. \A c \in evidence : c[2] <= b[2]
      <3> SUFFICES ASSUME NEW c \in evidence PROVE c[2] <= b[2]
        OBVIOUS
      <3>1. c = b \/ c[2] <= source.cursor
        BY DEF SourceInv, PendingAtCursor, b
      <3> QED BY <1>3, <3>1
    <2>2. \A l \in knowledge : l[1] # <<>>
      <3> SUFFICES ASSUME NEW l \in knowledge PROVE l[1] # <<>>
        OBVIOUS
      <3>1. l[1] \in Blocks
        BY DEF Typed, TextTyped
      <3> QED BY <3>1, BlockNotEmpty
    <2>3. 0 <= digests
      BY DEF Typed, TextTyped
    <2> QED BY <1>1, <2>1, <2>2, <2>3 DEF PendingAtCursor
  <1>5. HolderKnows'
    <2>1. \A v \in Workers : v # w => workers'[v] = workers[v]
      BY <1>1 DEF Typed, WorkersTyped
    <2>2. Knows(w)'
      <3>1. workers'[w].pc = "choosing"
        BY <1>1 DEF Typed, WorkersTyped, Worker
      <3> QED BY <3>1 DEF Knows
    <2> QED BY <1>1, <2>1, <2>2, OthersStill DEF HolderKnows, Typed
  <1>6. SourceCovered'
    <2>1. \A u \in 1..b[2] : \E c \in evidence : c[1] < u /\ u <= c[2]
      <3> SUFFICES ASSUME NEW u \in 1..b[2] PROVE \E c \in evidence : c[1] < u /\ u <= c[2]
        OBVIOUS
      <3>1. CASE u <= source.cursor
        <4>1. u \in 1..source.cursor
          BY <1>3, <3>1
        <4> QED BY <4>1 DEF SourceInv, SourceCovered
      <3>2. CASE ~ (u <= source.cursor)
        <4>1. b[1] < u /\ u <= b[2]
          BY <1>3, <3>2
        <4> QED BY <1>2, <4>1
      <3> QED BY <3>1, <3>2
    <2>2. \A c \in evidence : c[2] <= b[2] =>
             \E d \in 1..digests : {l \in knowledge : l[1] = c} = {c} \X {d} \X (1..Items)
      <3> SUFFICES ASSUME NEW c \in evidence
                   PROVE  \E d \in 1..digests : {l \in knowledge : l[1] = c} = {c} \X {d} \X (1..Items)
        OBVIOUS
      <3>1. CASE c[2] <= source.cursor
        BY <3>1 DEF SourceInv, SourceCovered
      <3>2. CASE c = b
        <4>1. source.digest \in 1..digests
          BY <1>2 DEF SourceInv, PendingAtCursor, Typed, TextTyped
        <4>2. ASSUME NEW l \in knowledge, l[1] = b PROVE l \in {b} \X {source.digest} \X (1..Items)
          <5>1. l[2] = source.digest
            BY <4>2 DEF SourceInv, PendingAtCursor, b
          <5>2. l = <<l[1], l[2], l[3]>> /\ l[3] \in 1..Items
            BY DEF Typed, TextTyped
          <5> QED BY <4>2, <5>1, <5>2
        <4>3. ASSUME NEW l \in {b} \X {source.digest} \X (1..Items) PROVE l \in knowledge /\ l[1] = b
          <5>1. PICK i \in 1..Items : l = <<b, source.digest, i>>
            OBVIOUS
          <5> QED BY <1>2, <5>1
        <4>4. {l \in knowledge : l[1] = b} = {b} \X {source.digest} \X (1..Items)
          BY <4>2, <4>3
        <4> QED BY <3>2, <4>1, <4>4
      <3> QED BY <3>1, <3>2 DEF SourceInv, PendingAtCursor, b
    <2>3. workers'["activity"].pc = "advancing" =>
             Ends[workers'["activity"].target] <= b[2]
      <3>1. SUFFICES ASSUME workers'["activity"].pc = "advancing"
                     PROVE  Ends[workers'["activity"].target] <= b[2]
        OBVIOUS
      <3>2. workers'["activity"] = workers["activity"]
        BY <1>1, <3>1 DEF Typed, WorkersTyped, Worker, Workers
      <3>3. Ends[workers["activity"].target] \in Nat
        BY Constants DEF Typed, WorkersTyped, Worker, Workers
      <3> QED BY <1>3, <3>1, <3>2, <3>3 DEF SourceInv, SourceCovered
    <2>4. source'.cursor = b[2]
      BY <1>1
    <2> QED BY <1>1, <2>1, <2>2, <2>3, <2>4 DEF SourceInv, SourceCovered
  <1> QED BY <1>4, <1>5, <1>6 DEF SourceInv

LEMMA FailSource ==
    ASSUME Typed, SourceInv, NEW w \in Workers, SedimentFails(w)
    PROVE  SourceInv'
  <1>1. /\ UNCHANGED <<source, evidence, knowledge, digests>>
        /\ workers' = [workers EXCEPT ![w] = AfterSediment(w, FALSE)]
    BY DEF SedimentFails, Leave, text
  <1>2. AfterSediment(w, FALSE).pc \notin Locked \cup {"advancing"}
    BY DEF AfterSediment, Resting, Locked, Workers, Typed, WorkersTyped, Worker
  <1>3. PendingAtCursor'
    BY <1>1 DEF SourceInv, PendingAtCursor
  <1>4. HolderKnows'
    BY <1>1, <1>2 DEF SourceInv, HolderKnows, Knows, Typed, WorkersTyped, Locked
  <1>5. workers'["activity"].pc = "advancing" => workers'["activity"] = workers["activity"]
    BY <1>1, <1>2 DEF Typed, WorkersTyped, Workers
  <1>6. SourceCovered'
    BY <1>1, <1>5 DEF SourceInv, SourceCovered
  <1> QED BY <1>3, <1>4, <1>6 DEF SourceInv

LEMMA SedimentSource ==
    ASSUME Typed, SourceInv, NEW w \in Workers, SedimentStep(w)
    PROVE  SourceInv'
  BY TakeSource, RecordSource, DigestSource, RememberSource, CommitSource, FailSource
     DEF SedimentStep

-----------------------------------------------------------------------------
(* The book: the progress row *)

\* The page takes the row as it is, or somebody revises it, or nothing happens to either.
LEMMA RowMoves ==
    ASSUME Typed, [Next]_vars
    PROVE  \/ client' = progress'
           \/ client' = client /\ progress' = progress
           \/ client' = client /\ progress'.rev = progress.rev + 1
  <1>a. progress \in Progress
    BY DEF Typed, RowTyped
  <1>b. \A p : [progress EXCEPT !.nyx = p, !.rev = @ + 1].rev = progress.rev + 1
    BY <1>a DEF Progress
  <1>1. CASE \E p \in Paras : SaveProgress(p)
    BY <1>1 DEF SaveProgress
  <1>2. CASE \E wish \in {0} \cup Paras : ReadForActivity(wish)
    BY <1>2 DEF ReadForActivity, row
  <1>3. CASE LoadProgress
    BY <1>3 DEF LoadProgress
  <1>4. CASE AdvanceNyxPosition
    BY <1>4, <1>b DEF AdvanceNyxPosition
  <1>5. CASE UserChecksBoundary
    BY <1>5 DEF UserChecksBoundary, row
  <1>6. ASSUME NEW c \in Callers, BoundaryStep(c)
        PROVE  client' = client /\ (progress' = progress \/ progress'.rev = progress.rev + 1)
    <2>1. CASE ResetCompletionMarker(c)
      BY <1>6, <1>b, <2>1 DEF BoundaryStep, ResetCompletionMarker
    <2>2. CASE IncrementReadCount(c)
      BY <1>6, <2>2 DEF BoundaryStep, IncrementReadCount
    <2>3. CASE GetProgress(c) \/ ChapterEnds(c) \/ BookEnds(c) \/ EndsAgain(c)
      BY <1>6, <2>3 DEF BoundaryStep, GetProgress, ChapterEnds, BookEnds, EndsAgain
    <2> QED BY <1>6, <2>1, <2>2, <2>3 DEF BoundaryStep
  <1>7. CASE \E w \in Workers : SedimentStep(w)
    BY <1>7 DEF SedimentStep, row
  <1>8. CASE IntegrationStep \/ ImpulseStep
    BY <1>8 DEF IntegrationStep, ImpulseStep, row
  <1>9. CASE Quiesce \/ Restart
    BY <1>9 DEF Quiesce, Restart, row
  <1>10. CASE UNCHANGED vars
    BY <1>10 DEF vars, row
  <1> QED
    BY <1>1, <1>2, <1>3, <1>4, <1>5, <1>6, <1>7, <1>8, <1>9, <1>10 DEF Next

LEMMA RevisionStep ==
    ASSUME Typed, Typed', RevisionInv, [Next]_vars
    PROVE  RevisionInv'
  <1>1. /\ progress.rev \in Nat /\ client.rev \in Nat
        /\ progress'.rev \in Nat /\ client'.rev \in Nat
    BY DEF Typed, RowTyped, Progress
  <1> QED BY <1>1, RowMoves DEF RevisionInv, RevisionNamesProgress

-----------------------------------------------------------------------------
(* The book: the outputs of the companions *)

\* The steps that leave the outputs, and an integration that has taken some, as they are.
Bystanders ==
    \/ \E w \in Workers : SedimentStep(w)
    \/ RowStep
    \/ \E c \in Callers : BoundaryStep(c)
    \/ Quiesce

Taking == {"composing", "announcing"}

LEMMA BystandersKeepOutputs ==
    ASSUME Typed, Bystanders
    PROVE  /\ UNCHANGED notes
           /\ workers'["boundary"].pc \in Taking => workers'["boundary"] = workers["boundary"]
  <1> USE DEF Typed, Taking
  <1>a. Resting.pc = "idle" /\ "boundary" \in Workers
    BY DEF Resting, Workers
  <1>b. \A w \in Workers : workers[w] \in Worker
    BY DEF WorkersTyped
  <1>1. ASSUME NEW w \in Workers, SedimentStep(w)
        PROVE  /\ UNCHANGED notes
               /\ workers'["boundary"].pc \in Taking => workers'["boundary"] = workers["boundary"]
    <2>1. UNCHANGED notes
      BY <1>1 DEF SedimentStep
    <2>2. \A ok : AfterSediment(w, ok).pc \notin Taking
      BY <1>a, <1>b DEF AfterSediment, Worker, Workers
    <2>3. \/ \E ok : workers' = [workers EXCEPT ![w] = AfterSediment(w, ok)]
          \/ \E pc, i : /\ pc \notin Taking
                        /\ workers' = [workers EXCEPT ![w].item = i, ![w].pc = pc]
          \/ \E i : /\ workers[w].pc \notin Taking
                    /\ workers' = [workers EXCEPT ![w].item = i]
          \/ \E pc : pc \notin Taking /\ workers' = [workers EXCEPT ![w].pc = pc]
      BY <1>1 DEF SedimentStep, TakeSourceBlock, RecordEvidence, DigestSourceBlock, RememberKnowledge,
         CommitPending, SedimentFails, Leave, To
    <2>4. ASSUME workers'["boundary"].pc \in Taking PROVE workers'["boundary"] = workers["boundary"]
      <3>1. CASE w = "boundary"
        <4>0. workers \in [Workers -> Worker] /\ workers[w] \in Worker
          BY <1>b DEF WorkersTyped
        <4>1. ASSUME NEW ok, workers' = [workers EXCEPT ![w] = AfterSediment(w, ok)]
              PROVE  workers'[w].pc \notin Taking
          BY <2>2, <4>0, <4>1
        <4>2. ASSUME NEW pc, NEW i, pc \notin Taking,
                     workers' = [workers EXCEPT ![w].item = i, ![w].pc = pc]
              PROVE  workers'[w].pc \notin Taking
          <5>1. workers'[w].pc = pc
            BY <4>0, <4>2 DEF Worker
          <5> QED BY <4>2, <5>1
        <4>3. ASSUME NEW i, workers[w].pc \notin Taking, workers' = [workers EXCEPT ![w].item = i]
              PROVE  workers'[w].pc \notin Taking
          <5>1. workers'[w].pc = workers[w].pc
            BY <4>0, <4>3 DEF Worker
          <5> QED BY <4>3, <5>1
        <4>4. ASSUME NEW pc, pc \notin Taking, workers' = [workers EXCEPT ![w].pc = pc]
              PROVE  workers'[w].pc \notin Taking
          <5>1. workers'[w].pc = pc
            BY <4>0, <4>4 DEF Worker
          <5> QED BY <4>4, <5>1
        <4> HIDE DEF Taking
        <4> QED BY <2>3, <2>4, <3>1, <4>1, <4>2, <4>3, <4>4
      <3>2. CASE w # "boundary"
        BY <1>a, <2>3, <3>2 DEF WorkersTyped
      <3> QED BY <3>1, <3>2
    <2> QED BY <2>1, <2>4
  <1>2. CASE RowStep
    <2>1. UNCHANGED notes
      BY <1>2 DEF RowStep, SaveProgress, ReadForActivity, LoadProgress, AdvanceNyxPosition,
         UserChecksBoundary
    <2>2. workers' = workers \/ \E r : workers' = [workers EXCEPT !["activity"] = r]
      BY <1>2 DEF RowStep, SaveProgress, ReadForActivity, LoadProgress, AdvanceNyxPosition,
         UserChecksBoundary, work
    <2> QED BY <1>a, <2>1, <2>2 DEF WorkersTyped
  <1>3. ASSUME NEW c \in Callers, BoundaryStep(c)
        PROVE  /\ UNCHANGED notes
               /\ workers'["boundary"].pc \in Taking => workers'["boundary"] = workers["boundary"]
    <2>1. UNCHANGED notes
      BY <1>3 DEF BoundaryStep
    <2>2. \/ workers' = workers
          \/ \E t, n : workers' = [workers EXCEPT !["boundary"].pc = "waiting",
                                     !["boundary"].target = t, !["boundary"].pre = n]
      BY <1>3 DEF BoundaryStep, ResetCompletionMarker, GetProgress, ChapterEnds, IncrementReadCount,
         BookEnds, EndsAgain, SpawnIntegration
    <2>3. ASSUME NEW t, NEW n,
                 workers' = [workers EXCEPT !["boundary"].pc = "waiting",
                               !["boundary"].target = t, !["boundary"].pre = n]
          PROVE  workers'["boundary"].pc = "waiting"
      BY <1>a, <1>b, <2>3 DEF WorkersTyped, Worker
    <2> QED BY <2>1, <2>2, <2>3
  <1>4. CASE Quiesce
    BY <1>4 DEF Quiesce, work
  <1> QED BY <1>1, <1>2, <1>3, <1>4 DEF Bystanders

LEMMA BystandersOutputs ==
    ASSUME Typed, OutputsInv, Bystanders
    PROVE  OutputsInv'
  <1>1. /\ UNCHANGED <<buffer, journal, outputs, lost>>
        /\ workers'["boundary"].pc \in Taking => workers'["boundary"] = workers["boundary"]
    BY BystandersKeepOutputs DEF notes
  <1>2. BufferInOrder' /\ OutputsKept'
    BY <1>1 DEF OutputsInv, BufferInOrder, OutputsKept
  <1>3. TakenFirst'
    BY <1>1 DEF OutputsInv, TakenFirst, Taking
  <1> QED BY <1>2, <1>3 DEF OutputsInv

LEMMA ConsumeOutputs ==
    ASSUME Typed, OutputsInv, Consume
    PROVE  OutputsInv'
  <1> USE DEF Typed, OutputsInv
  <1>1. /\ workers["boundary"].pc = "announcing"
        /\ workers'["boundary"] = Resting /\ UNCHANGED <<journal, outputs, lost>>
    BY DEF Consume, EndIntegration, WorkersTyped, Workers
  <1>2. PICK n \in 0..Len(buffer) :
             /\ buffer' \in Seq([id : Outputs, from : 1..Parts])
             /\ Len(buffer') = Len(buffer) - n
             /\ \A i \in 1..n, q \in 1..Parts :
                  q >= buffer[i].from => <<buffer[i].id, q>> \in workers["boundary"].taken
             /\ \A i \in 1..Len(buffer') :
                  /\ buffer'[i].id = buffer[n + i].id
                  /\ \A q \in 1..Parts : q >= buffer[n + i].from =>
                       q >= buffer'[i].from \/ <<buffer'[i].id, q>> \in workers["boundary"].taken
    BY Consumed
  <1>3. Len(buffer) \in Nat
    BY DEF NotesTyped
  <1>4. \A i \in 1..Len(buffer') : n + i \in 1..Len(buffer)
    BY <1>2, <1>3
  <1>5. BufferInOrder'
    <2>1. \A i \in 1..Len(buffer') : buffer'[i].id <= outputs'
      BY <1>1, <1>2, <1>4 DEF BufferInOrder
    <2>2. ASSUME NEW i \in 1..Len(buffer'), NEW j \in 1..Len(buffer'), i < j
          PROVE  buffer'[i].id < buffer'[j].id
      <3>1. n + i < n + j
        BY <1>2, <1>3, <2>2
      <3>2. buffer[n + i].id < buffer[n + j].id
        BY <1>4, <3>1 DEF BufferInOrder
      <3> QED BY <1>2, <3>2
    <2> QED BY <2>1, <2>2 DEF BufferInOrder
  <1>6. TakenFirst'
    BY <1>1 DEF TakenFirst, Resting
  <1>7. OutputsKept'
    <2> SUFFICES ASSUME NEW f \in (1..outputs) \X (1..Parts), f \notin journal, f[1] \notin lost
                 PROVE  \E i \in 1..Len(buffer') : buffer'[i].id = f[1] /\ f[2] >= buffer'[i].from
      BY <1>1 DEF OutputsKept
    <2>1. PICK i \in 1..Len(buffer) : buffer[i].id = f[1] /\ f[2] >= buffer[i].from
      BY DEF OutputsKept
    <2>2. f = <<buffer[i].id, f[2]>> /\ f[2] \in 1..Parts
      BY <2>1
    <2>3. f \notin workers["boundary"].taken
      BY <1>1 DEF TakenFirst
    <2>4. ~ (i \in 1..n)
      BY <1>2, <2>1, <2>2, <2>3
    <2> DEFINE j == i - n
    <2>5. j \in 1..Len(buffer') /\ n + j = i
      BY <1>2, <1>3, <2>4
    <2> HIDE DEF j
    <2>6. buffer'[j].id = f[1] /\ f[2] >= buffer'[j].from
      BY <1>2, <2>1, <2>2, <2>3, <2>5
    <2> QED BY <2>5, <2>6
  <1> QED BY <1>5, <1>6, <1>7

LEMMA IntegrationOutputs ==
    ASSUME Typed, OutputsInv, IntegrationStep
    PROVE  OutputsInv'
  <1> USE DEF Typed, OutputsInv
  <1>0. workers \in [Workers -> Worker] /\ "boundary" \in Workers /\ workers["boundary"] \in Worker
    BY DEF WorkersTyped, Workers
  <1>1. CASE GatherOutputs
    <2>1. UNCHANGED <<buffer, journal, outputs, lost>>
      BY <1>1 DEF GatherOutputs, notes
    <2>2. BufferInOrder' /\ OutputsKept'
      BY <2>1 DEF BufferInOrder, OutputsKept
    <2>3. \/ workers'["boundary"].pc = "idle"
          \/ workers'["boundary"].pc = "composing" /\ workers'["boundary"].taken = Prompted
      BY <1>0, <1>1 DEF GatherOutputs, Resting, Worker
    <2>4. TakenFirst'
      BY <2>1, <2>3, PromptedFirst DEF TakenFirst
    <2> QED BY <2>2, <2>4
  <1>2. CASE RememberReading
    <2>1. /\ workers["boundary"].pc = "composing"
          /\ workers'["boundary"].taken = workers["boundary"].taken
          /\ journal' = journal \cup workers["boundary"].taken
          /\ UNCHANGED <<buffer, outputs, lost>>
      BY <1>0, <1>2 DEF RememberReading, To, Worker
    <2>2. BufferInOrder' /\ OutputsKept'
      BY <2>1 DEF BufferInOrder, OutputsKept
    <2>3. TakenFirst'
      BY <2>1 DEF TakenFirst
    <2> QED BY <2>2, <2>3
  <1>3. CASE Consume
    BY <1>3, ConsumeOutputs
  <1>4. CASE IntegrationFails
    <2>1. UNCHANGED <<buffer, journal, outputs, lost>> /\ workers'["boundary"] = Resting
      BY <1>0, <1>4 DEF IntegrationFails, EndIntegration, notes
    <2>2. BufferInOrder' /\ OutputsKept'
      BY <2>1 DEF BufferInOrder, OutputsKept
    <2>3. TakenFirst'
      BY <2>1 DEF TakenFirst, Resting
    <2> QED BY <2>2, <2>3
  <1> QED BY <1>1, <1>2, <1>3, <1>4 DEF IntegrationStep

LEMMA RecordOutputs ==
    ASSUME Typed, OutputsInv, RecordOutput, workers' = workers
    PROVE  OutputsInv'
  <1> USE DEF Typed, OutputsInv
  <1>1. PICK n \in {0, 1} :
             /\ n <= Len(buffer) /\ Len(buffer') = Len(buffer) - n + 1
             /\ \A i \in 1..(Len(buffer) - n) : buffer'[i] = buffer[n + i]
             /\ buffer'[Len(buffer) - n + 1] = [id |-> outputs + 1, from |-> 1]
             /\ outputs' = outputs + 1 /\ journal' = journal
             /\ lost' = IF n = 0 THEN lost ELSE lost \cup {buffer[1].id}
    BY Recorded
  <1>2. Len(buffer) \in Nat /\ outputs \in Nat /\ \A i \in 1..Len(buffer) : buffer[i].id \in Nat
    BY BufferAt DEF NotesTyped
  <1> DEFINE last == Len(buffer) - n + 1
  <1>3. last \in 1..Len(buffer') /\ Len(buffer') = last /\ last \in Nat
    BY <1>1, <1>2
  <1>4. \A i \in 1..Len(buffer') : i # last =>
            n + i \in 1..Len(buffer) /\ buffer'[i] = buffer[n + i] /\ buffer'[i].id <= outputs
    <2> SUFFICES ASSUME NEW i \in 1..Len(buffer'), i # last
                 PROVE  n + i \in 1..Len(buffer) /\ buffer'[i] = buffer[n + i] /\ buffer'[i].id <= outputs
      OBVIOUS
    <2>1. n + i \in 1..Len(buffer) /\ i \in 1..(Len(buffer) - n)
      BY <1>1, <1>2
    <2> QED BY <1>1, <2>1 DEF BufferInOrder
  <1>5. buffer'[last].id = outputs + 1 /\ buffer'[last].from = 1
    BY <1>1
  <1> HIDE DEF last
  <1>6. BufferInOrder'
    <2>1. \A i \in 1..Len(buffer') : buffer'[i].id <= outputs'
      <3> SUFFICES ASSUME NEW i \in 1..Len(buffer') PROVE buffer'[i].id <= outputs'
        OBVIOUS
      <3>1. CASE i = last
        BY <1>1, <1>2, <1>5, <3>1
      <3>2. CASE i # last
        <4>1. buffer'[i].id \in Nat /\ buffer'[i].id <= outputs
          BY <1>2, <1>4, <3>2
        <4> QED BY <1>1, <1>2, <4>1
      <3> QED BY <3>1, <3>2
    <2>2. ASSUME NEW i \in 1..Len(buffer'), NEW j \in 1..Len(buffer'), i < j
          PROVE  buffer'[i].id < buffer'[j].id
      <3>1. i # last
        BY <1>3, <2>2
      <3>2. CASE j = last
        BY <1>2, <1>4, <1>5, <3>1, <3>2
      <3>3. CASE j # last
        <4>1. n + i < n + j
          BY <1>2, <2>2
        <4> QED BY <1>4, <3>1, <3>3, <4>1 DEF BufferInOrder
      <3> QED BY <3>2, <3>3
    <2> QED BY <2>1, <2>2 DEF BufferInOrder
  <1>7. TakenFirst'
    <2> DEFINE taken == workers["boundary"].taken
    <2> SUFFICES ASSUME workers["boundary"].pc \in Taking
                 PROVE  /\ \A f \in taken : f[1] <= outputs'
                        /\ \A i \in 1..Len(buffer'), p \in 1..Parts :
                             <<buffer'[i].id, p>> \in taken =>
                                 /\ p >= buffer'[i].from
                                 /\ \A q \in buffer'[i].from..p : <<buffer'[i].id, q>> \in taken
                                 /\ \A j \in 1..(i - 1), q \in 1..Parts :
                                      q >= buffer'[j].from => <<buffer'[j].id, q>> \in taken
                        /\ workers["boundary"].pc = "announcing" => taken \subseteq journal'
      BY DEF TakenFirst, Taking
    <2>1. /\ \A f \in taken : f[1] <= outputs
          /\ workers["boundary"].pc = "announcing" => taken \subseteq journal
          /\ taken \subseteq Fragments
      BY DEF TakenFirst, Taking, WorkersTyped, Workers, Worker
    <2>2. \A f \in taken : f[1] <= outputs'
      BY <1>1, <1>2, <2>1 DEF Fragments, Outputs
    <2>3. ASSUME NEW i \in 1..Len(buffer'), NEW p \in 1..Parts, <<buffer'[i].id, p>> \in taken
          PROVE  /\ p >= buffer'[i].from
                 /\ \A q \in buffer'[i].from..p : <<buffer'[i].id, q>> \in taken
                 /\ \A j \in 1..(i - 1), q \in 1..Parts :
                      q >= buffer'[j].from => <<buffer'[j].id, q>> \in taken
      <3>1. i # last
        <4>1. buffer'[i].id <= outputs
          BY <2>1, <2>3
        <4> QED BY <1>2, <1>5, <4>1
      <3>2. n + i \in 1..Len(buffer) /\ buffer'[i] = buffer[n + i]
        BY <1>4, <3>1
      <3>3. /\ p >= buffer[n + i].from
            /\ \A q \in buffer[n + i].from..p : <<buffer[n + i].id, q>> \in taken
            /\ \A j \in 1..(n + i - 1), q \in 1..Parts :
                 q >= buffer[j].from => <<buffer[j].id, q>> \in taken
        BY <2>3, <3>2 DEF TakenFirst, Taking
      <3>4. \A j \in 1..(i - 1) : n + j \in 1..(n + i - 1) /\ buffer'[j] = buffer[n + j]
        <4> SUFFICES ASSUME NEW j \in 1..(i - 1)
                     PROVE  n + j \in 1..(n + i - 1) /\ buffer'[j] = buffer[n + j]
          OBVIOUS
        <4>1. j \in 1..Len(buffer') /\ j # last /\ n + j \in 1..(n + i - 1)
          BY <1>2, <1>3, <3>1
        <4> QED BY <1>4, <4>1
      <3> QED BY <3>2, <3>3, <3>4
    <2> QED BY <1>1, <2>1, <2>2, <2>3
  <1>8. OutputsKept'
    <2> SUFFICES ASSUME NEW f \in (1..outputs') \X (1..Parts), f \notin journal', f[1] \notin lost'
                 PROVE  \E i \in 1..Len(buffer') : buffer'[i].id = f[1] /\ f[2] >= buffer'[i].from
      BY DEF OutputsKept
    <2>1. CASE f[1] = outputs + 1
      BY <1>3, <1>5, <2>1
    <2>2. CASE f[1] # outputs + 1
      <3>1. f \in (1..outputs) \X (1..Parts) /\ f \notin journal /\ f[1] \notin lost
        BY <1>1, <1>2, <2>2
      <3>2. PICK i \in 1..Len(buffer) : buffer[i].id = f[1] /\ f[2] >= buffer[i].from
        BY <3>1 DEF OutputsKept
      <3>3. ~ (n = 1 /\ i = 1)
        BY <1>1, <3>2
      <3> DEFINE j == i - n
      <3>4. j \in 1..Len(buffer') /\ j # last /\ n + j = i
        BY <1>1, <1>2, <3>3 DEF last
      <3> HIDE DEF j
      <3>5. buffer'[j] = buffer[i]
        BY <1>4, <3>4
      <3> QED BY <3>2, <3>4, <3>5
    <2> QED BY <2>1, <2>2
  <1> QED BY <1>6, <1>7, <1>8

LEMMA ImpulseOutputs ==
    ASSUME Typed, OutputsInv, ImpulseStep
    PROVE  OutputsInv'
  <1> USE DEF Typed
  <1>1. CASE RecordOutput /\ workers' = workers
    BY <1>1, RecordOutputs
  <1>2. CASE UNCHANGED notes
    <2>1. UNCHANGED <<buffer, journal, outputs, lost>>
      BY <1>2 DEF notes
    <2>2. \/ workers' = workers
          \/ \E t : workers' = [workers EXCEPT !["page"].pc = "waiting", !["page"].target = t]
      BY DEF ImpulseStep, EvaluateParagraph, CheckTriggers, StartDispatch, Mutter, Question,
         CooldownElapses, work
    <2>3. workers'["boundary"] = workers["boundary"]
      BY <2>2 DEF WorkersTyped, Workers
    <2> QED BY <2>1, <2>3 DEF OutputsInv, BufferInOrder, TakenFirst, OutputsKept
  <1>3. UNCHANGED notes \/ (RecordOutput /\ workers' = workers)
    BY DEF ImpulseStep, EvaluateParagraph, CheckTriggers, StartDispatch, Mutter, Question,
       CooldownElapses, work
  <1> QED BY <1>1, <1>2, <1>3

LEMMA RestartOutputs ==
    ASSUME Typed, OutputsInv, Restart
    PROVE  OutputsInv'
  <1>1. /\ buffer' = <<>> /\ workers'["boundary"] = Resting
        /\ lost' = lost \cup {buffer[i].id : i \in 1..Len(buffer)}
        /\ UNCHANGED <<journal, outputs>>
    BY DEF Restart, Workers
  <1>2. BufferInOrder'
    BY <1>1 DEF BufferInOrder
  <1>3. TakenFirst'
    BY <1>1 DEF TakenFirst, Resting
  <1>4. OutputsKept'
    BY <1>1 DEF OutputsInv, OutputsKept
  <1> QED BY <1>2, <1>3, <1>4 DEF OutputsInv

LEMMA InitOutputs == ASSUME Init PROVE OutputsInv
  <1> USE DEF Init
  <1>1. BufferInOrder
    BY DEF BufferInOrder
  <1>2. TakenFirst
    BY DEF TakenFirst, Resting, Workers
  <1>3. OutputsKept
    BY DEF OutputsKept
  <1> QED BY <1>1, <1>2, <1>3 DEF OutputsInv

-----------------------------------------------------------------------------
(* The book: the whole *)

LEMMA BookInit == ASSUME Init PROVE BookInv
  <1>1. RevisionInv
    BY DEF Init, RevisionInv, RevisionNamesProgress, NoRow
  <1> QED BY <1>1, InitTyped, InitSource, InitOutputs DEF BookInv

LEMMA BookNext == ASSUME BookInv, [Next]_vars PROVE BookInv'
  <1> USE DEF BookInv
  <1>1. CASE \E w \in Workers : SedimentStep(w)
    <2>1. Typed'
      BY <1>1, SedimentTyped DEF SourceInv
    <2> QED BY <1>1, <2>1, SedimentSource, BystandersOutputs, RevisionStep DEF Bystanders
  <1>2. CASE RowStep \/ \E c \in Callers : BoundaryStep(c)
    <2>1. Typed'
      BY <1>2, RowStepTyped, BoundaryTyped
    <2> QED BY <1>2, <2>1, OtherSource, BystandersOutputs, RevisionStep DEF Bystanders, OtherStep
  <1>3. CASE IntegrationStep
    <2>1. Typed'
      BY <1>3, IntegrationTyped DEF OutputsInv
    <2> QED BY <1>3, <2>1, OtherSource, IntegrationOutputs, RevisionStep DEF OtherStep
  <1>4. CASE ImpulseStep
    <2>1. Typed'
      BY <1>4, ImpulseTyped
    <2> QED BY <1>4, <2>1, OtherSource, ImpulseOutputs, RevisionStep DEF OtherStep
  <1>5. CASE Quiesce \/ Restart
    <2>1. Typed'
      BY <1>5, StopTyped
    <2> QED
      BY <1>5, <2>1, OtherSource, BystandersOutputs, RestartOutputs, RevisionStep
         DEF OtherStep, Bystanders
  <1>6. CASE UNCHANGED vars
    <2>1. UNCHANGED <<progress, client, source, evidence, knowledge, digests, lock, workers, calls,
                      finished, buffer, journal, outputs, lost, impulses, questionPending, cooling,
                      accepting, left>>
      BY <1>6 DEF vars, row, text, work, checks, notes, asides
    <2>2. Typed'
      BY <2>1 DEF Typed, RowTyped, TextTyped, WorkersTyped, ChecksTyped, NotesTyped, AsidesTyped,
         RestTyped
    <2>3. SourceInv'
      <3>1. \A w \in Workers : Knows(w)'
        BY <2>1 DEF SourceInv, HolderKnows, Knows
      <3>2. HolderKnows'
        BY <3>1 DEF HolderKnows
      <3> QED BY <2>1, <3>2 DEF SourceInv, PendingAtCursor, SourceCovered
    <2>4. OutputsInv'
      BY <2>1 DEF OutputsInv, BufferInOrder, TakenFirst, OutputsKept
    <2> QED BY <1>6, <2>2, <2>3, <2>4, RevisionStep
  <1> QED BY <1>1, <1>2, <1>3, <1>4, <1>5, <1>6 DEF Next, RowStep

\* The inductive invariant of the book holds when reading it is all that is done.
THEOREM BookInvariant == Spec => []BookInv
  <1>1. Init => BookInv
    BY BookInit
  <1>2. BookInv /\ [Next]_vars => BookInv'
    BY BookNext
  <1> QED BY <1>1, <1>2, PTL DEF Spec

-----------------------------------------------------------------------------
(* The other work: the inductive invariant *)

Kinds == {"book", "page", "sources", "piece", "survey"}
Said == ({"none", "page", "text", "snippet"} \X Nat \X Nat) \cup {<<>>}
InHand == [block : Said, digest : Nat]
Texts == {0} \cup Versions
Phases == {"searching", "reading_results", "summarizing", "sinking", "completed"}

PageCheckpoint == [cursor : Nat, pending : InHand, profile : Nat]
SourcesCheckpoint == [phase : Phases, results : Seq({"remote", "unusable"}), cursor : Nat,
                      pending : InHand, findings : Seq(Said), judged : Nat]
PieceCheckpoint == [styled : BOOLEAN, draft : Nat, written : BOOLEAN]
SurveyCheckpoint == [steps : Nat]

Checkpoint(kind) ==
    CASE kind = "page" -> PageCheckpoint
      [] kind = "sources" -> SourcesCheckpoint
      [] kind = "piece" -> PieceCheckpoint
      [] kind = "survey" -> SurveyCheckpoint
      [] kind = "book" -> {<<>>}

Statuses == {"running", "halted", "completed", "failed"}
Steps == {"", "recorded", "sunk", "written", "clicked"}
Job == [kind : Jobs, status : Statuses, runs : 1..(MaxHalts + 1)]
Places == [step : Steps, text : Texts, item : 0..Items]

ClickedTyped == clicked \subseteq 1..job.runs

JobTyped ==
    /\ job \in Job
    /\ ckpt \in Checkpoint(job.kind) /\ mine \in Checkpoint(job.kind)
    /\ pageText \in Texts
    /\ at \in Places
    /\ answers \in Nat
    /\ ClickedTyped

\* The runner has what is saved, and a work that is halted may be taken up.
RunnerInStep ==
    /\ job.status = "running" => mine = ckpt
    /\ job.status = "halted" => job.runs <= MaxHalts /\ job.kind # "survey"
    /\ job.status = "running" /\ at.step \notin {"recorded", "sunk"} => at.item = 0

\* A block in hand is none of those behind the cursor; nothing is known of it before its
\* digest is saved, and of that digest at least what the runner has come to.
HandApart ==
    LET p == ckpt.pending IN
    /\ p.block = None.block => p = None
    /\ p.block = <<>> => p.digest = 0
    /\ p.block # Judgement
    /\ p.block \notin ReadBlocks /\ None.block \notin ReadBlocks
    /\ <<>> \notin ReadBlocks /\ Judgement \notin ReadBlocks
    /\ p.digest \in 0..answers

BlocksTaught ==
    /\ \A b \in ReadBlocks : b \in exposed /\ \E d \in 1..answers : LearntOf(b) = All(b, d)
    /\ exposed \subseteq ReadBlocks \cup ({ckpt.pending.block} \ {None.block, <<>>})

HandTaught ==
    LET p == ckpt.pending IN
    /\ LearntOf(p.block) \subseteq All(p.block, p.digest)
    /\ p.digest = 0 => LearntOf(p.block) = {}
    /\ \A k \in learnt : k[1] \in ReadBlocks \cup {p.block, Judgement}

HandCame ==
    LET p == ckpt.pending IN
    /\ job.status = "running" /\ at.step = "recorded" =>
         /\ p.block \in exposed
         /\ p.digest = 0 => at.item = 0
         /\ \A i \in 1..at.item : <<p.block, p.digest, i>> \in learnt
    /\ job.status = "running" /\ p # None => at.step \in {"", "recorded"}
    /\ job.status = "completed" => p = None

BlockInHand == HandApart /\ BlocksTaught /\ HandTaught /\ HandCame

\* A page is read in the version that was saved.
PageRead ==
    /\ ckpt.cursor > 0 \/ ckpt.pending # None => pageText # 0
    /\ pageText # 0 => ckpt.cursor <= PageLength[pageText]
    /\ ckpt.pending # None =>
         /\ ckpt.pending.block = <<"page", pageText, ckpt.cursor + 1>>
         /\ ckpt.cursor < PageLength[pageText]
    /\ job.status = "completed" => pageText # 0 /\ ckpt.cursor = PageLength[pageText]

PageInv ==
    job.kind = "page" =>
        /\ BlockInHand /\ PageRead
        /\ job.status = "running" => at.text = pageText /\ at.step \in {"", "recorded"}

\* Sources are read in their order, and judged when they are read.
SourcesRead ==
    /\ \A b \in ReadBlocks : b \in {"text", "snippet"} \X {0} \X (1..ckpt.cursor)
    /\ IsFiniteSet(ReadBlocks) /\ Cardinality(ReadBlocks) = Len(ckpt.findings)
    /\ ckpt.pending # None =>
         /\ ckpt.phase = "reading_results"
         /\ ckpt.pending.block \in
              ({"text", "snippet"} \X {0} \X {ckpt.cursor + 1}) \cup {<<>>}

SourcesJudged ==
    /\ ckpt.phase \in {"searching", "reading_results", "summarizing"} =>
         topics = {} /\ LearntOf(Judgement) = {}
    /\ JudgedOnce

SourcesCame ==
    job.status = "running" =>
        /\ ckpt.phase # "reading_results" => at.step \in {"", "sunk"}
        /\ at.step \in {"", "recorded", "sunk"}
        /\ at.step = "sunk" =>
             /\ ckpt.phase \in {"sinking", "completed"}
             /\ \A i \in 1..at.item : <<Judgement, ckpt.judged, i>> \in learnt \/ ckpt.judged = 0

SourcesInv ==
    job.kind = "sources" => BlockInHand /\ SourcesRead /\ SourcesJudged /\ SourcesCame

\* One draft is written.
PieceInv ==
    job.kind = "piece" =>
        /\ pieces \subseteq {ckpt.draft}
        /\ ckpt.draft = 0 => pieces = {}
        /\ ckpt.written \/ (job.status = "running" /\ at.step = "written") => pieces = {ckpt.draft}
        /\ job.status = "completed" => ckpt.written

\* A questionnaire is clicked through in its only run.
SurveyInv ==
    job.kind = "survey" =>
        /\ job.runs = 1
        /\ ckpt.steps > 0 \/ (job.status = "running" /\ at.step = "clicked") => clicked # {}
        /\ job.status = "completed" => ckpt.steps > 0

WorkInv == JobTyped /\ RunnerInStep /\ PageInv /\ SourcesInv /\ PieceInv /\ SurveyInv

-----------------------------------------------------------------------------
(* The other work: types *)

LEMMA JobConstants ==
    /\ Jobs \subseteq Kinds
    /\ PageLength \in Seq(Nat) /\ \A v \in Versions : v \in Nat \ {0} /\ PageLength[v] \in Nat
    /\ \A r \in Found : r \in Seq({"remote", "unusable"})
    /\ FetchCount \in Nat /\ MaxActions \in Nat /\ MaxHalts \in Nat
  BY JobsOK DEF Kinds, Versions

LEMMA CheckpointOf ==
    /\ Checkpoint("page") = PageCheckpoint
    /\ Checkpoint("sources") = SourcesCheckpoint
    /\ Checkpoint("piece") = PieceCheckpoint
    /\ Checkpoint("survey") = SurveyCheckpoint
    /\ Checkpoint("book") = {<<>>}
  BY DEF Checkpoint

LEMMA NoneInHand == None \in InHand
  BY DEF None, InHand, Said

LEMMA FreshTyped == ASSUME NEW kind \in Kinds PROVE Fresh(kind) \in Checkpoint(kind)
  <1>1. CASE kind = "page"
    BY <1>1, CheckpointOf, NoneInHand DEF Fresh, PageCheckpoint
  <1>2. CASE kind = "sources"
    <2>1. <<>> \in Seq({"remote", "unusable"}) /\ <<>> \in Seq(Said)
      OBVIOUS
    <2>2. Fresh(kind) = [phase |-> "searching", results |-> <<>>, cursor |-> 0,
                         pending |-> None, findings |-> <<>>, judged |-> 0]
      BY <1>2 DEF Fresh
    <2> QED BY <1>2, <2>1, <2>2, CheckpointOf, NoneInHand DEF SourcesCheckpoint, Phases
  <1>3. CASE kind = "piece"
    BY <1>3, CheckpointOf DEF Fresh, PieceCheckpoint
  <1>4. CASE kind = "survey"
    BY <1>4, CheckpointOf DEF Fresh, SurveyCheckpoint
  <1>5. CASE kind = "book"
    BY <1>5, CheckpointOf DEF Fresh
  <1> QED BY <1>1, <1>2, <1>3, <1>4, <1>5 DEF Kinds

LEMMA Successor == \A n \in Nat : n + 1 \in Nat
  OBVIOUS

LEMMA NoItems == 0 \in 0..Items
  BY Constants

LEMMA PlaceTyped ==
    ASSUME NEW a \in Places, NEW step \in Steps, NEW i \in 0..Items, NEW t \in Texts
    PROVE  /\ [a EXCEPT !.step = step] \in Places
           /\ [a EXCEPT !.step = step, !.item = i] \in Places
           /\ [a EXCEPT !.item = i] \in Places
           /\ [a EXCEPT !.text = t] \in Places
  BY DEF Places

LEMMA StartTyped ==
    ASSUME NEW t \in Texts
    PROVE  Start \in Places /\ [Start EXCEPT !.text = t] \in Places
  <1>1. 0 \in Texts /\ "" \in Steps
    BY DEF Texts, Steps
  <1> QED BY <1>1, NoItems DEF Places, Start

LEMMA SavedBoth == ASSUME NEW c, Saved(c) PROVE mine' = ckpt' /\ ckpt' = c
  BY DEF Saved

\* What is saved has the shape of its kind, whatever step saves it.
LEMMA SavedTyped ==
    ASSUME JobTyped, NEW c \in Checkpoint(job.kind), Saved(c),
           UNCHANGED <<job, pageText, clicked>>, answers' \in Nat, at' \in Places
    PROVE  JobTyped'
  BY DEF JobTyped, Saved, ClickedTyped

\* Nothing is saved.
LEMMA UnsavedTyped ==
    ASSUME JobTyped, UNCHANGED <<job, ckpt, mine, answers>>, pageText' \in Texts, at' \in Places,
           clicked' \subseteq clicked \cup {job.runs}
    PROVE  JobTyped'
  <1>1. job.runs \in 1..(MaxHalts + 1)
    BY DEF JobTyped, Job
  <1>2. job.runs \in 1..job.runs
    BY <1>1, JobConstants
  <1>3. ClickedTyped'
    BY <1>2 DEF JobTyped, ClickedTyped
  <1> QED BY <1>3 DEF JobTyped

LEMMA StatusTyped ==
    ASSUME JobTyped, NEW status \in Statuses, EndJob(status),
           UNCHANGED <<ckpt, pageText, clicked, answers>>, at' \in Places,
           mine' \in Checkpoint(job.kind)
    PROVE  JobTyped'
  <1>1. job' \in Job /\ job'.kind = job.kind /\ job'.runs = job.runs
    BY DEF JobTyped, EndJob, Job
  <1> QED BY <1>1 DEF JobTyped, ClickedTyped

LEMMA RunTyped ==
    ASSUME JobTyped, RunnerInStep, HaltJob \/ ResumeJob \/ FailJob
    PROVE  JobTyped'
  <1>0. job.kind \in Kinds /\ at \in Places /\ pageText \in Texts
    BY JobConstants DEF JobTyped, Job
  <1>1. CASE HaltJob
    <2>1. StatusAfterHalt \in Statuses
      BY DEF StatusAfterHalt, Statuses
    <2>2. mine' \in Checkpoint(job.kind)
      BY <1>0, <1>1, FreshTyped DEF HaltJob
    <2>3. at' \in Places
      BY <1>0, <1>1, StartTyped DEF HaltJob
    <2>4. EndJob(StatusAfterHalt) /\ UNCHANGED <<ckpt, pageText, clicked, answers>>
      BY <1>1 DEF HaltJob, traces
    <2> QED BY <2>1, <2>2, <2>3, <2>4, StatusTyped
  <1>2. CASE ResumeJob
    <2>1. job.runs \in 1..(MaxHalts + 1) /\ job.runs <= MaxHalts
      BY <1>2 DEF JobTyped, Job, RunnerInStep, ResumeJob
    <2>2. job.runs \in Nat /\ job.runs + 1 \in 1..(MaxHalts + 1)
      BY <2>1, JobConstants
    <2>3. at' \in Places
      BY <1>0, <1>2, StartTyped DEF ResumeJob
    <2>4. job' \in Job /\ job'.kind = job.kind /\ job'.runs = job.runs + 1
      BY <1>2, <2>2 DEF ResumeJob, JobTyped, Job, Statuses
    <2>5. clicked \subseteq 1..(job.runs + 1)
      <3>1. clicked \subseteq 1..job.runs
        BY DEF JobTyped, ClickedTyped
      <3> QED BY <2>2, <3>1
    <2>6. UNCHANGED <<ckpt, pageText, clicked, answers>> /\ mine' = ckpt
      BY <1>2 DEF ResumeJob, traces
    <2> QED BY <2>3, <2>4, <2>5, <2>6 DEF JobTyped, ClickedTyped
  <1>3. CASE FailJob
    BY <1>0, <1>3, StatusTyped DEF FailJob, traces, JobTyped, Statuses
  <1> QED BY <1>1, <1>2, <1>3

\* The steps on a block in hand, which a page and an exploration share.
LEMMA BlockTyped ==
    ASSUME JobTyped, RecordBlock \/ DigestBlock \/ RememberBlock \/ FinishBlock
    PROVE  JobTyped'
  <1>0. at \in Places /\ answers \in Nat /\ mine \in Checkpoint(job.kind)
    BY DEF JobTyped
  <1>1. \/ job.kind = "page" /\ mine \in PageCheckpoint
        \/ job.kind = "sources" /\ mine \in SourcesCheckpoint
    <2>1. job.kind = "page" \/ job.kind = "sources"
      BY DEF RecordBlock, DigestBlock, RememberBlock, FinishBlock, Pending, Doing
    <2>2. job.kind = "page" => mine \in PageCheckpoint
      BY <1>0, CheckpointOf, Zenon
    <2>3. job.kind = "sources" => mine \in SourcesCheckpoint
      BY <1>0, CheckpointOf, Zenon
    <2> QED BY <2>1, <2>2, <2>3, Zenon
  <1>2. CASE RecordBlock
    <2>1. at' \in Places
      BY <1>2, <1>0 DEF RecordBlock, Onward, Places, Steps
    <2> QED BY <1>2, <2>1, UnsavedTyped DEF RecordBlock, JobTyped
  <1>3. CASE DigestBlock
    <2>1. mine.pending \in InHand
      BY <1>1 DEF PageCheckpoint, SourcesCheckpoint
    <2>2. [mine.pending EXCEPT !.digest = answers + 1] \in InHand
      <3>1. answers + 1 \in Nat
        BY <1>0
      <3> QED BY <2>1, <3>1 DEF InHand
    <2>3. Digested = [mine EXCEPT !.pending = [mine.pending EXCEPT !.digest = answers + 1]]
      BY <1>1 DEF Digested, PageCheckpoint, SourcesCheckpoint
    <2>4. Digested \in Checkpoint(job.kind)
      BY <1>1, <2>2, <2>3, CheckpointOf DEF PageCheckpoint, SourcesCheckpoint
    <2>5. answers + 1 \in Nat
      BY <1>0
    <2> QED BY <1>0, <1>3, <2>4, <2>5, SavedTyped DEF DigestBlock, traces
  <1>4. CASE RememberBlock
    <2>1. at.item + 1 \in 0..Items
      <3>1. at.item \in 0..Items /\ at.item < Items
        BY <1>0, <1>4 DEF RememberBlock, Places
      <3> QED BY <3>1, Constants
    <2>2. at' \in Places
      BY <1>4, <1>0, <2>1 DEF RememberBlock, Places
    <2> QED BY <1>4, <2>2, UnsavedTyped DEF RememberBlock, JobTyped
  <1>5. CASE FinishBlock
    <2>1. at' = [at EXCEPT !.step = "", !.item = 0]
      BY <1>5 DEF FinishBlock
    <2>2. at' \in Places
      BY <1>0, <2>1, NoItems DEF Places, Steps
    <2>3. CASE job.kind = "page"
      <3>1. mine \in PageCheckpoint
        BY <1>1, <2>3
      <3>2. mine.cursor + 1 \in Nat /\ mine.pending.digest \in Nat
        BY <3>1 DEF PageCheckpoint, InHand
      <3>3. [Behind EXCEPT !.profile = mine.pending.digest] \in PageCheckpoint
        BY <3>1, <3>2, NoneInHand DEF Behind, PageCheckpoint
      <3>4. Saved([Behind EXCEPT !.profile = mine.pending.digest])
        BY <1>5, <2>3 DEF FinishBlock
      <3> QED BY <1>5, <2>2, <2>3, <3>3, <3>4, CheckpointOf, SavedTyped DEF FinishBlock, traces, JobTyped
    <2>4. CASE job.kind = "sources"
      <3>1. mine \in SourcesCheckpoint
        BY <1>1, <2>4
      <3>2. /\ mine.cursor + 1 \in Nat /\ mine.pending.block \in Said
            /\ mine.findings \in Seq(Said)
        BY <3>1 DEF SourcesCheckpoint, InHand
      <3>3. Append(mine.findings, mine.pending.block) \in Seq(Said)
        BY <3>2, AppendProperties
      <3>4. Behind \in SourcesCheckpoint /\ Behind.findings = mine.findings
        BY <3>1, <3>2, NoneInHand DEF Behind, SourcesCheckpoint
      <3>5. [Behind EXCEPT !.findings = Append(@, mine.pending.block)] \in SourcesCheckpoint
        BY <3>3, <3>4 DEF SourcesCheckpoint
      <3>6. \E c \in SourcesCheckpoint : Saved(c)
        BY <1>5, <2>4, <3>4, <3>5 DEF FinishBlock
      <3> QED BY <1>5, <2>2, <2>4, <3>6, CheckpointOf, SavedTyped DEF FinishBlock, traces, JobTyped
    <2> QED BY <1>1, <2>3, <2>4
  <1> QED BY <1>2, <1>3, <1>4, <1>5

LEMMA PageTyped ==
    ASSUME JobTyped, FetchPage \/ CutBlock \/ EndPage
    PROVE  JobTyped'
  <1>a. job.kind = "page"
    BY DEF FetchPage, CutBlock, EndPage, Doing
  <1>0. /\ at \in Places /\ answers \in Nat /\ pageText \in Texts
        /\ mine \in PageCheckpoint /\ job.kind = "page" /\ Checkpoint("page") = PageCheckpoint
    BY <1>a, CheckpointOf DEF JobTyped
  <1>1. CASE FetchPage
    <2>1. PICK v \in Versions : pageText' = SourceKept(v) /\ at' = [at EXCEPT !.text = pageText']
      BY <1>1 DEF FetchPage
    <2>2. pageText' \in Texts
      BY <1>0, <2>1 DEF SourceKept, Texts
    <2>3. at' \in Places
      BY <1>0, <2>1, <2>2 DEF Places
    <2> QED BY <1>1, <2>2, <2>3, UnsavedTyped DEF FetchPage, traces
  <1>2. CASE CutBlock
    <2> DEFINE b == <<"page", at.text, mine.cursor + 1>>
               c == [mine EXCEPT !.pending = [block |-> b, digest |-> 0]]
    <2>1. at.text \in Nat
      <3>1. at.text \in Texts
        BY <1>0 DEF Places
      <3> QED BY <3>1, JobConstants DEF Texts
    <2>2. mine.cursor + 1 \in Nat
      BY <1>0 DEF PageCheckpoint
    <2>3. [block |-> b, digest |-> 0] \in InHand
      BY <2>1, <2>2 DEF InHand, Said
    <2>4. c \in PageCheckpoint
      BY <1>0, <2>3 DEF PageCheckpoint
    <2>5. Saved(c) /\ UNCHANGED <<job, pageText, clicked, at, answers>>
      BY <1>2 DEF CutBlock, traces
    <2> QED BY <1>0, <2>4, <2>5, SavedTyped
  <1>3. CASE EndPage
    BY <1>0, <1>3, StatusTyped DEF EndPage, traces, JobTyped, Statuses
  <1> QED BY <1>1, <1>2, <1>3

SourcesStep ==
    \/ Search \/ PrepareSource \/ EndSources \/ Summarize
    \/ SinkTopics \/ SinkKnowledge \/ EndSinking \/ EndExploration

LEMMA SourcesTyped ==
    ASSUME JobTyped, SourcesStep
    PROVE  JobTyped'
  <1>a. job.kind = "sources"
    BY DEF SourcesStep, Search, PrepareSource, EndSources, Summarize, SinkTopics, SinkKnowledge,
       EndSinking, EndExploration, In, Doing
  <1>0. /\ at \in Places /\ answers \in Nat /\ pageText \in Texts /\ mine \in SourcesCheckpoint
        /\ Checkpoint(job.kind) = SourcesCheckpoint
    BY <1>a, CheckpointOf DEF JobTyped
  <1>1. CASE Search
    <2>1. PICK r \in Found : Saved([mine EXCEPT !.results = r, !.phase = "reading_results"])
      BY <1>1 DEF Search
    <2>2. [mine EXCEPT !.results = r, !.phase = "reading_results"] \in SourcesCheckpoint
      BY <1>0, JobConstants DEF SourcesCheckpoint, Phases
    <2> QED BY <1>0, <1>1, <2>1, <2>2, SavedTyped DEF Search, traces
  <1>2. CASE PrepareSource
    <2>1. PICK said \in {"", "text", "snippet"} :
             Saved([mine EXCEPT !.pending =
                      [block |-> IF said = "" THEN <<>> ELSE <<said, 0, mine.cursor + 1>>,
                       digest |-> 0]])
      BY <1>2 DEF PrepareSource, SaidBy
    <2>2. mine.cursor + 1 \in Nat
      <3>1. mine.cursor \in Nat
        BY <1>0 DEF SourcesCheckpoint
      <3> QED BY <3>1, Successor, Zenon
    <2>3. (IF said = "" THEN <<>> ELSE <<said, 0, mine.cursor + 1>>) \in Said
      BY <2>2 DEF Said
    <2> DEFINE b == IF said = "" THEN <<>> ELSE <<said, 0, mine.cursor + 1>>
    <2> HIDE DEF b
    <2>4. [block |-> b, digest |-> 0] \in InHand
      BY <2>3 DEF InHand, b
    <2>5. [mine EXCEPT !.pending = [block |-> b, digest |-> 0]] \in SourcesCheckpoint
      BY <1>0, <2>4 DEF SourcesCheckpoint
    <2> QED BY <1>0, <1>2, <2>1, <2>5, SavedTyped DEF PrepareSource, traces, b
  <1>3. CASE EndSources
    <2>1. [mine EXCEPT !.phase = "summarizing"] \in SourcesCheckpoint
      BY <1>0 DEF SourcesCheckpoint, Phases
    <2> QED BY <1>0, <1>3, <2>1, SavedTyped DEF EndSources, traces
  <1>4. CASE Summarize
    <2>1. PICK given \in BOOLEAN :
             /\ answers' = IF given THEN answers + 1 ELSE answers
             /\ Saved([mine EXCEPT !.phase = "sinking", !.judged = IF given THEN answers' ELSE 0])
      BY <1>4 DEF Summarize
    <2>2. answers' \in Nat
      BY <1>0, <2>1
    <2> DEFINE j == IF given THEN answers' ELSE 0
    <2>3. j \in Nat
      BY <2>2
    <2> HIDE DEF j
    <2>4. [mine EXCEPT !.phase = "sinking", !.judged = j] \in SourcesCheckpoint
      BY <1>0, <2>3 DEF SourcesCheckpoint, Phases
    <2> QED BY <1>0, <1>4, <2>1, <2>2, <2>4, SavedTyped DEF Summarize, traces, j
  <1>5. CASE SinkTopics
    <2>1. at' \in Places
      BY <1>0, <1>5 DEF SinkTopics, Onward, Places, Steps
    <2> QED BY <1>5, <2>1, UnsavedTyped DEF SinkTopics, JobTyped
  <1>6. CASE SinkKnowledge
    <2>1. at.item + 1 \in 0..Items
      <3>1. at.item \in 0..Items /\ at.item < Items
        BY <1>0, <1>6 DEF SinkKnowledge, Places
      <3> QED BY <3>1, Constants
    <2>2. at' \in Places
      BY <1>6, <1>0, <2>1 DEF SinkKnowledge, Places
    <2> QED BY <1>6, <2>2, UnsavedTyped DEF SinkKnowledge, JobTyped
  <1>7. CASE EndSinking
    <2>1. [mine EXCEPT !.phase = "completed"] \in SourcesCheckpoint
      BY <1>0 DEF SourcesCheckpoint, Phases
    <2> QED BY <1>0, <1>7, <2>1, SavedTyped DEF EndSinking, traces
  <1>8. CASE EndExploration
    BY <1>0, <1>8, StatusTyped DEF EndExploration, traces, JobTyped, Statuses
  <1> QED BY <1>1, <1>2, <1>3, <1>4, <1>5, <1>6, <1>7, <1>8 DEF SourcesStep

PieceStep == PickStyle \/ Compose \/ WritePiece \/ SavePath \/ EndPiece

LEMMA PieceTyped ==
    ASSUME JobTyped, PieceStep
    PROVE  JobTyped'
  <1>a. job.kind = "piece"
    BY DEF PieceStep, PickStyle, Compose, WritePiece, SavePath, EndPiece, Doing
  <1>0. /\ at \in Places /\ answers \in Nat /\ pageText \in Texts /\ mine \in PieceCheckpoint
        /\ Checkpoint(job.kind) = PieceCheckpoint
    BY <1>a, CheckpointOf DEF JobTyped
  <1>1. CASE PickStyle
    <2>1. [mine EXCEPT !.styled = TRUE] \in PieceCheckpoint
      BY <1>0 DEF PieceCheckpoint
    <2> QED BY <1>0, <1>1, <2>1, SavedTyped DEF PickStyle, traces
  <1>2. CASE Compose
    <2>1. answers' \in Nat
      BY <1>0, <1>2 DEF Compose
    <2>2. [mine EXCEPT !.draft = answers'] \in PieceCheckpoint
      BY <1>0, <2>1 DEF PieceCheckpoint
    <2> QED BY <1>0, <1>2, <2>1, <2>2, SavedTyped DEF Compose, traces
  <1>3. CASE WritePiece
    <2>1. at' \in Places
      BY <1>0, <1>3 DEF WritePiece, Onward, Places, Steps
    <2> QED BY <1>3, <2>1, UnsavedTyped DEF WritePiece, JobTyped
  <1>4. CASE SavePath
    <2>1. [mine EXCEPT !.written = TRUE] \in PieceCheckpoint
      BY <1>0 DEF PieceCheckpoint
    <2> QED BY <1>0, <1>4, <2>1, SavedTyped DEF SavePath, traces
  <1>5. CASE EndPiece
    BY <1>0, <1>5, StatusTyped DEF EndPiece, traces, JobTyped, Statuses
  <1> QED BY <1>1, <1>2, <1>3, <1>4, <1>5 DEF PieceStep

SurveyStep == ClickChoice \/ SaveProgressOfSurvey \/ EndSurvey

LEMMA SurveyTyped ==
    ASSUME JobTyped, SurveyStep
    PROVE  JobTyped'
  <1>a. job.kind = "survey"
    BY DEF SurveyStep, ClickChoice, SaveProgressOfSurvey, EndSurvey, Doing
  <1>0. /\ at \in Places /\ answers \in Nat /\ pageText \in Texts /\ mine \in SurveyCheckpoint
        /\ Checkpoint(job.kind) = SurveyCheckpoint
    BY <1>a, CheckpointOf DEF JobTyped
  <1>1. CASE ClickChoice
    <2>1. at' \in Places
      BY <1>0, <1>1 DEF ClickChoice, Onward, Places, Steps
    <2> QED BY <1>1, <2>1, UnsavedTyped DEF ClickChoice, JobTyped
  <1>2. CASE SaveProgressOfSurvey
    <2>1. mine.steps + 1 \in Nat
      BY <1>0 DEF SurveyCheckpoint
    <2>2. [mine EXCEPT !.steps = @ + 1] \in SurveyCheckpoint
      BY <1>0, <2>1 DEF SurveyCheckpoint
    <2>3. at' \in Places
      BY <1>0, <1>2 DEF SaveProgressOfSurvey, Onward, Places, Steps
    <2> QED BY <1>0, <1>2, <2>2, <2>3, SavedTyped DEF SaveProgressOfSurvey, traces
  <1>3. CASE EndSurvey
    BY <1>0, <1>3, StatusTyped DEF EndSurvey, traces, JobTyped, Statuses
  <1> QED BY <1>1, <1>2, <1>3 DEF SurveyStep

BlockStep == RecordBlock \/ DigestBlock \/ RememberBlock \/ FinishBlock
PageStep == FetchPage \/ CutBlock \/ EndPage
RunStep == FailJob \/ HaltJob \/ ResumeJob

LEMMA JobSteps == JobStep <=> RunStep \/ BlockStep \/ PageStep \/ SourcesStep \/ PieceStep \/ SurveyStep
  BY DEF JobStep, RunStep, BlockStep, PageStep, SourcesStep, PieceStep, SurveyStep

LEMMA JobStepTyped == ASSUME JobTyped, RunnerInStep, JobStep PROVE JobTyped'
  BY JobSteps, RunTyped, BlockTyped, PageTyped, SourcesTyped, PieceTyped, SurveyTyped
     DEF RunStep, BlockStep, PageStep

LEMMA JobInitTyped == ASSUME WorkInit PROVE JobTyped /\ job.kind \in Kinds
  <1>1. job.kind \in Kinds /\ job.kind \in Jobs /\ job.status = "running" /\ job.runs = 1
    BY JobConstants DEF WorkInit
  <1>2. job \in Job
    <2>1. 1 \in 1..(MaxHalts + 1)
      BY JobConstants
    <2> QED BY <2>1 DEF WorkInit, Job, Statuses
  <1>3. ckpt \in Checkpoint(job.kind) /\ mine \in Checkpoint(job.kind)
    BY <1>1, FreshTyped DEF WorkInit
  <1>4. at \in Places /\ pageText \in Texts
    BY StartTyped DEF WorkInit, Texts
  <1> QED BY <1>1, <1>2, <1>3, <1>4 DEF WorkInit, JobTyped, ClickedTyped

-----------------------------------------------------------------------------
(* The other work: the runner *)

LEMMA PlaceAfter ==
    ASSUME JobTyped, NEW step \in Steps
    PROVE  /\ [at EXCEPT !.step = step].step = step
           /\ [at EXCEPT !.step = step].item = at.item
           /\ [at EXCEPT !.step = step].text = at.text
           /\ [at EXCEPT !.step = step, !.item = 0].step = step
           /\ [at EXCEPT !.step = step, !.item = 0].item = 0
           /\ [at EXCEPT !.step = step, !.item = 0].text = at.text
           /\ [at EXCEPT !.item = @ + 1].step = at.step
           /\ [at EXCEPT !.item = @ + 1].item = at.item + 1
           /\ [at EXCEPT !.item = @ + 1].text = at.text
  BY DEF JobTyped, Places

LEMMA ItemTyped == ASSUME JobTyped PROVE at.item \in Nat /\ at.item <= Items
  <1>1. at.item \in 0..Items
    BY DEF JobTyped, Places
  <1> QED BY <1>1, Constants

LEMMA InStepAfter ==
    ASSUME JobTyped, RunnerInStep, JobStep
    PROVE  RunnerInStep'
  <1> USE DEF RunnerInStep
  <1>a. "" \in Steps /\ "recorded" \in Steps /\ "sunk" \in Steps /\ "written" \in Steps
        /\ "clicked" \in Steps
    BY DEF Steps
  <1>1. CASE FailJob
    <2>1. job'.status = "failed"
      BY <1>1 DEF FailJob, EndJob, JobTyped, Job
    <2> QED BY <2>1
  <1>2. CASE HaltJob
    <2>1. job'.status = StatusAfterHalt /\ job'.kind = job.kind /\ job'.runs = job.runs
      BY <1>2 DEF HaltJob, EndJob, JobTyped, Job
    <2>2. CASE job.kind = "survey"
      BY <2>1, <2>2 DEF StatusAfterHalt
    <2>3. CASE job.kind # "survey"
      <3>1. job'.status = "halted" /\ job.runs <= MaxHalts
        BY <1>2, <2>1, <2>3 DEF StatusAfterHalt, HaltJob
      <3> QED BY <2>1, <2>3, <3>1
    <2> QED BY <2>2, <2>3
  <1>3. CASE ResumeJob
    <2>1. job'.status = "running" /\ mine' = ckpt' /\ at' = [Start EXCEPT !.text = pageText]
      BY <1>3 DEF ResumeJob, JobTyped, Job
    <2>2. at'.item = 0
      BY <2>1 DEF Start
    <2> QED BY <2>1, <2>2
  <1>4. CASE BlockStep
    <2>1. UNCHANGED job /\ job.status = "running"
      BY <1>4 DEF BlockStep, RecordBlock, DigestBlock, RememberBlock, FinishBlock, Pending, Doing
    <2>2. mine' = ckpt'
      BY <1>4, <2>1, SavedBoth, Zenon DEF BlockStep, RecordBlock, DigestBlock, RememberBlock, FinishBlock
    <2>3. at'.step \notin {"recorded", "sunk"} => at'.item = 0
      <3>1. CASE RecordBlock
        BY <1>a, <3>1, PlaceAfter DEF RecordBlock, Onward
      <3>2. CASE DigestBlock
        BY <2>1, <3>2 DEF DigestBlock
      <3>3. CASE RememberBlock
        BY <3>3, PlaceAfter DEF RememberBlock
      <3>4. CASE FinishBlock
        BY <1>a, <3>4, PlaceAfter DEF FinishBlock
      <3> QED BY <1>4, <3>1, <3>2, <3>3, <3>4 DEF BlockStep
    <2> QED BY <2>1, <2>2, <2>3
  <1>5. CASE PageStep
    <2>1. CASE EndPage
      <3>1. job'.status = "completed"
        BY <2>1 DEF EndPage, EndJob, JobTyped, Job
      <3> QED BY <3>1
    <2>2. CASE FetchPage \/ CutBlock
      <3>1. UNCHANGED job /\ job.status = "running"
        BY <2>2 DEF FetchPage, CutBlock, Doing
      <3>2. mine' = ckpt'
        BY <2>2, <3>1 DEF FetchPage, CutBlock, Saved
      <3>3. at'.step = at.step /\ at'.item = at.item
        BY <2>2 DEF FetchPage, CutBlock, JobTyped, Places
      <3> QED BY <3>1, <3>2, <3>3
    <2> QED BY <1>5, <2>1, <2>2 DEF PageStep
  <1>6. CASE SourcesStep
    <2>1. CASE EndExploration
      <3>1. job'.status = "completed"
        BY <2>1 DEF EndExploration, EndJob, JobTyped, Job
      <3> QED BY <3>1
    <2>2. CASE Search \/ PrepareSource \/ EndSources \/ Summarize \/ EndSinking
      <3>1. UNCHANGED <<job, at>> /\ job.status = "running"
        BY <2>2 DEF Search, PrepareSource, EndSources, Summarize, EndSinking, In, Doing
      <3>2. mine' = ckpt'
        BY <2>2, <3>1, SavedBoth, Zenon DEF Search, PrepareSource, EndSources, Summarize, EndSinking
      <3> QED BY <3>1, <3>2
    <2>3. CASE SinkTopics \/ SinkKnowledge
      <3>1. UNCHANGED <<job, mine, ckpt>> /\ job.status = "running"
        BY <2>3 DEF SinkTopics, SinkKnowledge, In, Doing
      <3>2. at'.step = "sunk"
        BY <1>a, <2>3, PlaceAfter DEF SinkTopics, SinkKnowledge, Onward
      <3> QED BY <3>1, <3>2
    <2> QED BY <1>6, <2>1, <2>2, <2>3 DEF SourcesStep
  <1>7. CASE PieceStep
    <2>1. CASE EndPiece
      <3>1. job'.status = "completed"
        BY <2>1 DEF EndPiece, EndJob, JobTyped, Job
      <3> QED BY <3>1
    <2>2. CASE PickStyle \/ Compose \/ SavePath
      <3>1. UNCHANGED <<job, at>> /\ job.status = "running"
        BY <2>2 DEF PickStyle, Compose, SavePath, Doing
      <3>2. mine' = ckpt'
        BY <2>2, <3>1, SavedBoth, Zenon DEF PickStyle, Compose, SavePath
      <3> QED BY <3>1, <3>2
    <2>3. CASE WritePiece
      <3>1. UNCHANGED <<job, mine, ckpt>> /\ job.status = "running" /\ at.step = ""
        BY <2>3 DEF WritePiece, Doing
      <3>2. at'.item = at.item
        BY <1>a, <2>3, PlaceAfter DEF WritePiece, Onward
      <3> QED BY <3>1, <3>2
    <2> QED BY <1>7, <2>1, <2>2, <2>3 DEF PieceStep
  <1>8. CASE SurveyStep
    <2>1. CASE EndSurvey
      <3>1. job'.status = "completed"
        BY <2>1 DEF EndSurvey, EndJob, JobTyped, Job
      <3> QED BY <3>1
    <2>2. CASE ClickChoice \/ SaveProgressOfSurvey
      <3>1. UNCHANGED job /\ job.status = "running" /\ at.step \notin {"recorded", "sunk"}
        BY <2>2 DEF ClickChoice, SaveProgressOfSurvey, Doing
      <3>2. mine' = ckpt'
        BY <2>2, <3>1, SavedBoth, Zenon DEF ClickChoice, SaveProgressOfSurvey
      <3>3. \E step \in Steps : at' = [at EXCEPT !.step = step]
        BY <1>a, <2>2 DEF ClickChoice, SaveProgressOfSurvey, Onward
      <3>4. at'.item = at.item
        BY <3>3, PlaceAfter
      <3> QED BY <3>1, <3>2, <3>4
    <2> QED BY <1>8, <2>1, <2>2 DEF SurveyStep
  <1> QED BY <1>1, <1>2, <1>3, <1>4, <1>5, <1>6, <1>7, <1>8, JobSteps DEF RunStep

\* The kind of the work, and what only a finished work has.
LEMMA KindStays ==
    ASSUME JobTyped, JobStep
    PROVE  job'.kind = job.kind
  <1>1. \/ job' = job
        \/ \E status : job' = [job EXCEPT !.status = status]
        \/ job' = [job EXCEPT !.status = "running", !.runs = @ + 1]
    BY DEF JobStep, FailJob, HaltJob, ResumeJob, RecordBlock, DigestBlock, RememberBlock, FinishBlock,
       FetchPage, CutBlock, EndPage, Search, PrepareSource, EndSources, Summarize, SinkTopics,
       SinkKnowledge, EndSinking, EndExploration, PickStyle, Compose, WritePiece, SavePath, EndPiece,
       ClickChoice, SaveProgressOfSurvey, EndSurvey, EndJob
  <1> QED BY <1>1 DEF JobTyped, Job

\* Each step is taken by work of its kind, while it runs.
LEMMA StepKind ==
    /\ BlockStep => job.status = "running" /\ (job.kind = "page" \/ job.kind = "sources")
    /\ PageStep => job.status = "running" /\ job.kind = "page"
    /\ SourcesStep => job.status = "running" /\ job.kind = "sources"
    /\ PieceStep => job.status = "running" /\ job.kind = "piece"
    /\ SurveyStep => job.status = "running" /\ job.kind = "survey"
  <1>1. BlockStep => job.status = "running" /\ (job.kind = "page" \/ job.kind = "sources")
    BY DEF BlockStep, RecordBlock, DigestBlock, RememberBlock, FinishBlock, Pending, Doing
  <1>2. PageStep => job.status = "running" /\ job.kind = "page"
    BY DEF PageStep, FetchPage, CutBlock, EndPage, Doing
  <1>3. SourcesStep => job.status = "running" /\ job.kind = "sources"
    BY DEF SourcesStep, Search, PrepareSource, EndSources, Summarize, SinkTopics, SinkKnowledge,
       EndSinking, EndExploration, In, Doing
  <1>4. PieceStep => job.status = "running" /\ job.kind = "piece"
    BY DEF PieceStep, PickStyle, Compose, WritePiece, SavePath, EndPiece, Doing
  <1>5. SurveyStep => job.status = "running" /\ job.kind = "survey"
    BY DEF SurveyStep, ClickChoice, SaveProgressOfSurvey, EndSurvey, Doing
  <1> QED BY <1>1, <1>2, <1>3, <1>4, <1>5

\* What a halt, a failure or a new run leaves as it was, and where it leaves the runner.
LEMMA RunAfter ==
    ASSUME JobTyped, RunStep
    PROVE  /\ UNCHANGED <<ckpt, pageText, exposed, learnt, topics, pieces, clicked, answers>>
           /\ job'.status # "completed"
           /\ job'.status = "running" => at'.step = "" /\ at'.item = 0 /\ at'.text = pageText
           /\ job'.status = "running" => job.status = "halted"
           /\ job.status # "halted" => job'.runs = job.runs
  <1>1. CASE FailJob
    BY <1>1 DEF FailJob, EndJob, traces, JobTyped, Job
  <1>2. CASE HaltJob
    BY <1>2 DEF HaltJob, EndJob, StatusAfterHalt, traces, JobTyped, Job
  <1>3. CASE ResumeJob
    BY <1>3 DEF ResumeJob, Start, traces, JobTyped, Job
  <1> QED BY <1>1, <1>2, <1>3 DEF RunStep

LEMMA EndJobAfter ==
    ASSUME JobTyped, NEW status, EndJob(status)
    PROVE  job'.status = status /\ job'.kind = job.kind /\ job'.runs = job.runs
  BY DEF EndJob, JobTyped, Job

-----------------------------------------------------------------------------
(* The other work: a piece of writing, and a questionnaire *)

LEMMA PieceAfter ==
    ASSUME JobTyped, RunnerInStep, PieceInv, JobStep
    PROVE  PieceInv'
  <1> SUFFICES ASSUME job.kind = "piece", RunStep \/ PieceStep PROVE PieceInv'
    BY JobSteps, StepKind, KindStays DEF PieceInv
  <1>a. /\ ckpt \in PieceCheckpoint
        /\ pieces \subseteq {ckpt.draft}
        /\ ckpt.draft = 0 => pieces = {}
        /\ ckpt.written \/ (job.status = "running" /\ at.step = "written") => pieces = {ckpt.draft}
        /\ job.status = "completed" => ckpt.written
    BY CheckpointOf DEF PieceInv, JobTyped
  <1>1. CASE RunStep
    BY <1>1, <1>a, RunAfter DEF PieceInv
  <1>2. CASE PieceStep
    <2>0. job.status = "running" /\ mine = ckpt
      BY <1>2, StepKind DEF RunnerInStep
    <2>1. CASE PickStyle
      <3>1. ckpt' = [ckpt EXCEPT !.styled = TRUE] /\ UNCHANGED <<job, at, pieces>>
        BY <2>0, <2>1 DEF PickStyle, Saved, traces
      <3>2. ckpt'.draft = ckpt.draft /\ ckpt'.written = ckpt.written
        BY <1>a, <3>1 DEF PieceCheckpoint
      <3> QED BY <1>a, <3>1, <3>2 DEF PieceInv
    <2>2. CASE Compose
      <3>1. /\ ckpt' = [ckpt EXCEPT !.draft = answers'] /\ UNCHANGED <<job, at, pieces>>
            /\ ckpt.draft = 0
        BY <2>0, <2>2 DEF Compose, Saved, traces
      <3>2. ckpt'.written = ckpt.written
        BY <1>a, <3>1 DEF PieceCheckpoint
      <3>3. pieces = {} /\ ~ ckpt.written /\ at.step # "written" /\ job.status # "completed"
        BY <1>a, <2>0, <3>1
      <3> QED BY <3>1, <3>2, <3>3 DEF PieceInv
    <2>3. CASE WritePiece
      <3>1. pieces' = pieces \cup {ckpt.draft} /\ ckpt.draft > 0 /\ UNCHANGED <<job, ckpt>>
        BY <2>0, <2>3 DEF WritePiece
      <3>2. pieces' = {ckpt.draft}
        BY <1>a, <3>1
      <3>3. ckpt.draft \in Nat
        BY <1>a DEF PieceCheckpoint
      <3>4. ckpt.draft # 0
        BY <3>1, <3>3
      <3> QED BY <1>a, <3>1, <3>2, <3>4 DEF PieceInv
    <2>4. CASE SavePath
      <3>1. /\ ckpt' = [ckpt EXCEPT !.written = TRUE] /\ UNCHANGED <<job, at, pieces>>
            /\ at.step = "written"
        BY <2>0, <2>4 DEF SavePath, Saved, traces
      <3>2. ckpt'.draft = ckpt.draft /\ ckpt'.written
        BY <1>a, <3>1 DEF PieceCheckpoint
      <3>3. pieces = {ckpt.draft}
        BY <1>a, <2>0, <3>1
      <3> QED BY <1>a, <3>1, <3>2, <3>3 DEF PieceInv
    <2>5. CASE EndPiece
      <3>1. ckpt.written /\ EndJob("completed") /\ UNCHANGED <<ckpt, pieces>>
        BY <2>0, <2>5 DEF EndPiece, traces
      <3>2. job'.status = "completed"
        BY <3>1, EndJobAfter
      <3> QED BY <1>a, <3>1, <3>2 DEF PieceInv
    <2> QED BY <1>2, <2>1, <2>2, <2>3, <2>4, <2>5 DEF PieceStep
  <1> QED BY <1>1, <1>2

LEMMA SurveyAfter ==
    ASSUME JobTyped, RunnerInStep, SurveyInv, JobStep
    PROVE  SurveyInv'
  <1> SUFFICES ASSUME job.kind = "survey", RunStep \/ SurveyStep PROVE SurveyInv'
    BY JobSteps, StepKind, KindStays DEF SurveyInv
  <1>a. /\ ckpt \in SurveyCheckpoint /\ ckpt.steps \in Nat
        /\ job.runs = 1 /\ job.status # "halted"
        /\ ckpt.steps > 0 \/ (job.status = "running" /\ at.step = "clicked") => clicked # {}
        /\ job.status = "completed" => ckpt.steps > 0
    BY CheckpointOf DEF SurveyInv, JobTyped, RunnerInStep, SurveyCheckpoint
  <1>1. CASE RunStep
    BY <1>1, <1>a, RunAfter DEF SurveyInv
  <1>2. CASE SurveyStep
    <2>0. job.status = "running" /\ mine = ckpt
      BY <1>2, StepKind DEF RunnerInStep
    <2>1. CASE ClickChoice
      <3>1. clicked' # {} /\ UNCHANGED <<job, ckpt>>
        BY <2>1 DEF ClickChoice
      <3> QED BY <1>a, <3>1 DEF SurveyInv
    <2>2. CASE SaveProgressOfSurvey
      <3>1. at.step = "clicked" /\ UNCHANGED <<job, clicked>>
        BY <2>2 DEF SaveProgressOfSurvey, traces
      <3>2. clicked # {}
        BY <1>a, <2>0, <3>1
      <3> QED BY <1>a, <2>0, <3>1, <3>2 DEF SurveyInv
    <2>3. CASE EndSurvey
      <3>0. mine.steps \in 1..(MaxActions - 1) /\ EndJob("completed") /\ UNCHANGED <<ckpt, clicked>>
        BY <2>3 DEF EndSurvey, traces
      <3>1. ckpt.steps > 0
        BY <1>a, <2>0, <3>0, JobConstants
      <3>2. job'.status = "completed" /\ job'.runs = job.runs
        BY <3>0, EndJobAfter
      <3> QED BY <1>a, <3>0, <3>1, <3>2 DEF SurveyInv
    <2> QED BY <1>2, <2>1, <2>2, <2>3 DEF SurveyStep
  <1> QED BY <1>1, <1>2

-----------------------------------------------------------------------------
(* The other work: the block in hand *)

LEMMA ReadBlocksStay ==
    ASSUME job'.kind = job.kind,
           job.kind = "page" => ckpt'.cursor = ckpt.cursor /\ (pageText' = pageText \/ ckpt.cursor = 0),
           job.kind # "page" => ckpt'.findings = ckpt.findings
    PROVE  ReadBlocks' = ReadBlocks
  <1>1. CASE job.kind = "page" /\ pageText' = pageText
    BY <1>1 DEF ReadBlocks
  <1>2. CASE job.kind = "page" /\ ckpt.cursor = 0
    <2>1. ReadBlocks = {}
      BY <1>2 DEF ReadBlocks
    <2>2. ReadBlocks' = {}
      BY <1>2 DEF ReadBlocks
    <2> QED BY <2>1, <2>2
  <1>3. CASE job.kind # "page"
    BY <1>3 DEF ReadBlocks
  <1> QED BY <1>1, <1>2, <1>3

LEMMA LearntStays ==
    ASSUME NEW b, learnt \subseteq learnt', \A k \in learnt' \ learnt : k[1] # b
    PROVE  LearntOf(b)' = LearntOf(b)
  BY DEF LearntOf

LEMMA MoreAnswers ==
    ASSUME NEW m \in Nat, NEW n \in Nat, m <= n
    PROVE  1..m \subseteq 1..n /\ 0..m \subseteq 0..n
  OBVIOUS

LEMMA Onwards == \A n \in Nat : n <= n /\ n <= n + 1 /\ n + 1 \in Nat
  OBVIOUS

LEMMA NoAnswer == \A n \in Nat : 0 \in 0..n
  OBVIOUS

LEMMA NextItem == ASSUME NEW i \in Nat, i < Items PROVE i + 1 \in 1..Items
  BY Constants

\* A step elsewhere: at most a judgement is sunk, or the run begins again.
LEMMA BlockStays ==
    ASSUME BlockInHand, ReadBlocks' = ReadBlocks, ckpt'.pending = ckpt.pending, exposed' = exposed,
           answers \in Nat, answers' \in Nat, answers <= answers',
           learnt \subseteq learnt', \A k \in learnt' \ learnt : k[1] = Judgement,
           job'.status = "running" /\ at'.step = "recorded" =>
               job.status = "running" /\ at.step = "recorded" /\ at'.item = at.item,
           job'.status = "running" /\ ckpt.pending # None => at'.step \in {"", "recorded"},
           job'.status = "completed" => ckpt.pending = None
    PROVE  BlockInHand'
  <1>0. HandApart /\ BlocksTaught /\ HandTaught /\ HandCame
    BY DEF BlockInHand
  <1>1. ckpt.pending.block # Judgement /\ Judgement \notin ReadBlocks
    BY <1>0 DEF HandApart
  <1>2. LearntOf(ckpt.pending.block)' = LearntOf(ckpt.pending.block)
    BY <1>1, LearntStays
  <1>3. \A b \in ReadBlocks : LearntOf(b)' = LearntOf(b)
    BY <1>1, LearntStays
  <1>4. \A b : \A d : All(b, d)' = All(b, d)
    BY DEF All
  <1>5. 1..answers \subseteq 1..answers' /\ 0..answers \subseteq 0..answers'
    BY MoreAnswers
  <1>6. HandApart'
    BY <1>0, <1>5 DEF HandApart
  <1>7. BlocksTaught'
    BY <1>0, <1>3, <1>4, <1>5 DEF BlocksTaught
  <1>8. HandTaught'
    BY <1>0, <1>2, <1>4 DEF HandTaught
  <1>9. HandCame'
    BY <1>0 DEF HandCame
  <1> QED BY <1>6, <1>7, <1>8, <1>9 DEF BlockInHand

\* The same when nothing is learnt.
LEMMA BlockRests ==
    ASSUME BlockInHand, ReadBlocks' = ReadBlocks, ckpt'.pending = ckpt.pending, exposed' = exposed,
           answers \in Nat, answers' = answers \/ answers' = answers + 1, learnt' = learnt,
           job'.status = "running" /\ at'.step = "recorded" =>
               job.status = "running" /\ at.step = "recorded" /\ at'.item = at.item,
           job'.status = "running" /\ ckpt.pending # None => at'.step \in {"", "recorded"},
           job'.status = "completed" => ckpt.pending = None
    PROVE  BlockInHand'
  <1>1. learnt \subseteq learnt' /\ \A k \in learnt' \ learnt : k[1] = Judgement
    BY Zenon
  <1>2. answers' \in Nat /\ answers <= answers'
    BY Onwards, Zenon
  <1> QED BY <1>1, <1>2, BlockStays

LEMMA BlockRecorded ==
    ASSUME JobTyped, RunnerInStep, BlockInHand, RecordBlock
    PROVE  BlockInHand' /\ UNCHANGED ckpt
  <1> DEFINE p == ckpt.pending
  <1>1. /\ job.status = "running" /\ mine = ckpt /\ p # None /\ p.block # <<>>
        /\ exposed' = exposed \cup {p.block} /\ at'.step = "recorded" /\ at'.item = 0
        /\ UNCHANGED <<job, ckpt, pageText, learnt, answers>>
    <2>1. job.status = "running" /\ mine = ckpt
      BY StepKind DEF BlockStep, RunnerInStep
    <2>2. at'.step = "recorded" /\ at'.item = at.item /\ at.item = 0
      BY <2>1, PlaceAfter DEF RecordBlock, Onward, Steps, RunnerInStep
    <2> QED BY <2>1, <2>2 DEF RecordBlock, Pending
  <1>2. ReadBlocks' = ReadBlocks /\ \A b : LearntOf(b)' = LearntOf(b)
    BY <1>1 DEF ReadBlocks, LearntOf
  <1>3. p.block # None.block
    BY <1>1 DEF BlockInHand, HandApart, BlocksTaught, HandTaught, HandCame
  <1>4. 1..at'.item = {}
    BY <1>1
  <1>5. \A b : \A d : All(b, d)' = All(b, d)
    BY DEF All
  <1>6. p.block \notin ReadBlocks
    BY DEF BlockInHand, HandApart, BlocksTaught, HandTaught, HandCame
  <1>7. HandApart' /\ HandTaught'
    BY <1>1, <1>2, <1>5 DEF BlockInHand, HandApart, HandTaught
  <1>8. BlocksTaught'
    BY <1>1, <1>2, <1>3, <1>5 DEF BlockInHand, BlocksTaught
  <1>9. HandCame'
    BY <1>1, <1>4 DEF HandCame
  <1> QED BY <1>1, <1>7, <1>8, <1>9 DEF BlockInHand

LEMMA BlockDigested ==
    ASSUME JobTyped, RunnerInStep, BlockInHand, DigestBlock
    PROVE  BlockInHand' /\ ckpt' = [ckpt EXCEPT !.pending.digest = answers + 1]
           /\ ckpt.pending # None /\ ckpt'.pending.block = ckpt.pending.block
           /\ UNCHANGED <<job, at, pageText, exposed, learnt, topics>>
           /\ job.status = "running"
  <1> DEFINE p == ckpt.pending
             q == ckpt'.pending
  <1>1. /\ job.status = "running" /\ mine = ckpt /\ p # None /\ p.digest = 0 /\ at.step = "recorded"
        /\ answers' = answers + 1
        /\ UNCHANGED <<job, pageText, exposed, learnt, topics, at>>
    <2>1. job.status = "running" /\ mine = ckpt
      BY StepKind DEF BlockStep, RunnerInStep
    <2> QED BY <2>1 DEF DigestBlock, Pending, traces
  <1>2. ckpt' = [ckpt EXCEPT !.pending.digest = answers + 1]
    BY <1>1, SavedBoth DEF DigestBlock, Digested
  <1>a. ckpt \in PageCheckpoint \/ ckpt \in SourcesCheckpoint
    <2>1. job.kind = "page" \/ job.kind = "sources"
      BY StepKind DEF BlockStep
    <2> QED BY <2>1, CheckpointOf, Zenon DEF JobTyped
  <1>3. /\ q.block = p.block /\ q.digest = answers + 1
        /\ job.kind = "page" => ckpt'.cursor = ckpt.cursor
        /\ job.kind # "page" => ckpt'.findings = ckpt.findings
    <2>1. q = [p EXCEPT !.digest = answers + 1] /\ p \in InHand
      BY <1>2, <1>a DEF PageCheckpoint, SourcesCheckpoint
    <2>2. q.block = p.block /\ q.digest = answers + 1
      BY <2>1 DEF InHand
    <2>3. job.kind = "page" => ckpt \in PageCheckpoint
      BY CheckpointOf, Zenon DEF JobTyped
    <2>4. job.kind # "page" => ckpt \in SourcesCheckpoint
      <3>1. job.kind = "page" \/ job.kind = "sources"
        BY StepKind DEF BlockStep
      <3> QED BY <3>1, CheckpointOf, Zenon DEF JobTyped
    <2>5. job.kind = "page" => ckpt'.cursor = ckpt.cursor
      BY <1>2, <2>3 DEF PageCheckpoint
    <2>6. job.kind # "page" => ckpt'.findings = ckpt.findings
      BY <1>2, <2>4 DEF SourcesCheckpoint
    <2> QED BY <2>2, <2>5, <2>6
  <1>4. ReadBlocks' = ReadBlocks /\ \A b : LearntOf(b)' = LearntOf(b)
    BY <1>1, <1>3, ReadBlocksStay DEF LearntOf
  <1>5. answers \in Nat /\ 1..answers \subseteq 1..(answers + 1)
    BY DEF JobTyped
  <1>6. p.block # None.block /\ p.block # <<>>
    BY <1>1 DEF BlockInHand, HandApart, BlocksTaught, HandTaught, HandCame
  <1>7. at.item = 0
    BY <1>1 DEF BlockInHand, HandApart, BlocksTaught, HandTaught, HandCame
  <1>8. \A b : \A d : All(b, d)' = All(b, d)
    BY DEF All
  <1>9. LearntOf(p.block) = {} /\ 1..at.item = {} /\ q.digest # 0
    BY <1>1, <1>3, <1>5, <1>7 DEF BlockInHand, HandApart, BlocksTaught, HandTaught, HandCame
  <1>10. q.digest \in 0..answers'
    BY <1>1, <1>3, <1>5
  <1>11. \A b \in ReadBlocks : b \in exposed /\ \E d \in 1..answers' : LearntOf(b) = All(b, d)
    BY <1>1, <1>5 DEF BlockInHand, HandApart, BlocksTaught, HandTaught, HandCame
  <1>12. BlockInHand'
    <2>1. HandApart'
      BY <1>3, <1>4, <1>6, <1>10 DEF BlockInHand, HandApart
    <2>2. BlocksTaught'
      BY <1>1, <1>3, <1>4, <1>8, <1>11 DEF BlockInHand, BlocksTaught
    <2>3. HandTaught'
      BY <1>1, <1>3, <1>4, <1>9 DEF BlockInHand, HandTaught
    <2>4. HandCame'
      BY <1>1, <1>3, <1>9 DEF BlockInHand, HandCame
    <2> QED BY <2>1, <2>2, <2>3, <2>4 DEF BlockInHand
  <1> QED BY <1>1, <1>2, <1>3, <1>12

LEMMA BlockRemembered ==
    ASSUME JobTyped, RunnerInStep, BlockInHand, RememberBlock
    PROVE  BlockInHand' /\ UNCHANGED ckpt
  <1> DEFINE p == ckpt.pending
             k == <<p.block, p.digest, at.item + 1>>
  <1>1. /\ job.status = "running" /\ mine = ckpt /\ p # None /\ p.digest > 0
        /\ at.step = "recorded" /\ at.item < Items
        /\ learnt' = learnt \cup {k} /\ at'.step = "recorded" /\ at'.item = at.item + 1
        /\ UNCHANGED <<job, ckpt, pageText, exposed, answers>>
    <2>1. job.status = "running" /\ mine = ckpt
      BY StepKind DEF BlockStep, RunnerInStep
    <2>2. at' = [at EXCEPT !.item = @ + 1] /\ at.step = "recorded"
      BY DEF RememberBlock
    <2>3. at'.step = "recorded" /\ at'.item = at.item + 1
      BY <2>2, PlaceAfter
    <2> QED BY <2>1, <2>3 DEF RememberBlock, Pending
  <1>2. ReadBlocks' = ReadBlocks
    BY <1>1 DEF ReadBlocks
  <1>3. at.item \in Nat /\ at.item + 1 \in 1..Items
    BY <1>1, ItemTyped, NextItem
  <1>4. p.block \notin ReadBlocks
    BY DEF BlockInHand, HandApart, BlocksTaught, HandTaught, HandCame
  <1>5. \A b \in ReadBlocks : LearntOf(b)' = LearntOf(b)
    BY <1>1, <1>4 DEF LearntOf
  <1>6. LearntOf(p.block)' = LearntOf(p.block) \cup {k}
    BY <1>1 DEF LearntOf
  <1>7. k \in All(p.block, p.digest)
    BY <1>3 DEF All
  <1>8. \A i \in 1..at'.item : <<p.block, p.digest, i>> \in learnt'
    <2> SUFFICES ASSUME NEW i \in 1..at'.item PROVE <<p.block, p.digest, i>> \in learnt'
      OBVIOUS
    <2>1. i = at.item + 1 \/ i \in 1..at.item
      BY <1>1, <1>3
    <2> QED BY <1>1, <2>1 DEF BlockInHand, HandApart, BlocksTaught, HandTaught, HandCame
  <1>9. \A b : \A d : All(b, d)' = All(b, d)
    BY DEF All
  <1>10. p.digest # 0
    BY <1>1
  <1> QED
    <2>1. HandApart'
      BY <1>1, <1>2 DEF BlockInHand, HandApart
    <2>2. BlocksTaught'
      BY <1>1, <1>2, <1>5, <1>9 DEF BlockInHand, BlocksTaught
    <2>3. HandTaught'
      BY <1>1, <1>2, <1>6, <1>7, <1>9, <1>10 DEF BlockInHand, HandTaught
    <2>4. HandCame'
      BY <1>1, <1>8, <1>10 DEF BlockInHand, HandCame
    <2> QED BY <1>1, <2>1, <2>2, <2>3, <2>4 DEF BlockInHand

\* The block in hand was taught whole, or there was none to teach.
LEMMA BlockFinished ==
    ASSUME JobTyped, RunnerInStep, BlockInHand, FinishBlock,
           ckpt'.pending = None,
           ReadBlocks' = IF ckpt.pending.block = <<>> THEN ReadBlocks
                         ELSE ReadBlocks \cup {ckpt.pending.block}
    PROVE  BlockInHand'
  <1> DEFINE p == ckpt.pending
  <1>1. /\ job.status = "running" /\ mine = ckpt /\ p # None
        /\ p.block # <<>> => at.step = "recorded" /\ at.item = Items
        /\ at'.step = "" /\ UNCHANGED <<job, pageText, exposed, learnt, answers>>
    <2>1. job.status = "running" /\ mine = ckpt
      BY StepKind DEF BlockStep, RunnerInStep
    <2>2. at'.step = ""
      BY PlaceAfter DEF FinishBlock, Steps
    <2>3. UNCHANGED <<job, pageText, exposed, learnt, answers>>
      BY DEF FinishBlock, traces
    <2>4. p # None /\ (p.block # <<>> => at.step = "recorded" /\ at.item = Items)
      BY <2>1, Zenon DEF FinishBlock, Pending
    <2> QED BY <2>1, <2>2, <2>3, <2>4
  <1>2. \A b : LearntOf(b)' = LearntOf(b) /\ \A d : All(b, d)' = All(b, d)
    BY <1>1 DEF LearntOf, All
  <1>3. p.block # None.block /\ None.block # <<>> /\ None.block # Judgement /\ None.digest = 0
    BY <1>1 DEF BlockInHand, HandApart, None, Judgement
  <1>4. LearntOf(None.block) = {}
    <2> SUFFICES ASSUME NEW k \in learnt, k[1] = None.block PROVE FALSE
      BY DEF LearntOf
    <2> QED BY <1>3 DEF BlockInHand, HandApart, BlocksTaught, HandTaught, HandCame
  <1>5. p.block # <<>> =>
            p.block \in exposed /\ \E d \in 1..answers : LearntOf(p.block) = All(p.block, d)
    <2> SUFFICES ASSUME p.block # <<>>
                 PROVE  p.block \in exposed /\ \E d \in 1..answers : LearntOf(p.block) = All(p.block, d)
      OBVIOUS
    <2>0. at.item = Items /\ at.step = "recorded"
      BY <1>1
    <2>1. p.block \in exposed /\ (p.digest = 0 => Items = 0)
      BY <1>1, <2>0 DEF BlockInHand, HandCame
    <2>2. p.digest # 0 /\ p.digest \in 0..answers
      BY <2>1, Constants DEF BlockInHand, HandApart, BlocksTaught, HandTaught, HandCame
    <2>3. p.digest \in Nat /\ answers \in Nat
      <3>1. ckpt \in PageCheckpoint \/ ckpt \in SourcesCheckpoint
        <4>1. job.kind = "page" \/ job.kind = "sources"
          BY StepKind DEF BlockStep
        <4> QED BY <4>1, CheckpointOf, Zenon DEF JobTyped
      <3> QED BY <3>1 DEF PageCheckpoint, SourcesCheckpoint, InHand, JobTyped
    <2>4. p.digest \in 1..answers
      BY <2>2, <2>3
    <2>5. All(p.block, p.digest) \subseteq LearntOf(p.block)
      <3>1. \A i \in 1..Items : <<p.block, p.digest, i>> \in learnt
        BY <1>1, <2>0 DEF BlockInHand, HandCame
      <3> QED BY <3>1 DEF All, LearntOf
    <2>6. LearntOf(p.block) = All(p.block, p.digest)
      BY <2>5 DEF BlockInHand, HandApart, BlocksTaught, HandTaught, HandCame
    <2> QED BY <2>1, <2>4, <2>6
  <1>6. p.block = <<>> => LearntOf(p.block) = {}
    BY DEF BlockInHand, HandApart, BlocksTaught, HandTaught, HandCame
  <1>7. \A k \in learnt : k[1] \in ReadBlocks' \cup {None.block, Judgement}
    <2> SUFFICES ASSUME NEW k \in learnt PROVE k[1] \in ReadBlocks' \cup {None.block, Judgement}
      OBVIOUS
    <2>1. k[1] \in ReadBlocks \cup {p.block, Judgement}
      BY DEF BlockInHand, HandApart, BlocksTaught, HandTaught, HandCame
    <2>2. k[1] = p.block => p.block # <<>>
      BY <1>6 DEF LearntOf
    <2> QED BY <2>1, <2>2
  <1>8. exposed \subseteq ReadBlocks'
    BY DEF BlockInHand, HandApart, BlocksTaught, HandTaught, HandCame
  <1>9. /\ None.block \notin ReadBlocks' /\ <<>> \notin ReadBlocks' /\ Judgement \notin ReadBlocks'
        /\ \A b \in ReadBlocks' : b \in exposed /\ \E d \in 1..answers : LearntOf(b) = All(b, d)
    BY <1>3, <1>5 DEF BlockInHand, HandApart, BlocksTaught, HandTaught, HandCame
  <1>10. answers \in Nat
    BY DEF JobTyped
  <1> QED
    <2>0. 0 \in 0..answers
      BY <1>10
    <2>1. HandApart'
      BY <1>1, <1>3, <1>9, <2>0 DEF HandApart
    <2>2. BlocksTaught'
      BY <1>1, <1>2, <1>8, <1>9 DEF BlocksTaught
    <2>3. HandTaught'
      BY <1>1, <1>2, <1>4, <1>7 DEF HandTaught
    <2>4. HandCame'
      BY <1>1 DEF HandCame
    <2> QED BY <2>1, <2>2, <2>3, <2>4 DEF BlockInHand

\* A block that nothing is known of is taken in hand.
LEMMA BlockTaken ==
    ASSUME BlockInHand, ckpt.pending = None, ReadBlocks' = ReadBlocks,
           NEW b, ckpt'.pending.block = b, ckpt'.pending.digest = 0,
           b # None.block, b # Judgement, b \notin ReadBlocks,
           UNCHANGED <<exposed, learnt, answers, job, at>>, answers \in Nat,
           job.status = "running", at.step = ""
    PROVE  BlockInHand'
  <1>1. \A c : LearntOf(c)' = LearntOf(c) /\ \A d : All(c, d)' = All(c, d)
    BY DEF LearntOf, All
  <1>2. \A k \in learnt : k[1] \in ReadBlocks \cup {None.block, Judgement}
    BY DEF BlockInHand, HandApart, BlocksTaught, HandTaught, HandCame
  <1>3. \A k \in learnt : k[1] # None.block
    <2>1. None.digest = 0
      BY DEF None
    <2>2. LearntOf(None.block) = {}
      BY <2>1 DEF BlockInHand, HandApart, BlocksTaught, HandTaught, HandCame
    <2> QED BY <2>2 DEF LearntOf
  <1>4. LearntOf(b) = {}
    BY <1>2, <1>3 DEF LearntOf
  <1>5. exposed \subseteq ReadBlocks
    BY DEF BlockInHand, HandApart, BlocksTaught, HandTaught, HandCame
  <1>a. 0 \in 0..answers
    BY NoAnswer, Zenon
  <1> HIDE DEF None, Judgement
  <1>7. HandApart'
    BY <1>a DEF BlockInHand, HandApart
  <1>8. BlocksTaught'
    BY <1>1, <1>5 DEF BlockInHand, BlocksTaught
  <1>9. HandTaught'
    BY <1>1, <1>2, <1>3, <1>4 DEF HandTaught
  <1>10. HandCame'
    BY DEF HandCame
  <1> QED BY <1>7, <1>8, <1>9, <1>10 DEF BlockInHand

LEMMA RecordedInHand ==
    ASSUME BlockInHand, job.status = "running", ckpt.pending = None
    PROVE  at.step # "recorded"
  BY DEF BlockInHand, HandApart, BlocksTaught, HandCame

-----------------------------------------------------------------------------
(* The other work: a page *)

LEMMA PageAfterBlock ==
    ASSUME JobTyped, RunnerInStep, PageInv, BlockStep, job.kind = "page"
    PROVE  PageInv'
  <1>a. /\ BlockInHand /\ PageRead /\ job.status = "running" /\ mine = ckpt
        /\ at.text = pageText /\ at.step \in {"", "recorded"} /\ ckpt \in PageCheckpoint
    BY StepKind, CheckpointOf DEF PageInv, JobTyped, RunnerInStep
  <1>b. UNCHANGED <<job, pageText>>
    BY DEF BlockStep, RecordBlock, DigestBlock, RememberBlock, FinishBlock
  <1>1. CASE RecordBlock
    <2>1. at'.text = at.text /\ at'.step = "recorded"
      BY <1>1, PlaceAfter DEF RecordBlock, Onward, Steps
    <2>2. BlockInHand' /\ UNCHANGED ckpt
      BY <1>1, <1>a, BlockRecorded
    <2> QED BY <1>a, <1>b, <2>1, <2>2 DEF PageInv, PageRead
  <1>2. CASE DigestBlock
    <2>1. /\ BlockInHand' /\ ckpt' = [ckpt EXCEPT !.pending.digest = answers + 1]
          /\ ckpt.pending # None /\ ckpt'.pending.block = ckpt.pending.block
          /\ UNCHANGED at
      BY <1>2, <1>a, BlockDigested
    <2>2. ckpt'.cursor = ckpt.cursor
      BY <1>a, <2>1 DEF PageCheckpoint
    <2> QED BY <1>a, <1>b, <2>1, <2>2 DEF PageInv, PageRead
  <1>3. CASE RememberBlock
    <2>1. at' = [at EXCEPT !.item = @ + 1]
      BY <1>3 DEF RememberBlock
    <2>2. at'.text = at.text /\ at'.step = at.step
      BY <2>1 DEF JobTyped, Places
    <2>3. BlockInHand' /\ UNCHANGED ckpt
      BY <1>3, <1>a, BlockRemembered
    <2> QED BY <1>a, <1>b, <2>2, <2>3 DEF PageInv, PageRead
  <1>4. CASE FinishBlock
    <2>1. at'.text = at.text /\ at'.step = ""
      BY <1>4, PlaceAfter DEF FinishBlock, Steps
    <2>2. ckpt' = [[ckpt EXCEPT !.cursor = @ + 1, !.pending = None] EXCEPT
                     !.profile = ckpt.pending.digest]
      <3>1. Saved([Behind EXCEPT !.profile = mine.pending.digest])
        BY <1>4 DEF FinishBlock
      <3> QED BY <1>a, <3>1, SavedBoth DEF Behind
    <2>3. ckpt'.cursor = ckpt.cursor + 1 /\ ckpt'.pending = None
      BY <1>a, <2>2 DEF PageCheckpoint
    <2>4. /\ ckpt.pending # None /\ ckpt.cursor \in Nat /\ pageText # 0
          /\ ckpt.pending.block = <<"page", pageText, ckpt.cursor + 1>>
          /\ ckpt.cursor < PageLength[pageText]
      <3>1. ckpt.pending # None
        BY <1>a, <1>4 DEF FinishBlock, Pending
      <3> QED BY <1>a, <3>1 DEF PageRead, PageCheckpoint
    <2>5. PageLength[pageText] \in Nat
      <3>1. pageText \in Versions
        BY <2>4 DEF JobTyped, Texts
      <3> QED BY <3>1, JobConstants
    <2>6. 1..(ckpt.cursor + 1) = 1..ckpt.cursor \cup {ckpt.cursor + 1}
      BY <2>4
    <2>7. ReadBlocks' = ReadBlocks \cup {ckpt.pending.block}
      BY <1>b, <2>3, <2>4, <2>6 DEF ReadBlocks
    <2>a. ckpt.pending.block # <<>>
      BY <2>4
    <2>8. BlockInHand'
      BY <1>4, <1>a, <2>3, <2>a, <2>7, BlockFinished
    <2>9. ckpt'.cursor <= PageLength[pageText]
      BY <2>3, <2>4, <2>5
    <2> QED BY <1>a, <1>b, <2>1, <2>3, <2>4, <2>8, <2>9 DEF PageInv, PageRead
  <1> QED BY <1>1, <1>2, <1>3, <1>4 DEF BlockStep

LEMMA PageAfter ==
    ASSUME JobTyped, RunnerInStep, PageInv, JobStep
    PROVE  PageInv'
  <1> SUFFICES ASSUME job.kind = "page", RunStep \/ BlockStep \/ PageStep PROVE PageInv'
    BY JobSteps, StepKind, KindStays DEF PageInv
  <1>a. /\ BlockInHand /\ PageRead /\ ckpt \in PageCheckpoint /\ answers \in Nat
        /\ ckpt.cursor \in Nat /\ job'.kind = "page"
        /\ job.status = "running" => at.text = pageText /\ at.step \in {"", "recorded"} /\ mine = ckpt
    BY CheckpointOf, KindStays DEF PageInv, JobTyped, RunnerInStep, PageCheckpoint
  <1>1. CASE RunStep
    <2>1. /\ UNCHANGED <<ckpt, pageText, exposed, learnt, answers>>
          /\ job'.status # "completed"
          /\ job'.status = "running" => at'.step = "" /\ at'.text = pageText
      BY <1>1, RunAfter
    <2>2. ReadBlocks' = ReadBlocks
      BY <1>a, <2>1, ReadBlocksStay
    <2>4. BlockInHand'
      BY <1>a, <2>1, <2>2, BlockRests
    <2> QED BY <1>a, <2>1, <2>4 DEF PageInv, PageRead
  <1>2. CASE BlockStep
    BY <1>2, PageAfterBlock
  <1>3. CASE FetchPage
    <2>0. job.status = "running" /\ mine.pending = None /\ at.text = 0
      BY <1>3 DEF FetchPage, Doing
    <2>a. mine = ckpt /\ ckpt.pending = None /\ pageText = 0
      BY <1>a, <2>0
    <2>1. /\ job.status = "running" /\ mine = ckpt /\ ckpt.pending = None /\ pageText = 0
          /\ ckpt.cursor = 0
      <3>1. ~ (ckpt.cursor > 0)
        BY <1>a, <2>a DEF PageRead
      <3>2. \A n \in Nat : ~ (n > 0) => n = 0
        OBVIOUS
      <3> QED BY <1>a, <2>0, <2>a, <3>1, <3>2, Zenon
    <2>2. /\ pageText' \in Versions /\ at' = [at EXCEPT !.text = pageText']
          /\ UNCHANGED <<job, ckpt, exposed, learnt, answers>>
      BY <1>3, <2>1 DEF FetchPage, SourceKept, traces
    <2>3. at'.text = pageText' /\ at'.step = at.step /\ at'.item = at.item
      BY <2>2 DEF JobTyped, Places
    <2>4. ReadBlocks' = ReadBlocks
      BY <1>a, <2>1, <2>2, ReadBlocksStay
    <2>6. BlockInHand'
      BY <1>a, <2>1, <2>2, <2>3, <2>4, BlockRests
    <2>7. pageText' # 0 /\ 0 <= PageLength[pageText']
      BY <2>2, JobConstants
    <2> QED BY <1>a, <2>1, <2>2, <2>3, <2>6, <2>7 DEF PageInv, PageRead
  <1>4. CASE CutBlock
    <2> DEFINE b == <<"page", pageText, ckpt.cursor + 1>>
    <2>1. /\ job.status = "running" /\ mine = ckpt /\ ckpt.pending = None /\ pageText # 0
          /\ ckpt.cursor < PageLength[pageText] /\ at.text = pageText
          /\ UNCHANGED <<job, pageText, at, exposed, learnt, answers>>
      <3>1. /\ job.status = "running" /\ mine.pending = None /\ at.text > 0
            /\ mine.cursor < PageLength[at.text]
            /\ UNCHANGED <<job, pageText, at, exposed, learnt, answers>>
        BY <1>4 DEF CutBlock, Doing, traces
      <3>2. mine = ckpt /\ at.text = pageText
        BY <1>a, <3>1
      <3>3. 0 # at.text
        BY <3>1
      <3> QED BY <3>1, <3>2, <3>3
    <2>2. ckpt' = [ckpt EXCEPT !.pending = [block |-> b, digest |-> 0]]
      BY <1>4, <2>1, SavedBoth DEF CutBlock
    <2>3. /\ ckpt'.cursor = ckpt.cursor /\ ckpt'.pending.block = b /\ ckpt'.pending.digest = 0
      BY <1>a, <2>2 DEF PageCheckpoint
    <2>4. ReadBlocks' = ReadBlocks
      BY <1>a, <2>1, <2>3, ReadBlocksStay
    <2>5. b # None.block /\ b # Judgement
      BY DEF None, Judgement
    <2>6. b \notin ReadBlocks
      <3>1. ckpt.cursor + 1 \notin 1..ckpt.cursor
        <4>1. \A n \in Nat : n + 1 \notin 1..n
          OBVIOUS
        <4> QED BY <1>a, <4>1, Zenon
      <3> QED BY <3>1 DEF ReadBlocks
    <2>7. at.step = ""
      BY <1>a, <2>1, RecordedInHand
    <2>8. BlockInHand'
      BY <1>a, <2>1, <2>3, <2>4, <2>5, <2>6, <2>7, BlockTaken
    <2> QED BY <1>a, <2>1, <2>3, <2>8 DEF PageInv, PageRead
  <1>5. CASE EndPage
    <2>1. /\ job.status = "running" /\ mine = ckpt /\ ckpt.pending = None /\ pageText # 0
          /\ ckpt.cursor >= PageLength[pageText]
          /\ UNCHANGED <<ckpt, pageText, at, exposed, learnt, answers>>
      <3>1. /\ job.status = "running" /\ mine.pending = None /\ at.text > 0
            /\ mine.cursor >= PageLength[at.text]
            /\ UNCHANGED <<ckpt, pageText, at, exposed, learnt, answers>>
        BY <1>5 DEF EndPage, Doing, traces
      <3>2. mine = ckpt /\ at.text = pageText
        BY <1>a, <3>1
      <3>3. 0 # at.text
        BY <3>1
      <3> QED BY <3>1, <3>2, <3>3
    <2>2. job'.status = "completed"
      BY <1>5, EndJobAfter DEF EndPage
    <2>3. ReadBlocks' = ReadBlocks
      BY <1>a, <2>1, ReadBlocksStay
    <2>5. BlockInHand'
      BY <1>a, <2>1, <2>2, <2>3, BlockRests
    <2>6. pageText \in Versions /\ PageLength[pageText] \in Nat
      BY <2>1, JobConstants DEF JobTyped, Texts
    <2>7. ckpt.cursor = PageLength[pageText]
      <3>1. ckpt.cursor <= PageLength[pageText]
        BY <1>a, <2>1 DEF PageRead
      <3>2. \A m, n \in Nat : m <= n /\ m >= n => m = n
        OBVIOUS
      <3> QED BY <1>a, <2>1, <2>6, <3>1, <3>2, Zenon
    <2> QED BY <1>a, <2>1, <2>2, <2>5, <2>7 DEF PageInv, PageRead
  <1> QED BY <1>1, <1>2, <1>3, <1>4, <1>5 DEF PageStep

-----------------------------------------------------------------------------
(* The other work: an exploration *)

\* Before the judgement there is nothing of one.
LEMMA Unjudged ==
    ASSUME topics' = {}, LearntOf(Judgement)' = {}, ckpt'.phase # "completed"
    PROVE  SourcesJudged'
  BY DEF SourcesJudged, JudgedOnce

LEMMA ReadingUnjudged ==
    ASSUME SourcesJudged, ckpt.phase \in {"searching", "reading_results", "summarizing"}
    PROVE  topics = {} /\ LearntOf(Judgement) = {}
  BY DEF SourcesJudged

LEMMA SourcesReadStays ==
    ASSUME SourcesRead, job.kind = "sources", job'.kind = "sources", ckpt'.findings = ckpt.findings,
           ckpt'.cursor = ckpt.cursor,
           \/ ckpt'.pending = ckpt.pending /\ ckpt'.phase = ckpt.phase
           \/ ckpt'.pending = None
           \/ /\ ckpt'.phase = "reading_results"
              /\ ckpt'.pending.block \in ({"text", "snippet"} \X {0} \X {ckpt.cursor + 1}) \cup {<<>>}
    PROVE  SourcesRead' /\ ReadBlocks' = ReadBlocks
  <1>1. ReadBlocks' = ReadBlocks
    BY DEF ReadBlocks
  <1>2. (1..ckpt.cursor)' = 1..ckpt.cursor
    OBVIOUS
  <1> QED BY <1>1 DEF SourcesRead

LEMMA SourcesAfterBlock ==
    ASSUME JobTyped, RunnerInStep, SourcesInv, BlockStep, job.kind = "sources"
    PROVE  SourcesInv'
  <1>a. /\ BlockInHand /\ SourcesRead /\ SourcesJudged /\ SourcesCame /\ ckpt \in SourcesCheckpoint
        /\ job.status = "running" /\ mine = ckpt
    BY StepKind, CheckpointOf DEF SourcesInv, JobTyped, RunnerInStep
  <1>b. UNCHANGED <<job, topics>> /\ mine.pending # None
    BY DEF BlockStep, RecordBlock, DigestBlock, RememberBlock, FinishBlock, Pending, traces
  <1>c. /\ ckpt.phase = "reading_results" /\ topics = {} /\ LearntOf(Judgement) = {}
        /\ ckpt.pending.block # Judgement
        /\ ckpt.pending.block \in ({"text", "snippet"} \X {0} \X {ckpt.cursor + 1}) \cup {<<>>}
    <2>1. ckpt.phase = "reading_results"
          /\ ckpt.pending.block \in ({"text", "snippet"} \X {0} \X {ckpt.cursor + 1}) \cup {<<>>}
      BY <1>a, <1>b DEF SourcesRead
    <2>2. ckpt.pending.block # Judgement
      BY <1>a DEF BlockInHand, HandApart
    <2> QED BY <1>a, <2>1, <2>2, ReadingUnjudged
  <1>1. CASE RecordBlock
    <2>1. at'.step = "recorded" /\ UNCHANGED learnt
      BY <1>1, PlaceAfter DEF RecordBlock, Onward, Steps
    <2>2. BlockInHand' /\ UNCHANGED ckpt
      BY <1>1, <1>a, BlockRecorded
    <2>3. LearntOf(Judgement)' = {}
      BY <1>c, <2>1 DEF LearntOf
    <2>4. SourcesRead'
      BY <1>a, <1>b, <2>2, SourcesReadStays
    <2>5. SourcesJudged'
      BY <1>b, <1>c, <2>2, <2>3, Unjudged
    <2>6. SourcesCame'
      BY <1>c, <2>1, <2>2 DEF SourcesCame
    <2> QED BY <2>2, <2>4, <2>5, <2>6 DEF SourcesInv
  <1>2. CASE DigestBlock
    <2>1. /\ BlockInHand' /\ ckpt' = [ckpt EXCEPT !.pending.digest = answers + 1]
          /\ ckpt.pending # None /\ ckpt'.pending.block = ckpt.pending.block
          /\ UNCHANGED <<at, learnt>>
      BY <1>2, <1>a, BlockDigested
    <2>2. ckpt'.cursor = ckpt.cursor /\ ckpt'.findings = ckpt.findings /\ ckpt'.phase = ckpt.phase
      BY <1>a, <2>1 DEF SourcesCheckpoint
    <2>3. LearntOf(Judgement)' = {}
      BY <1>c, <2>1 DEF LearntOf
    <2>4. SourcesRead'
      BY <1>a, <1>b, <1>c, <2>1, <2>2, SourcesReadStays
    <2>5. SourcesJudged'
      BY <1>b, <1>c, <2>2, <2>3, Unjudged
    <2>6. at.step = "recorded"
      BY <1>2 DEF DigestBlock
    <2>7. SourcesCame'
      BY <1>c, <2>1, <2>2, <2>6 DEF SourcesCame
    <2> QED BY <2>1, <2>4, <2>5, <2>7 DEF SourcesInv
  <1>3. CASE RememberBlock
    <2>1. at' = [at EXCEPT !.item = @ + 1] /\ at.step = "recorded"
          /\ learnt' = learnt \cup {<<ckpt.pending.block, ckpt.pending.digest, at.item + 1>>}
      BY <1>a, <1>3 DEF RememberBlock
    <2>2. at'.step = "recorded"
      BY <2>1 DEF JobTyped, Places
    <2>3. BlockInHand' /\ UNCHANGED ckpt
      BY <1>3, <1>a, BlockRemembered
    <2>4. LearntOf(Judgement)' = {}
      BY <1>c, <2>1 DEF LearntOf
    <2>5. SourcesRead'
      BY <1>a, <1>b, <2>3, SourcesReadStays
    <2>6. SourcesJudged'
      BY <1>b, <1>c, <2>3, <2>4, Unjudged
    <2>7. SourcesCame'
      BY <1>c, <2>2, <2>3 DEF SourcesCame
    <2> QED BY <2>3, <2>5, <2>6, <2>7 DEF SourcesInv
  <1>4. CASE FinishBlock
    <2> DEFINE b == ckpt.pending.block
               F == ckpt.findings
    <2>1. at'.step = "" /\ UNCHANGED learnt
      BY <1>4, PlaceAfter DEF FinishBlock, Steps, traces
    <2>2. F \in Seq(Said) /\ ckpt.cursor \in Nat /\ b \in Said /\ ReadBlocks = {F[i] : i \in DOMAIN F}
      BY <1>a DEF SourcesCheckpoint, InHand, ReadBlocks
    <2>3. /\ Behind.cursor = ckpt.cursor + 1 /\ Behind.pending = None /\ Behind.findings = F
          /\ Behind.phase = ckpt.phase
          /\ \A G : [Behind EXCEPT !.findings = G].cursor = ckpt.cursor + 1
          /\ \A G : [Behind EXCEPT !.findings = G].pending = None
          /\ \A G : [Behind EXCEPT !.findings = G].findings = G
          /\ \A G : [Behind EXCEPT !.findings = G].phase = ckpt.phase
      BY <1>a DEF Behind, SourcesCheckpoint
    <2>4. Saved(IF b = <<>> THEN Behind ELSE [Behind EXCEPT !.findings = Append(F, b)])
      <3>1. [Behind EXCEPT !.findings = Append(@, b)] = [Behind EXCEPT !.findings = Append(F, b)]
        BY <2>3
      <3> QED BY <1>4, <1>a, <3>1 DEF FinishBlock
    <2>5. /\ ckpt'.cursor = ckpt.cursor + 1 /\ ckpt'.pending = None /\ ckpt'.phase = "reading_results"
          /\ ckpt'.findings = IF b = <<>> THEN F ELSE Append(F, b)
      <3>1. CASE b = <<>>
        <4>1. Saved(Behind)
          BY <2>4, <3>1
        <4>2. ckpt' = Behind
          BY <4>1, SavedBoth
        <4> QED BY <1>c, <2>3, <3>1, <4>2
      <3>2. CASE b # <<>>
        <4>1. Saved([Behind EXCEPT !.findings = Append(F, b)])
          BY <2>4, <3>2
        <4>2. ckpt' = [Behind EXCEPT !.findings = Append(F, b)]
          BY <4>1, SavedBoth
        <4> QED BY <1>c, <2>3, <3>2, <4>2
      <3> QED BY <3>1, <3>2
    <2>6. ReadBlocks' = IF b = <<>> THEN ReadBlocks ELSE ReadBlocks \cup {b}
      <3>1. CASE b = <<>>
        BY <1>b, <2>2, <2>5, <3>1 DEF ReadBlocks
      <3>2. CASE b # <<>>
        <4>1. /\ Len(Append(F, b)) = Len(F) + 1 /\ Append(F, b) \in Seq(Said)
              /\ \A i \in 1..Len(F) : Append(F, b)[i] = F[i]
              /\ Append(F, b)[Len(F) + 1] = b
          BY <2>2, AppendProperties
        <4>2. DOMAIN Append(F, b) = 1..(Len(F) + 1) /\ DOMAIN F = 1..Len(F) /\ Len(F) \in Nat
          BY <2>2, <4>1
        <4>3. 1..(Len(F) + 1) = 1..Len(F) \cup {Len(F) + 1}
          BY <4>2
        <4>4. {Append(F, b)[i] : i \in DOMAIN Append(F, b)} = {F[i] : i \in DOMAIN F} \cup {b}
          BY <4>1, <4>2, <4>3
        <4>5. ReadBlocks' = {Append(F, b)[i] : i \in DOMAIN Append(F, b)}
          BY <1>b, <2>5, <3>2 DEF ReadBlocks
        <4> QED BY <2>2, <3>2, <4>4, <4>5
      <3> QED BY <3>1, <3>2
    <2>7. BlockInHand'
      BY <1>4, <1>a, <2>5, <2>6, BlockFinished
    <2>8. SourcesRead'
      <3>1. 1..ckpt.cursor \subseteq 1..(ckpt.cursor + 1) /\ ckpt.cursor + 1 \in 1..(ckpt.cursor + 1)
        BY <2>2
      <3>2. \A c \in ReadBlocks' : c \in {"text", "snippet"} \X {0} \X (1..(ckpt.cursor + 1))
        <4>1. \A c \in ReadBlocks : c \in {"text", "snippet"} \X {0} \X (1..(ckpt.cursor + 1))
          BY <1>a, <3>1 DEF SourcesRead
        <4>2. b # <<>> => b \in {"text", "snippet"} \X {0} \X (1..(ckpt.cursor + 1))
          BY <1>c, <3>1
        <4> QED BY <2>6, <4>1, <4>2
      <3>3. IsFiniteSet(ReadBlocks') /\ Cardinality(ReadBlocks') = Len(ckpt'.findings)
        <4>1. IsFiniteSet(ReadBlocks) /\ Cardinality(ReadBlocks) = Len(F) /\ b \notin ReadBlocks
          BY <1>a DEF SourcesRead, BlockInHand, HandApart
        <4>2. IsFiniteSet(ReadBlocks \cup {b})
              /\ Cardinality(ReadBlocks \cup {b}) = Cardinality(ReadBlocks) + 1
          BY <4>1, FS_AddElement
        <4>3. Len(Append(F, b)) = Len(F) + 1
          BY <2>2, AppendProperties
        <4> QED BY <2>5, <2>6, <4>1, <4>2, <4>3
      <3> QED BY <2>5, <3>2, <3>3 DEF SourcesRead
    <2>9. SourcesJudged'
      <3>1. LearntOf(Judgement)' = {}
        BY <1>c, <2>1 DEF LearntOf
      <3> QED BY <1>b, <1>c, <2>5, <3>1, Unjudged
    <2>10. SourcesCame'
      BY <2>1, <2>5 DEF SourcesCame
    <2> QED BY <2>7, <2>8, <2>9, <2>10 DEF SourcesInv
  <1> QED BY <1>1, <1>2, <1>3, <1>4 DEF BlockStep

\* A step of an exploration outside of its blocks: what it does to the checkpoint.
LEMMA SourcesSteps ==
    ASSUME JobTyped, RunnerInStep, SourcesInv, job.kind = "sources"
    PROVE  /\ ckpt \in SourcesCheckpoint /\ BlockInHand /\ SourcesRead /\ SourcesJudged /\ SourcesCame
           /\ job.status = "running" => mine = ckpt
           /\ answers \in Nat /\ at.item \in Nat /\ at.item <= Items
           /\ ckpt.phase # "reading_results" => ckpt.pending = None
           /\ job.status = "running" /\ ckpt.pending = None => at.step \in {"", "sunk"}
           /\ \A p \in {"searching", "reading_results", "summarizing"} :
                job.status = "running" /\ ckpt.pending = None /\ ckpt.phase = p => at.step = ""
  <1>1. ckpt \in SourcesCheckpoint /\ BlockInHand /\ SourcesRead /\ SourcesJudged /\ SourcesCame
    BY CheckpointOf DEF SourcesInv, JobTyped
  <1>2. (job.status = "running" => mine = ckpt) /\ answers \in Nat /\ at.item \in Nat /\ at.item <= Items
    BY ItemTyped DEF JobTyped, RunnerInStep
  <1>3. ckpt.phase # "reading_results" => ckpt.pending = None
    BY <1>1 DEF SourcesRead
  <1>4. job.status = "running" /\ ckpt.pending = None => at.step \in {"", "sunk"}
    BY <1>1, RecordedInHand DEF SourcesCame
  <1> QED BY <1>1, <1>2, <1>3, <1>4 DEF SourcesCame

\* Before the judgement: a search, a source that is prepared, the end of the sources.
LEMMA SourcesGathered ==
    ASSUME JobTyped, RunnerInStep, SourcesInv, job.kind = "sources",
           Search \/ PrepareSource \/ EndSources
    PROVE  SourcesInv'
  <1>a. /\ ckpt \in SourcesCheckpoint /\ BlockInHand /\ SourcesRead /\ SourcesJudged /\ SourcesCame
        /\ answers \in Nat
    BY SourcesSteps
  <1>b. UNCHANGED <<job, exposed, learnt, topics, at, answers>> /\ job.status = "running"
    BY DEF Search, PrepareSource, EndSources, In, Doing, traces
  <1>c. mine = ckpt
    BY <1>b, SourcesSteps
  <1>d. /\ ckpt.phase \in {"searching", "reading_results", "summarizing"} /\ ckpt.pending = None
        /\ at.step = ""
    <2>1. CASE Search
      BY <1>b, <1>c, <2>1, SourcesSteps DEF Search, In
    <2>2. CASE PrepareSource
      BY <1>b, <1>c, <2>2, SourcesSteps DEF PrepareSource, In
    <2>3. CASE EndSources
      BY <1>b, <1>c, <2>3, SourcesSteps DEF EndSources, In
    <2> QED BY <2>1, <2>2, <2>3
  <1>e. topics = {} /\ LearntOf(Judgement)' = {}
    BY <1>a, <1>b, <1>d, ReadingUnjudged DEF LearntOf
  <1>1. CASE Search
    <2>1. PICK r \in Found : Saved([mine EXCEPT !.results = r, !.phase = "reading_results"])
      BY <1>1 DEF Search
    <2>2. ckpt' = [ckpt EXCEPT !.results = r, !.phase = "reading_results"]
      BY <1>c, <2>1, SavedBoth
    <2>3. /\ ckpt'.pending = None /\ ckpt'.cursor = ckpt.cursor /\ ckpt'.findings = ckpt.findings
          /\ ckpt'.phase = "reading_results"
      BY <1>a, <1>d, <2>2 DEF SourcesCheckpoint
    <2>4. SourcesRead' /\ ReadBlocks' = ReadBlocks
      BY <1>a, <1>b, <2>3, SourcesReadStays
    <2>5. BlockInHand'
      BY <1>a, <1>b, <1>d, <2>3, <2>4, BlockRests
    <2>6. SourcesJudged'
      BY <1>b, <1>e, <2>3, Unjudged
    <2>7. SourcesCame'
      BY <1>b, <1>d, <2>3 DEF SourcesCame
    <2> QED BY <2>4, <2>5, <2>6, <2>7 DEF SourcesInv
  <1>2. CASE PrepareSource
    <2>1. PICK said \in SaidBy(mine.results[mine.cursor + 1]) :
            Saved([mine EXCEPT !.pending =
                     [block |-> IF said = "" THEN <<>> ELSE <<said, 0, mine.cursor + 1>>,
                      digest |-> 0]])
      BY <1>2 DEF PrepareSource
    <2> DEFINE b == IF said = "" THEN <<>> ELSE <<said, 0, ckpt.cursor + 1>>
    <2>2. ckpt' = [ckpt EXCEPT !.pending = [block |-> b, digest |-> 0]]
      <3>1. ckpt' = [mine EXCEPT !.pending =
                       [block |-> IF said = "" THEN <<>> ELSE <<said, 0, mine.cursor + 1>>,
                        digest |-> 0]]
        BY <2>1, Zenon DEF Saved
      <3> QED BY <1>c, <3>1
    <2>3. /\ ckpt'.pending.block = b /\ ckpt'.pending.digest = 0 /\ ckpt'.cursor = ckpt.cursor
          /\ ckpt'.findings = ckpt.findings /\ ckpt'.phase = ckpt.phase
      BY <1>a, <2>2 DEF SourcesCheckpoint
    <2>4. ckpt.phase = "reading_results"
      BY <1>2, <1>c DEF PrepareSource, In
    <2>5. said \in {"", "text", "snippet"}
      BY DEF SaidBy
    <2>6. b \in ({"text", "snippet"} \X {0} \X {ckpt.cursor + 1}) \cup {<<>>}
      BY <2>5
    <2>7. SourcesRead' /\ ReadBlocks' = ReadBlocks
      BY <1>a, <1>b, <2>3, <2>4, <2>6, SourcesReadStays
    <2>8. b # None.block /\ b # Judgement /\ b \notin ReadBlocks
      <3>1. b # None.block /\ b # Judgement
        BY <2>6 DEF None, Judgement
      <3>2. <<>> \notin ReadBlocks
        BY <1>a DEF BlockInHand, HandApart
      <3>3. \A s : <<s, 0, ckpt.cursor + 1>> \notin ReadBlocks
        <4>1. ckpt.cursor + 1 \notin 1..ckpt.cursor
          <5>1. \A n \in Nat : n + 1 \notin 1..n
            OBVIOUS
          <5> QED BY <1>a, <5>1, Zenon DEF SourcesCheckpoint
        <4> QED BY <1>a, <4>1 DEF SourcesRead
      <3> QED BY <3>1, <3>2, <3>3
    <2>9. BlockInHand'
      BY <1>a, <1>b, <1>d, <2>3, <2>7, <2>8, BlockTaken
    <2>10. SourcesJudged'
      BY <1>b, <1>e, <2>3, <2>4, Unjudged
    <2>11. SourcesCame'
      BY <1>b, <1>d, <2>3, <2>4 DEF SourcesCame
    <2> QED BY <2>7, <2>9, <2>10, <2>11 DEF SourcesInv
  <1>3. CASE EndSources
    <2>2. ckpt' = [ckpt EXCEPT !.phase = "summarizing"]
      BY <1>3, <1>c, SavedBoth DEF EndSources
    <2>3. /\ ckpt'.pending = None /\ ckpt'.cursor = ckpt.cursor /\ ckpt'.findings = ckpt.findings
          /\ ckpt'.phase = "summarizing"
      BY <1>a, <1>d, <2>2 DEF SourcesCheckpoint
    <2>4. SourcesRead' /\ ReadBlocks' = ReadBlocks
      BY <1>a, <1>b, <2>3, SourcesReadStays
    <2>5. BlockInHand'
      BY <1>a, <1>b, <1>d, <2>3, <2>4, BlockRests
    <2>6. SourcesJudged'
      BY <1>b, <1>e, <2>3, Unjudged
    <2>7. SourcesCame'
      BY <1>b, <1>d, <2>3 DEF SourcesCame
    <2> QED BY <2>4, <2>5, <2>6, <2>7 DEF SourcesInv
  <1> QED BY <1>1, <1>2, <1>3

\* The judgement, and what is sunk of it.
LEMMA SourcesSunk ==
    ASSUME JobTyped, RunnerInStep, SourcesInv, job.kind = "sources",
           Summarize \/ SinkTopics \/ SinkKnowledge \/ EndSinking \/ EndExploration
    PROVE  SourcesInv'
  <1>a. /\ ckpt \in SourcesCheckpoint /\ BlockInHand /\ SourcesRead /\ SourcesJudged /\ SourcesCame
        /\ answers \in Nat /\ at.item \in Nat /\ at.item <= Items
    BY SourcesSteps
  <1>b. job.status = "running" /\ exposed' = exposed
    BY DEF Summarize, SinkTopics, SinkKnowledge, EndSinking, EndExploration, In, Doing, traces
  <1>c. mine = ckpt
    BY <1>b, SourcesSteps
  <1>d. ckpt.phase \in {"summarizing", "sinking", "completed"} /\ ckpt.pending = None
        /\ at.step \in {"", "sunk"}
    <2>1. mine.phase \in {"summarizing", "sinking", "completed"}
      BY DEF Summarize, SinkTopics, SinkKnowledge, EndSinking, EndExploration, In
    <2>2. ckpt.phase \in {"summarizing", "sinking", "completed"} /\ ckpt.phase # "reading_results"
      BY <1>c, <2>1
    <2> QED BY <1>b, <2>2, SourcesSteps
  <1>j. JudgedOnce
    BY <1>a DEF SourcesJudged
  <1>k. \A d : All(Judgement, d)' = All(Judgement, d)
    BY DEF All
  <1>1. CASE Summarize
    <2>1. PICK given \in BOOLEAN :
            /\ answers' = IF given THEN answers + 1 ELSE answers
            /\ Saved([mine EXCEPT !.phase = "sinking", !.judged = IF given THEN answers' ELSE 0])
      BY <1>1 DEF Summarize
    <2>2. ckpt' = [ckpt EXCEPT !.phase = "sinking", !.judged = IF given THEN answers' ELSE 0]
      BY <1>c, <2>1, SavedBoth
    <2>3. /\ ckpt'.pending = None /\ ckpt'.cursor = ckpt.cursor /\ ckpt'.findings = ckpt.findings
          /\ ckpt'.phase = "sinking"
      BY <1>a, <1>d, <2>2 DEF SourcesCheckpoint
    <2>4. UNCHANGED <<job, learnt, topics, at>> /\ mine.phase = "summarizing"
      BY <1>1 DEF Summarize, In, traces
    <2>5. SourcesRead' /\ ReadBlocks' = ReadBlocks
      BY <1>a, <2>3, <2>4, SourcesReadStays
    <2>6. answers' = answers \/ answers' = answers + 1
      BY <2>1
    <2>7. BlockInHand'
      BY <1>a, <1>b, <1>d, <2>3, <2>4, <2>5, <2>6, BlockRests
    <2>8. topics' = {} /\ LearntOf(Judgement)' = {}
      BY <1>a, <1>c, <2>4, ReadingUnjudged DEF LearntOf
    <2>9. SourcesJudged'
      BY <2>3, <2>8, Unjudged
    <2>10. at.step = ""
      BY <1>b, <1>c, <1>d, <2>4, SourcesSteps
    <2>11. SourcesCame'
      BY <2>3, <2>4, <2>10 DEF SourcesCame
    <2> QED BY <2>5, <2>7, <2>9, <2>11 DEF SourcesInv
  <1>2. CASE SinkTopics
    <2>1. UNCHANGED <<job, ckpt, learnt, answers>> /\ mine.phase = "sinking" /\ at.step = ""
          /\ (topics' = topics \/ topics' = topics \cup {mine.judged})
      BY <1>2 DEF SinkTopics, In, WithSubtopics
    <2>2. at'.step = "sunk" /\ at'.item = at.item
      BY <1>2, PlaceAfter DEF SinkTopics, Onward, Steps
    <2>3. at.item = 0
      BY <1>b, <2>1 DEF RunnerInStep
    <2>4. SourcesRead' /\ ReadBlocks' = ReadBlocks
      BY <1>a, <2>1, SourcesReadStays
    <2>5. BlockInHand'
      BY <1>a, <1>b, <1>d, <2>1, <2>2, <2>4, BlockRests
    <2>6. SourcesJudged'
      <3>1. topics' \subseteq {ckpt.judged}
        BY <1>c, <1>j, <2>1 DEF JudgedOnce
      <3>2. LearntOf(Judgement)' = LearntOf(Judgement)
        BY <2>1 DEF LearntOf
      <3> QED BY <1>c, <1>j, <1>k, <2>1, <3>1, <3>2 DEF SourcesJudged, JudgedOnce
    <2>7. SourcesCame'
      <3>1. 1..at'.item = {}
        BY <2>2, <2>3
      <3> QED BY <1>c, <2>1, <2>2, <3>1 DEF SourcesCame
    <2> QED BY <2>4, <2>5, <2>6, <2>7 DEF SourcesInv
  <1>3. CASE SinkKnowledge
    <2> DEFINE k == <<Judgement, ckpt.judged, at.item + 1>>
    <2>1. /\ UNCHANGED <<job, ckpt, topics, answers>> /\ mine.phase = "sinking" /\ at.step = "sunk"
          /\ learnt' = learnt \cup {k} /\ at.item < Items
          /\ at' = [at EXCEPT !.item = @ + 1]
      BY <1>3, <1>c DEF SinkKnowledge, In
    <2>2. at'.step = "sunk" /\ at'.item = at.item + 1
      BY <2>1 DEF JobTyped, Places
    <2>3. at.item + 1 \in 1..Items
      BY <1>a, <2>1, NextItem
    <2>4. SourcesRead' /\ ReadBlocks' = ReadBlocks
      BY <1>a, <2>1, SourcesReadStays
    <2>5. BlockInHand'
      <3>1. learnt \subseteq learnt' /\ \A l \in learnt' \ learnt : l[1] = Judgement
        BY <2>1
      <3>2. answers <= answers'
        BY <1>a, <2>1, Onwards, Zenon
      <3> QED BY <1>a, <1>b, <1>d, <2>1, <2>2, <2>4, <3>1, <3>2, BlockStays
    <2>6. SourcesJudged'
      <3>1. k \in All(Judgement, ckpt.judged)
        BY <2>3 DEF All
      <3>2. LearntOf(Judgement)' = LearntOf(Judgement) \cup {k}
        BY <2>1 DEF LearntOf
      <3>3. LearntOf(Judgement)' \subseteq All(Judgement, ckpt.judged)
        BY <1>j, <3>1, <3>2 DEF JudgedOnce
      <3> QED BY <1>c, <1>j, <1>k, <2>1, <3>3 DEF SourcesJudged, JudgedOnce
    <2>7. SourcesCame'
      <3>1. \A i \in 1..(at.item + 1) : i \in 1..at.item \/ i = at.item + 1
        BY <1>a
      <3>2. \A i \in 1..at.item : <<Judgement, ckpt.judged, i>> \in learnt \/ ckpt.judged = 0
        BY <1>a, <1>b, <2>1 DEF SourcesCame
      <3>3. \A i \in 1..(at.item + 1) : <<Judgement, ckpt.judged, i>> \in learnt' \/ ckpt.judged = 0
        BY <2>1, <3>1, <3>2
      <3> QED BY <1>c, <2>1, <2>2, <3>3 DEF SourcesCame
    <2> QED BY <2>4, <2>5, <2>6, <2>7 DEF SourcesInv
  <1>4. CASE EndSinking
    <2>1. /\ UNCHANGED <<job, learnt, topics, at, answers>> /\ ckpt.phase = "sinking"
          /\ at.step = "sunk" /\ (ckpt.judged = 0 \/ at.item = Items)
          /\ Saved([mine EXCEPT !.phase = "completed"])
      BY <1>4, <1>c DEF EndSinking, In, traces
    <2>2. ckpt' = [ckpt EXCEPT !.phase = "completed"]
      BY <1>c, <2>1, SavedBoth
    <2>3. /\ ckpt'.pending = None /\ ckpt'.cursor = ckpt.cursor /\ ckpt'.findings = ckpt.findings
          /\ ckpt'.phase = "completed" /\ ckpt'.judged = ckpt.judged
      BY <1>a, <1>d, <2>2 DEF SourcesCheckpoint
    <2>4. SourcesRead' /\ ReadBlocks' = ReadBlocks
      BY <1>a, <2>1, <2>3, SourcesReadStays
    <2>5. BlockInHand'
      BY <1>a, <1>b, <1>d, <2>1, <2>3, <2>4, BlockRests
    <2>6. \A i \in 1..at.item : <<Judgement, ckpt.judged, i>> \in learnt \/ ckpt.judged = 0
      BY <1>a, <1>b, <2>1 DEF SourcesCame
    <2>7. SourcesJudged'
      <3>1. LearntOf(Judgement)' = LearntOf(Judgement)
        BY <2>1 DEF LearntOf
      <3>2. ckpt.judged > 0 => LearntOf(Judgement) = All(Judgement, ckpt.judged)
        <4> SUFFICES ASSUME ckpt.judged > 0 PROVE All(Judgement, ckpt.judged) \subseteq LearntOf(Judgement)
          BY <1>j DEF JudgedOnce
        <4>1. ckpt.judged # 0
          BY <1>a DEF SourcesCheckpoint
        <4>2. \A i \in 1..Items : <<Judgement, ckpt.judged, i>> \in learnt
          BY <2>1, <2>6, <4>1
        <4> QED BY <4>2 DEF All, LearntOf
      <3> QED BY <1>j, <1>k, <2>1, <2>3, <3>1, <3>2 DEF SourcesJudged, JudgedOnce
    <2>8. SourcesCame'
      BY <2>1, <2>3, <2>6 DEF SourcesCame
    <2> QED BY <2>4, <2>5, <2>7, <2>8 DEF SourcesInv
  <1>5. CASE EndExploration
    <2>1. UNCHANGED <<ckpt, learnt, topics, at, answers>> /\ EndJob("completed")
      BY <1>5 DEF EndExploration, traces
    <2>2. job'.status = "completed" /\ job'.kind = job.kind
      BY <2>1, EndJobAfter
    <2>3. SourcesRead' /\ ReadBlocks' = ReadBlocks
      BY <1>a, <2>1, <2>2, SourcesReadStays
    <2>4. BlockInHand'
      BY <1>a, <1>b, <1>d, <2>1, <2>2, <2>3, BlockRests
    <2>5. SourcesJudged'
      <3>1. LearntOf(Judgement)' = LearntOf(Judgement)
        BY <2>1 DEF LearntOf
      <3> QED BY <1>a, <1>k, <2>1, <3>1 DEF SourcesJudged, JudgedOnce
    <2>6. SourcesCame'
      BY <2>2 DEF SourcesCame
    <2> QED BY <2>3, <2>4, <2>5, <2>6 DEF SourcesInv
  <1> QED BY <1>1, <1>2, <1>3, <1>4, <1>5

LEMMA SourcesAfter ==
    ASSUME JobTyped, RunnerInStep, SourcesInv, JobStep
    PROVE  SourcesInv'
  <1> SUFFICES ASSUME job.kind = "sources", RunStep \/ BlockStep \/ SourcesStep PROVE SourcesInv'
    BY JobSteps, StepKind, KindStays DEF SourcesInv
  <1>1. CASE RunStep
    <2>1. /\ UNCHANGED <<ckpt, exposed, learnt, topics, answers>> /\ job'.status # "completed"
          /\ job'.status = "running" => at'.step = "" /\ at'.item = 0
          /\ job'.kind = job.kind
      BY <1>1, RunAfter, KindStays
    <2>2. /\ BlockInHand /\ SourcesRead /\ SourcesJudged /\ answers \in Nat
      BY SourcesSteps
    <2>3. SourcesRead' /\ ReadBlocks' = ReadBlocks
      BY <2>1, <2>2, SourcesReadStays
    <2>4. BlockInHand'
      BY <2>1, <2>2, <2>3, BlockRests
    <2>5. SourcesJudged'
      <3>1. LearntOf(Judgement)' = LearntOf(Judgement) /\ \A d : All(Judgement, d)' = All(Judgement, d)
        BY <2>1 DEF LearntOf, All
      <3> QED BY <2>1, <2>2, <3>1 DEF SourcesJudged, JudgedOnce
    <2>6. SourcesCame'
      BY <2>1 DEF SourcesCame
    <2> QED BY <2>3, <2>4, <2>5, <2>6 DEF SourcesInv
  <1>2. CASE BlockStep
    BY <1>2, SourcesAfterBlock
  <1>3. CASE SourcesStep
    BY <1>3, SourcesGathered, SourcesSunk DEF SourcesStep
  <1> QED BY <1>1, <1>2, <1>3

-----------------------------------------------------------------------------
(* The whole *)

LEMMA WorkInitInv == ASSUME WorkInit PROVE BookInv /\ WorkInv
  <1>1. BookInv
    BY BookInit DEF WorkInit
  <1>2. /\ JobTyped /\ job.status = "running" /\ job.runs = 1 /\ ckpt = Fresh(job.kind) /\ mine = ckpt
        /\ pageText = 0 /\ exposed = {} /\ learnt = {} /\ topics = {} /\ pieces = {}
        /\ at = Start /\ answers = 0
    BY JobInitTyped DEF WorkInit
  <1>3. at.step = "" /\ at.item = 0 /\ at.text = 0
    BY <1>2 DEF Start
  <1>4. RunnerInStep
    BY <1>2, <1>3 DEF RunnerInStep
  <1>5. \A b : LearntOf(b) = {}
    BY <1>2 DEF LearntOf
  <1>6. ASSUME ckpt.pending = None, ReadBlocks = {} PROVE BlockInHand
    <2>1. None.block \notin {Judgement, <<>>} /\ None.digest = 0
      BY DEF None, Judgement
    <2>2. HandApart
      BY <1>2, <1>6, <2>1 DEF HandApart
    <2>3. BlocksTaught
      BY <1>2, <1>6 DEF BlocksTaught
    <2>4. HandTaught
      BY <1>2, <1>5, <1>6 DEF HandTaught
    <2>5. HandCame
      BY <1>2, <1>3, <1>6 DEF HandCame
    <2> QED BY <2>2, <2>3, <2>4, <2>5 DEF BlockInHand
  <1>7. PageInv
    <2> SUFFICES ASSUME job.kind = "page" PROVE PageInv
      BY DEF PageInv
    <2>1. ckpt.cursor = 0 /\ ckpt.pending = None
      BY <1>2 DEF Fresh
    <2>2. ReadBlocks = {}
      BY <2>1 DEF ReadBlocks
    <2>3. BlockInHand
      BY <1>6, <2>1, <2>2
    <2>4. ~ (0 > 0) /\ "running" # "completed"
      OBVIOUS
    <2>5. PageRead
      BY <1>2, <2>1, <2>4 DEF PageRead
    <2>6. at.text = pageText /\ at.step \in {"", "recorded"}
      BY <1>2, <1>3
    <2> QED BY <2>3, <2>5, <2>6 DEF PageInv
  <1>8. SourcesInv
    <2> SUFFICES ASSUME job.kind = "sources" PROVE SourcesInv
      BY DEF SourcesInv
    <2>1. /\ ckpt.cursor = 0 /\ ckpt.pending = None /\ ckpt.findings = <<>> /\ ckpt.phase = "searching"
          /\ ckpt.judged = 0
      BY <1>2 DEF Fresh
    <2>2. ReadBlocks = {} /\ Len(ckpt.findings) = 0
      BY <2>1 DEF ReadBlocks
    <2>3. SourcesRead
      BY <2>1, <2>2, FS_EmptySet DEF SourcesRead
    <2>4. SourcesJudged
      BY <1>2, <1>5, <2>1 DEF SourcesJudged, JudgedOnce
    <2>5. SourcesCame
      BY <1>3, <2>1 DEF SourcesCame
    <2> QED BY <1>6, <2>1, <2>2, <2>3, <2>4, <2>5 DEF SourcesInv
  <1>9. PieceInv
    <2>1. job.kind = "piece" => ckpt.draft = 0 /\ ~ ckpt.written
      BY <1>2 DEF Fresh
    <2> QED BY <1>2, <1>3, <2>1 DEF PieceInv
  <1>10. SurveyInv
    <2>1. job.kind = "survey" => ~ (ckpt.steps > 0)
      BY <1>2 DEF Fresh
    <2> QED BY <1>2, <1>3, <2>1 DEF SurveyInv
  <1> QED BY <1>1, <1>2, <1>4, <1>7, <1>8, <1>9, <1>10 DEF WorkInv

\* While the book has the character's time nothing else is done, and the other way round.
LEMMA WorkRests == ASSUME WorkInv, UNCHANGED jobVars PROVE WorkInv'
  <1>1. UNCHANGED <<job, ckpt, pageText, exposed, learnt, topics, pieces, clicked, mine, at, answers>>
    BY DEF jobVars
  <1>2. ReadBlocks' = ReadBlocks
    BY <1>1 DEF ReadBlocks
  <1>3. \A b : LearntOf(b)' = LearntOf(b) /\ \A d : All(b, d)' = All(b, d)
    BY <1>1 DEF LearntOf, All
  <1>4. JobTyped' /\ RunnerInStep'
    BY <1>1 DEF WorkInv, JobTyped, RunnerInStep, ClickedTyped
  <1>5. BlockInHand => BlockInHand'
    BY <1>1, <1>2, <1>3 DEF BlockInHand, HandApart, BlocksTaught, HandTaught, HandCame
  <1>6. PageInv'
    BY <1>1, <1>5 DEF WorkInv, PageInv, PageRead
  <1>7. SourcesInv'
    BY <1>1, <1>2, <1>3, <1>5 DEF WorkInv, SourcesInv, SourcesRead, SourcesJudged, SourcesCame, JudgedOnce
  <1>8. PieceInv' /\ SurveyInv'
    BY <1>1 DEF WorkInv, PieceInv, SurveyInv
  <1> QED BY <1>4, <1>6, <1>7, <1>8 DEF WorkInv

LEMMA WorkNextInv ==
    ASSUME BookInv, WorkInv, [WorkNext]_<<vars, jobVars>>
    PROVE  BookInv' /\ WorkInv'
  <1>1. [Next]_vars
    BY DEF WorkNext
  <1>2. JobStep \/ UNCHANGED jobVars
    BY DEF WorkNext
  <1>3. CASE JobStep
    <2>1. JobTyped /\ RunnerInStep /\ PageInv /\ SourcesInv /\ PieceInv /\ SurveyInv
      BY DEF WorkInv
    <2>2. JobTyped' /\ RunnerInStep'
      BY <1>3, <2>1, JobStepTyped, InStepAfter
    <2>3. PageInv' /\ SourcesInv'
      BY <1>3, <2>1, PageAfter, SourcesAfter
    <2>4. PieceInv' /\ SurveyInv'
      BY <1>3, <2>1, PieceAfter, SurveyAfter
    <2>5. WorkInv'
      BY <2>2, <2>3, <2>4 DEF WorkInv
    <2> QED BY <1>1, <2>5, BookNext
  <1> QED BY <1>1, <1>2, <1>3, WorkRests, BookNext

\* The inductive invariants hold throughout: of the book, and of the other work.
THEOREM WorkInvariant == WorkSpec => [](BookInv /\ WorkInv)
  <1>1. WorkInit => BookInv /\ WorkInv
    BY WorkInitInv
  <1>2. BookInv /\ WorkInv /\ [WorkNext]_<<vars, jobVars>> => BookInv' /\ WorkInv'
    BY WorkNextInv
  <1> QED BY <1>1, <1>2, PTL DEF WorkSpec

-----------------------------------------------------------------------------
(* The properties *)

LEMMA InvTypeOK == ASSUME BookInv, WorkInv PROVE WorkTypeOK
  <1>1. TypeOK
    BY TypedTypeOK DEF BookInv
  <1>2. JobTyped
    BY DEF WorkInv
  <1>3. job.kind \in Kinds
    BY <1>2, JobConstants DEF JobTyped, Job
  <1>4. \A c \in Checkpoint(job.kind) : DOMAIN c = DOMAIN Fresh(job.kind)
    <2>1. CASE job.kind = "page"
      BY <2>1, CheckpointOf DEF PageCheckpoint, Fresh
    <2>2. CASE job.kind = "sources"
      <3>1. \A c \in SourcesCheckpoint :
              DOMAIN c = {"phase", "results", "cursor", "pending", "findings", "judged"}
        BY DEF SourcesCheckpoint
      <3>2. DOMAIN Fresh(job.kind) = {"phase", "results", "cursor", "pending", "findings", "judged"}
        BY <2>2 DEF Fresh
      <3> QED BY <2>2, <3>1, <3>2, CheckpointOf
    <2>3. CASE job.kind = "piece"
      BY <2>3, CheckpointOf DEF PieceCheckpoint, Fresh
    <2>4. CASE job.kind = "survey"
      <3>1. \A c \in SurveyCheckpoint : DOMAIN c = {"steps"}
        BY DEF SurveyCheckpoint
      <3>2. DOMAIN Fresh(job.kind) = {"steps"}
        BY <2>4 DEF Fresh
      <3> QED BY <2>4, <3>1, <3>2, CheckpointOf
    <2>5. CASE job.kind = "book"
      BY <2>5, CheckpointOf DEF Fresh
    <2> QED BY <1>3, <2>1, <2>2, <2>3, <2>4, <2>5 DEF Kinds
  <1>5. job.kind = "sources" => ckpt.phase \in Phases
    BY <1>2, CheckpointOf DEF JobTyped, SourcesCheckpoint
  <1>6. job \in [kind : Jobs, status : {"running", "halted", "completed", "failed"},
                 runs : 1..(MaxHalts + 1)]
    BY <1>2 DEF JobTyped, Job, Statuses
  <1>7. at.step \in Steps /\ at.item \in 0..Items
    BY <1>2 DEF JobTyped, Places
  <1>8. DOMAIN ckpt = DOMAIN Fresh(job.kind) /\ DOMAIN mine = DOMAIN ckpt
    BY <1>2, <1>4 DEF JobTyped
  <1>9. pageText \in {0} \cup Versions /\ clicked \subseteq 1..job.runs
    BY <1>2 DEF JobTyped, Texts, ClickedTyped
  <1> QED BY <1>1, <1>5, <1>6, <1>7, <1>8, <1>9 DEF WorkTypeOK, Phases, Steps

LEMMA InvBlocksOnce ==
    ASSUME WorkInv, job.kind \in {"page", "sources"}
    PROVE  BlocksOnce
  <1>1. BlockInHand
    BY DEF WorkInv, PageInv, SourcesInv
  <1>2. HandApart /\ BlocksTaught /\ HandTaught /\ HandCame
    BY <1>1 DEF BlockInHand
  <1>3. job.kind = "sources" => Cardinality(ReadBlocks) = Len(ckpt.findings)
    BY DEF WorkInv, SourcesInv, SourcesRead
  <1>4. job.status = "completed" => exposed = ReadBlocks
    <2> SUFFICES ASSUME job.status = "completed" PROVE exposed = ReadBlocks
      OBVIOUS
    <2>1. ckpt.pending = None
      BY <1>2 DEF HandCame
    <2>2. exposed \subseteq ReadBlocks
      BY <1>2, <2>1 DEF BlocksTaught
    <2> QED BY <1>2, <2>2 DEF BlocksTaught
  <1> QED BY <1>2, <1>3, <1>4 DEF BlocksOnce, BlocksTaught, HandTaught

LEMMA InvOneRun == ASSUME WorkInv PROVE LeavesOneRun
  <1>0. job.kind \in Kinds
    BY JobConstants DEF WorkInv, JobTyped, Job
  <1>1. CASE job.kind = "page"
    <2>1. job.status = "completed" => ckpt.cursor = PageLength[pageText]
      BY <1>1 DEF WorkInv, PageInv, PageRead
    <2> QED BY <1>1, <2>1, InvBlocksOnce DEF LeavesOneRun
  <1>2. CASE job.kind = "sources"
    <2>1. JudgedOnce
      BY <1>2 DEF WorkInv, SourcesInv, SourcesJudged
    <2> QED BY <1>2, <2>1, InvBlocksOnce DEF LeavesOneRun
  <1>3. CASE job.kind = "piece"
    BY <1>3 DEF WorkInv, PieceInv, LeavesOneRun
  <1>4. CASE job.kind = "survey"
    <2>1. clicked \subseteq {1}
      <3>1. clicked \subseteq 1..1
        BY <1>4 DEF WorkInv, SurveyInv, JobTyped, ClickedTyped
      <3>2. 1..1 = {1}
        OBVIOUS
      <3> QED BY <3>1, <3>2
    <2>2. clicked = {} \/ clicked = {1}
      BY <2>1
    <2>3. Cardinality({}) = 0 /\ Cardinality({1}) = 1
      BY FS_EmptySet, FS_Singleton
    <2>4. Cardinality(clicked) <= 1
      BY <2>2, <2>3
    <2>5. job.status = "completed" => clicked # {}
      BY <1>4 DEF WorkInv, SurveyInv
    <2> QED BY <1>4, <2>4, <2>5 DEF LeavesOneRun
  <1>5. CASE job.kind = "book"
    BY <1>5 DEF LeavesOneRun
  <1> QED BY <1>0, <1>1, <1>2, <1>3, <1>4, <1>5 DEF Kinds

\* Every reachable state of the reading services and of a work is of its types.
THEOREM WorkTyped == WorkSpec => []WorkTypeOK
  <1>1. BookInv /\ WorkInv => WorkTypeOK
    BY InvTypeOK
  <1> QED BY <1>1, WorkInvariant, PTL

\* The blocks of a book follow one another without a gap or an overlap, and each block behind
\* the source cursor taught all of one digest, whatever fails or stops between the evidence,
\* the digest, the memories and the cursor.
THEOREM SourceCoveredAlways == WorkSpec => []SourceCovered
  <1>1. BookInv => SourceCovered
    BY DEF BookInv, SourceInv
  <1> QED BY <1>1, WorkInvariant, PTL

\* Every fragment of the companions' outputs waits in the buffer, is in a memory or is known to
\* be lost, though outputs arrive and the buffer overflows while it is integrated.
THEOREM OutputsKeptAlways == WorkSpec => []OutputsKept
  <1>1. BookInv => OutputsKept
    BY DEF BookInv, OutputsInv
  <1> QED BY <1>1, WorkInvariant, PTL

\* A page of the book that names the revision of the row has seen the progress in it, whichever
\* of the two writers that go past the check was there first.
THEOREM RevisionNamesProgressAlways == WorkSpec => []RevisionNamesProgress
  <1>1. BookInv => RevisionNamesProgress
    BY DEF BookInv, RevisionInv
  <1> QED BY <1>1, WorkInvariant, PTL

\* However often a work is halted and taken up again, it leaves what one run would have left.
THEOREM LeavesOneRunAlways == WorkSpec => []LeavesOneRun
  <1>1. WorkInv => LeavesOneRun
    BY InvOneRun
  <1> QED BY <1>1, WorkInvariant, PTL
=============================================================================
