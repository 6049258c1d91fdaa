------------------------- MODULE ConversationProofs -------------------------
(***************************************************************************)
(* The safety of Conversation for every number of questions, messages,     *)
(* desires, failures and restarts.                                         *)
(***************************************************************************)
EXTENDS Conversation, TLAPS, FiniteSetTheorems, WellFoundedInduction

Kinds == {"asks", "sends", "elapses", "pauses", "pressures", "ticks", "faults", "starts"}

-----------------------------------------------------------------------------
(* The inductive invariant *)

Typed == TypeOK /\ left \in [Kinds -> Nat]

\* Messages are numbered as they are sent.
SentInOrder ==
    \E k \in 0..MaxMessages : \A m \in Messages : message[m].status # "none" <=> m <= k

\* Message m has its turn: it waits for its reply, and all before it are settled.
HasTurn(m) ==
    /\ message[m].status = "pending"
    /\ \A n \in Messages : n < m => message[n].status = "settled"

\* A claim belongs to the message whose turn it is, and to one question.
ClaimsHeld ==
    /\ \A q \in Questions :
        LET m == question[q].by IN
        /\ question[q].status = "none" => question[q].about = None
        /\ question[q].status \in {"none", "waiting", "expired"} => m = None
        /\ question[q].status = "answered" =>
              m # None /\ message[m].status \in {"replied", "settled"}
        /\ question[q].status = "claimed" /\ m # None => HasTurn(m)
        /\ m # None /\ message[m].to # None => message[m].to = q
    /\ \A q, r \in Questions :
        /\ question[q].status = "claimed" /\ question[r].status = "claimed"
        /\ question[q].by = question[r].by /\ question[q].by # None
        => q = r

\* The worker holds what it has claimed, and has left nothing claimed behind.
TurnKnows ==
    /\ turn.pc = "idle" <=> turn.m = None
    /\ turn.pc \in {"idle", "claiming"} => turn.q = None
    /\ turn.pc = "satisfying" => turn.q # None /\ question[turn.q].about # None
    /\ turn.m # None => HasTurn(turn.m)
    /\ turn.q # None => question[turn.q].status = "claimed" /\ question[turn.q].by = turn.m
    /\ turn.pc = "drafting" /\ turn.q = None =>
        \A q \in Questions : question[q].status = "claimed" => question[q].by # turn.m

ClockKnows ==
    /\ clock.pc = "idle" <=> clock.q = None
    /\ clock.q # None => question[clock.q].status = "claimed" /\ question[clock.q].by = None

\* The chat about d ran out, or is about to have: nobody will ever answer it.
RanOut(q) ==
    \/ question[q].status = "expired"
    \/ /\ question[q].status = "claimed" /\ question[q].by = None
       /\ ~ (clock.q = q /\ clock.pc = "expiring")

\* How a desire got where it is.
DesiresEarned ==
    /\ \A d \in Desires :
        /\ desire[d].status \in {"none", "pending", "active"} => desire[d].progress < GoalCount
        /\ desire[d].status = "satisfied" => desire[d].progress > 0
        /\ desire[d].status = "expired" =>
              \E q \in Questions : question[q].about = d /\ RanOut(q)
    /\ \A q \in Questions :
        question[q].about # None => desire[question[q].about].status # "none"
    /\ starter.pc = "idle" <=> starter.d = None
    /\ starter.d # None => desire[starter.d].status # "none"
    /\ attempt # None => desire[attempt].status = "none"
    /\ eval.pc = "storing" => attempt # None
    /\ eval.pc = "generating" => attempt = None /\ Fresh # {}

\* The chat q about d has met it, or is not the only chat about it.
Met(q, d) ==
    \/ desire[d].status = "trimmed" \/ desire[d].progress > 0
    \/ \E r \in Questions : r # q /\ question[r].about = d

ChatsMeet ==
    \A q \in Questions :
        /\ question[q].about # None
        /\ question[q].status = "answered" \/ (turn.pc = "drafting" /\ turn.q = q)
        => Met(q, question[q].about)

\* A chat that still keeps its desire: not yet met by a reply, nor expired by the clock.
Keeps(q) ==
    \/ question[q].status = "waiting"
    \/ /\ question[q].status = "claimed"
       /\ ~ (turn.pc = "drafting" /\ turn.q = q)
       /\ ~ (clock.pc = "finishing" /\ clock.q = q)

ActiveKept ==
    \A d \in Desires : desire[d].status = "active" =>
        \/ starter.d = d /\ starter.pc = "composing"
        \/ \E q \in Questions : question[q].about = d /\ Keeps(q)
        \/ d \in stranded.d

\* The stamp that the evaluation has read tells what it has not seen.
StampTells ==
    eval.pc # "idle" => eval.stamp <= stamp /\ (eval.stamp = stamp => value \subseteq eval.seen)

IInv ==
    /\ Typed /\ SentInOrder
    /\ ClaimsHeld /\ TurnKnows /\ ClockKnows
    /\ DesiresEarned /\ ChatsMeet /\ ActiveKept
    /\ StampTells

-----------------------------------------------------------------------------
(* Lemmas *)

\* A set of numbers that is not empty has a least one.
LEMMA Least ==
    ASSUME NEW S \in SUBSET Nat, S # {}
    PROVE  \E n \in S : \A o \in S : n <= o
  <1> DEFINE T == {0..n : n \in S}
  <1>1. T \subseteq FiniteSubsetsOf(Nat)
    <2> SUFFICES ASSUME NEW n \in S PROVE 0..n \in FiniteSubsetsOf(Nat)
      OBVIOUS
    <2>1. IsFiniteSet(0..n)
      BY FS_Interval
    <2> QED BY <2>1 DEF FiniteSubsetsOf
  <1>2. T # {}
    OBVIOUS
  <1> HIDE DEF T
  <1>3. PICK t \in T : \A u \in T : ~ (<<u, t>> \in StrictSubsetOrdering(Nat))
    BY <1>1, <1>2, FS_StrictSubsetOrderingWellFounded, WFMin
  <1>4. PICK n \in S : t = 0..n
    BY <1>3 DEF T
  <1>5. ASSUME NEW o \in S, o < n PROVE FALSE
    <2>1. 0..o \in T
      BY DEF T
    <2>2. 0..o \subseteq 0..n /\ n \in 0..n /\ ~ (n \in 0..o)
      BY <1>5
    <2>3. <<0..o, 0..n>> \in StrictSubsetOrdering(Nat)
      BY <2>2 DEF StrictSubsetOrdering
    <2> QED BY <1>3, <1>4, <2>1, <2>3
  <1> QED BY <1>5

LEMMA SpendTyped ==
    ASSUME left \in [Kinds -> Nat], NEW what \in Kinds, Spend(what)
    PROVE  left' \in [Kinds -> Nat]
  BY DEF Spend

-----------------------------------------------------------------------------
(* Types *)

QuestionRow ==
    [status : {"none", "waiting", "claimed", "answered", "expired"},
     by : {None} \cup Messages, about : {None} \cup Desires, late : BOOLEAN, paused : BOOLEAN]

\* What TypeOK says of the questions.
QuestionsTyped ==
    /\ question \in [Questions -> QuestionRow]
    /\ \A q \in Questions : ~ (question[q].late /\ question[q].paused)
    /\ \A q \in Questions : question[q].status = "claimed" =>
            question[q].by # None \/ clock.q = q \/ q \in stranded.q

MessagesTyped ==
    message \in [Messages -> [to : {None} \cup Questions,
                              status : {"none", "pending", "replied", "covered", "settled"}]]

DesiresTyped ==
    /\ desire \in [Desires -> [status : {"none", "pending", "active", "satisfied", "expired",
                                         "trimmed"},
                               progress : 0..GoalCount]]
    /\ value \subseteq Pressures /\ stamp \in Nat

CoroutinesTyped ==
    /\ attempt \in {None} \cup Desires /\ tick \in BOOLEAN
    /\ turn \in [m : {None} \cup Messages, pc : {"idle", "claiming", "satisfying", "drafting"},
                 q : {None} \cup Questions]
    /\ clock \in [pc : {"idle", "expiring", "finishing"}, q : {None} \cup Questions]
    /\ starter \in [pc : {"idle", "claiming", "composing", "announcing"},
                    d : {None} \cup Desires]
    /\ eval.pc \in {"idle", "generating", "storing"} /\ eval.seen \subseteq Pressures
    /\ eval.stamp \in Nat
    /\ stranded \in [q : SUBSET Questions, d : SUBSET Desires]

LEMMA TypeParts ==
    TypeOK <=> QuestionsTyped /\ MessagesTyped /\ DesiresTyped /\ CoroutinesTyped
  BY DEF TypeOK, QuestionsTyped, MessagesTyped, DesiresTyped, CoroutinesTyped, QuestionRow

LEMMA NextQuestionUnused ==
    ASSUME Unused # {}
    PROVE  NextQuestion \in Questions /\ question[NextQuestion].status = "none"
  <1>1. Unused \in SUBSET Nat
    BY DEF Unused, Questions
  <1>2. NextQuestion \in Unused
    BY <1>1, Least DEF NextQuestion
  <1> QED BY <1>2 DEF Unused

LEMMA TypedInit == ASSUME ConstantsOK, Init PROVE Typed
  <1> USE DEF Init, Questions, Messages, Desires, None, Unasked, NoTurn, NoClock, NoStart, NoEval
  <1>1. QuestionsTyped
    BY DEF QuestionsTyped, QuestionRow
  <1>2. MessagesTyped
    BY DEF MessagesTyped
  <1>3. DesiresTyped
    BY DEF DesiresTyped, Pressures, ConstantsOK
  <1>4. CoroutinesTyped
    BY DEF CoroutinesTyped, Pressures
  <1>5. left \in [Kinds -> Nat]
    BY DEF ConstantsOK, Kinds
  <1> QED BY <1>1, <1>2, <1>3, <1>4, <1>5, TypeParts DEF Typed

\* The steps that leave the questions and the messages, their worker and their clock alone.
Elsewhere ==
    \/ PressureFromObservation \/ Evaluate \/ \E d \in Desires : LookForDesire(d)
    \/ ClaimForInteraction \/ ReleaseInteractionClaim \/ Announce

LEMMA ElsewhereFrame ==
    ASSUME Elsewhere
    PROVE  UNCHANGED <<question, message, turn, clock, stranded>>
  BY DEF Elsewhere, PressureFromObservation, Evaluate, BeginEval, InsertGenerationAttempt,
         GeneratesNothing, StoreDesire, DropDuplicate, EvalFails, LookForDesire,
         ClaimForInteraction, ReleaseInteractionClaim, Announce

LEMMA QuestionsTypedStep ==
    ASSUME ConstantsOK, Typed, TurnKnows, ClockKnows, Next
    PROVE  QuestionsTyped'
  <1> USE DEF QuestionsTyped, QuestionRow, None
  <1>0. QuestionsTyped /\ CoroutinesTyped
    BY TypeParts DEF Typed
  <1>1. CASE Elsewhere
    BY <1>0, <1>1, ElsewhereFrame
  <1>2. ASSUME NEW about \in {None} \cup Desires, Unused # {},
               question' = Asked(question, about), UNCHANGED <<clock, stranded>>
        PROVE  QuestionsTyped'
    BY <1>0, <1>2, NextQuestionUnused DEF Asked, Unasked
  <1>3. CASE InitiateChat
    BY <1>0, <1>2, <1>3 DEF InitiateChat, CoroutinesTyped
  <1>4. CASE AskWhileReading
    BY <1>2, <1>4 DEF AskWhileReading
  <1>5. CASE \E q \in Questions : Elapse(q) \/ Pause(q) \/ Resume(q)
    <2>1. PICK q \in Questions : Elapse(q) \/ Pause(q) \/ Resume(q)
      BY <1>5
    <2>2. CASE Elapse(q)
      BY <1>0, <2>2 DEF Elapse
    <2>3. CASE Pause(q)
      BY <1>0, <2>3 DEF Pause
    <2>4. CASE Resume(q)
      BY <1>0, <2>4 DEF Resume
    <2> QED BY <2>1, <2>2, <2>3, <2>4
  <1>6. CASE \E q \in Questions : ClaimExpired(q)
    BY <1>0, <1>6 DEF ClaimExpired, NoClock, Questions
  <1>7. CASE ExpireDesire
    BY <1>0, <1>7 DEF ExpireDesire, CoroutinesTyped
  <1>8. CASE FinishExpired
    BY <1>0, <1>8 DEF FinishExpired, NoClock, ClockKnows, CoroutinesTyped
  <1>9. CASE ExpireFails
    BY <1>0, <1>9 DEF ExpireFails, ReleaseClaim, NoClock, ClockKnows, CoroutinesTyped
  <1>10. CASE BeginReply \/ SatisfyDesire \/ \E to \in {None} \cup Questions : SendMessage(to)
    BY <1>0, <1>10 DEF BeginReply, SatisfyDesire, SendMessage
  <1>11. CASE ClaimReply
    <2>1. turn.m \in Messages /\ turn.m # None
      BY <1>0, <1>11 DEF ClaimReply, TurnKnows, CoroutinesTyped
    <2>2. \A q \in Waiting \cup Owned(turn.m) : q \in Questions
      BY DEF Waiting, Owned
    <2>3. UNCHANGED <<clock, stranded>>
      BY <1>11 DEF ClaimReply
    <2>4. \/ UNCHANGED question
          \/ \E q \in Questions :
                question' = [question EXCEPT ![q].status = "claimed", ![q].by = turn.m]
      BY <1>11, <2>2 DEF ClaimReply
    <2>5. ASSUME NEW q \in Questions,
                 question' = [question EXCEPT ![q].status = "claimed", ![q].by = turn.m]
          PROVE  QuestionsTyped'
      <3>1. question' = [question EXCEPT ![q] = [@ EXCEPT !.status = "claimed", !.by = turn.m]]
        BY <1>0, <2>5
      <3> QED BY <1>0, <2>1, <2>3, <3>1
    <2> QED BY <1>0, <2>3, <2>4, <2>5
  <1>12. CASE \E asks \in BOOLEAN : FinishReply(asks)
    <2>1. UNCHANGED <<clock, stranded>> /\ turn.q \in {None} \cup Questions
      BY <1>0, <1>12 DEF FinishReply, CoroutinesTyped
    <2>2. /\ Answered(turn.q) \in [Questions -> QuestionRow]
          /\ \A q \in Questions :
                LET new == Answered(turn.q)[q] IN
                /\ ~ (new.late /\ new.paused)
                /\ new.status = "claimed" => new = question[q]
      BY <1>0, <2>1 DEF Answered
    <2>3. CASE question' = Answered(turn.q)
      BY <1>0, <2>1, <2>2, <2>3
    <2>4. CASE Unused # {} /\ question' = Asked(Answered(turn.q), None)
      BY <1>0, <2>1, <2>2, <2>4, NextQuestionUnused DEF Asked, Unasked
    <2> QED BY <1>12, <2>3, <2>4 DEF FinishReply
  <1>13. CASE ReplyFails
    BY <1>0, <1>13 DEF ReplyFails, ReleaseClaim, CoroutinesTyped, TurnKnows
  <1>14. CASE Crash
    BY <1>0, <1>14 DEF Crash, NoClock, CoroutinesTyped
  <1> QED BY <1>1, <1>3, <1>4, <1>5, <1>6, <1>7, <1>8, <1>9, <1>10, <1>11, <1>12, <1>13, <1>14
         DEF Next, Initiate, CheckTimeouts, ReplyStep, Elsewhere

LEMMA MessagesTypedStep ==
    ASSUME ConstantsOK, Typed, TurnKnows, Next
    PROVE  MessagesTyped'
  <1> USE DEF MessagesTyped, None
  <1>0. MessagesTyped /\ CoroutinesTyped
    BY TypeParts DEF Typed
  <1>1. CASE \E to \in {None} \cup Questions : SendMessage(to)
    <2>1. PICK to \in {None} \cup Questions :
            message' = [message EXCEPT ![Cardinality(Sent) + 1] = [to |-> to, status |-> "pending"]]
      BY <1>1 DEF SendMessage
    <2>2. [to |-> to, status |-> "pending"]
            \in [to : {None} \cup Questions,
                status : {"none", "pending", "replied", "covered", "settled"}]
      OBVIOUS
    <2> QED BY <1>0, <2>1, <2>2
  <1>2. CASE BeginReply
    <2>1. \/ UNCHANGED message
          \/ \E m : message' = [message EXCEPT ![m].status = "settled"]
      BY <1>2 DEF BeginReply
    <2> QED BY <1>0, <2>1
  <1>3. CASE \E asks \in BOOLEAN : FinishReply(asks)
    <2>1. message' = [m \in Messages |->
                        IF m = turn.m THEN [message[m] EXCEPT !.status = "replied"]
                        ELSE IF m \in Follows(turn.m) THEN [message[m] EXCEPT !.status = "covered"]
                        ELSE message[m]]
      BY <1>3 DEF FinishReply
    <2>2. \A m \in Messages, s \in {"replied", "covered"} :
            [message[m] EXCEPT !.status = s]
                \in [to : {None} \cup Questions,
                     status : {"none", "pending", "replied", "covered", "settled"}]
      BY <1>0
    <2> QED BY <1>0, <2>1, <2>2
  <1>4. CASE UNCHANGED message
    BY <1>0, <1>4
  <1> QED
    BY <1>1, <1>2, <1>3, <1>4, ElsewhereFrame
       DEF Next, Initiate, CheckTimeouts, ReplyStep, Elsewhere, InitiateChat, AskWhileReading,
           Elapse, Pause, Resume, ClaimExpired, ExpireDesire, FinishExpired, ExpireFails,
           ClaimReply, SatisfyDesire, ReplyFails, Crash

LEMMA LeftTypedStep == ASSUME ConstantsOK, Typed, Next PROVE left' \in [Kinds -> Nat]
  <1> USE DEF Kinds
  <1>0. left \in [Kinds -> Nat]
    BY DEF Typed
  <1>1. CASE UNCHANGED left
    BY <1>0, <1>1
  <1>2. CASE \E what \in Kinds : Spend(what)
    BY <1>0, <1>2, SpendTyped
  <1>3. CASE Evaluate
    BY <1>1, <1>2, <1>3 DEF Evaluate, BeginEval, ApplyPeriodic, InsertGenerationAttempt,
         GeneratesNothing, StoreDesire, DropDuplicate, EvalFails
  <1>4. CASE Initiate
    BY <1>1, <1>2, <1>4 DEF Initiate, ClaimForInteraction, ReleaseInteractionClaim,
         InitiateChat, Announce
  <1>5. CASE CheckTimeouts \/ ReplyStep
    BY <1>1, <1>2, <1>5 DEF CheckTimeouts, ClaimExpired, ExpireDesire, FinishExpired,
         ReplyStep, BeginReply, ClaimReply, SatisfyDesire, FinishReply
  <1>6. CASE PressureFromObservation \/ AskWhileReading \/ ExpireFails \/ ReplyFails \/ Crash
    BY <1>2, <1>6 DEF PressureFromObservation, AskWhileReading, ExpireFails, ReplyFails, Crash
  <1>7. CASE \/ \E d \in Desires : LookForDesire(d)
             \/ \E q \in Questions : Elapse(q) \/ Pause(q) \/ Resume(q)
             \/ \E to \in {None} \cup Questions : SendMessage(to)
    BY <1>1, <1>2, <1>7 DEF LookForDesire, Elapse, Pause, Resume, SendMessage
  <1> QED BY <1>3, <1>4, <1>5, <1>6, <1>7 DEF Next

LEMMA SatisfiedTyped ==
    ASSUME ConstantsOK, DesiresTyped, NEW d,
           \A e \in Desires : desire[e].status \in {"pending", "active"}
                => desire[e].progress < GoalCount
    PROVE  Satisfied(d) \in [Desires -> [status : {"none", "pending", "active", "satisfied",
                                                   "expired", "trimmed"},
                                         progress : 0..GoalCount]]
  <1>1. CASE d \in Desires /\ desire[d].status \in {"pending", "active"}
    <2>1. desire[d].progress + 1 \in 0..GoalCount
      BY <1>1 DEF DesiresTyped, ConstantsOK
    <2> QED BY <1>1, <2>1 DEF Satisfied, DesiresTyped
  <1>2. CASE ~ (d \in Desires /\ desire[d].status \in {"pending", "active"})
    BY <1>2 DEF Satisfied, DesiresTyped
  <1> QED BY <1>1, <1>2

LEMMA DesiresTypedStep ==
    ASSUME ConstantsOK, Typed, DesiresEarned, TurnKnows, ClockKnows, Next
    PROVE  DesiresTyped'
  <1> USE DEF DesiresTyped, None, Pressures
  <1>0. DesiresTyped /\ CoroutinesTyped /\ QuestionsTyped
    BY TypeParts DEF Typed
  <1>1. CASE UNCHANGED drive
    BY <1>0, <1>1 DEF drive
  <1>2. CASE PressureFromObservation
    <2>1. left["pressures"] \in Nat
      BY DEF Typed, Kinds
    <2> QED BY <1>0, <1>2, <2>1 DEF PressureFromObservation, ApplyValueDelta
  <1>3. CASE BeginEval
    BY <1>0, <1>3 DEF BeginEval, ApplyPeriodic
  <1>4. CASE StoreDesire
    <2>1. value' \subseteq Pressures /\ stamp' \in Nat
      BY <1>0, <1>4 DEF StoreDesire, ResetValueIfUnchanged
    <2>2. PICK removed \in Trims(PendingDesires \cup {attempt}) :
            desire' = [d \in Desires |->
                      IF d \in removed THEN [desire[d] EXCEPT !.status = "trimmed"]
                      ELSE IF d = attempt THEN [desire[d] EXCEPT !.status = "pending"]
                      ELSE desire[d]]
      BY <1>4 DEF StoreDesire
    <2> QED BY <1>0, <2>1, <2>2
  <1>5. CASE DropDuplicate
    BY <1>0, <1>5 DEF DropDuplicate, ResetValueIfUnchanged
  <1>6. CASE ClaimForInteraction \/ ReleaseInteractionClaim \/ Announce
    BY <1>0, <1>6 DEF ClaimForInteraction, ReleaseInteractionClaim, Announce, Released, drive
  <1>7. CASE ExpireDesire
    <2>1. /\ clock.q \in Questions
          /\ question[clock.q].about # None => question[clock.q].about \in Desires
      BY <1>0, <1>7 DEF ExpireDesire, ClockKnows, CoroutinesTyped, QuestionsTyped, QuestionRow
    <2>2. \A d \in Desires : d \in Nat
      BY DEF Desires
    <2> QED BY <1>0, <1>7, <2>1, <2>2 DEF ExpireDesire, Expired, Suppress, drive
  <1>8. CASE SatisfyDesire
    BY <1>0, <1>8, SatisfiedTyped DEF SatisfyDesire, DesiresEarned
  <1> QED
    BY <1>1, <1>2, <1>3, <1>4, <1>5, <1>6, <1>7, <1>8
       DEF Next, Evaluate, Initiate, CheckTimeouts, ReplyStep, InsertGenerationAttempt,
           GeneratesNothing, EvalFails, LookForDesire, InitiateChat, AskWhileReading,
           Elapse, Pause, Resume, ClaimExpired, FinishExpired, ExpireFails, SendMessage,
           BeginReply, ClaimReply, FinishReply, ReplyFails, Crash, drive

LEMMA CoroutinesTypedStep ==
    ASSUME ConstantsOK, Typed, DesiresEarned, TurnKnows, ClockKnows, Next
    PROVE  CoroutinesTyped'
  <1> USE DEF CoroutinesTyped, None
  <1>0. CoroutinesTyped /\ DesiresTyped
    BY TypeParts DEF Typed
  <1> DEFINE Rest == <<attempt, tick, turn, clock, starter, eval, stranded>>
  <1>1. CASE UNCHANGED Rest
    BY <1>0, <1>1
  <1>2. CASE Evaluate
    <2>1. UNCHANGED <<turn, clock, starter, stranded>>
      BY <1>2 DEF Evaluate, BeginEval, InsertGenerationAttempt, GeneratesNothing, StoreDesire,
           DropDuplicate, EvalFails
    <2>2. CASE BeginEval
      <3>1. stamp' \in Nat /\ UNCHANGED attempt
        BY <1>0, <2>2 DEF BeginEval, ApplyPeriodic, DesiresTyped
      <3> QED BY <1>0, <2>1, <2>2, <3>1 DEF BeginEval, Target, NoEval, DesiresTyped, Pressures
    <2>3. CASE InsertGenerationAttempt
      <3>1. Fresh \in SUBSET Nat /\ Fresh # {} /\ Fresh \subseteq Desires
        BY <2>3 DEF InsertGenerationAttempt, DesiresEarned, Fresh, Desires
      <3>2. attempt' \in Fresh
        BY <2>3, <3>1, Least DEF InsertGenerationAttempt
      <3> QED BY <1>0, <2>1, <2>3, <3>1, <3>2 DEF InsertGenerationAttempt
    <2>4. CASE GeneratesNothing \/ EvalFails \/ StoreDesire \/ DropDuplicate
      <3>1. attempt' \in {attempt, None} /\ eval' = NoEval
        BY <2>4 DEF GeneratesNothing, EvalFails, StoreDesire, DropDuplicate
      <3>2. tick' = FALSE \/ tick' = tick
        BY <2>4 DEF GeneratesNothing, EvalFails, StoreDesire, DropDuplicate
      <3>3. tick' \in BOOLEAN
        BY <1>0, <3>2, Zenon
      <3>4. attempt' \in {None} \cup Desires
        BY <1>0, <3>1
      <3> QED BY <1>0, <2>1, <3>1, <3>3, <3>4 DEF NoEval, Pressures
    <2> QED BY <1>2, <2>2, <2>3, <2>4 DEF Evaluate
  <1>3. CASE \/ \E d \in Desires : LookForDesire(d)
             \/ Initiate
    BY <1>0, <1>3 DEF LookForDesire, Initiate, ClaimForInteraction, ReleaseInteractionClaim,
         InitiateChat, Announce, NoStart, growth
  <1>4. CASE CheckTimeouts \/ ExpireFails
    BY <1>0, <1>4 DEF CheckTimeouts, ClaimExpired, ExpireDesire, FinishExpired, ExpireFails,
         NoClock, growth
  <1>5. CASE ReplyStep \/ ReplyFails
    <2>1. UNCHANGED <<growth, clock, starter, stranded>>
      BY <1>5 DEF ReplyStep, BeginReply, ClaimReply, SatisfyDesire, FinishReply, ReplyFails
    <2>2. turn' \in [m : {None} \cup Messages,
                     pc : {"idle", "claiming", "satisfying", "drafting"},
                     q : {None} \cup Questions]
      <3>1. CASE BeginReply
        <4>1. Unsettled \in SUBSET Nat /\ Unsettled \subseteq Messages
          BY DEF Unsettled, Messages
        <4>2. Unsettled # {}
          BY <3>1 DEF BeginReply
        <4>3. FirstUnsettled \in Messages
          BY <4>1, <4>2, Least DEF FirstUnsettled
        <4> QED BY <1>0, <3>1, <4>3 DEF BeginReply
      <3>2. CASE ClaimReply
        <4>1. \A q \in Waiting \cup Owned(turn.m) : q \in Questions
          BY DEF Waiting, Owned
        <4>2. \/ turn' = [turn EXCEPT !.pc = "drafting"]
              \/ \E q \in Questions : \E pc \in {"satisfying", "drafting"} :
                    turn' = [turn EXCEPT !.q = q, !.pc = pc]
          BY <3>2, <4>1 DEF ClaimReply
        <4>3. ASSUME NEW q \in Questions, NEW pc \in {"satisfying", "drafting"},
                     turn' = [turn EXCEPT !.q = q, !.pc = pc]
              PROVE  turn' = [m |-> turn.m, pc |-> pc, q |-> q]
          BY <1>0, <4>3
        <4> QED BY <1>0, <4>2, <4>3
      <3>3. CASE SatisfyDesire
        BY <1>0, <3>3 DEF SatisfyDesire
      <3>4. CASE ReplyFails \/ \E asks \in BOOLEAN : FinishReply(asks)
        BY <3>4 DEF ReplyFails, FinishReply, NoTurn
      <3> QED BY <1>5, <3>1, <3>2, <3>3, <3>4 DEF ReplyStep
    <2> QED BY <1>0, <2>1, <2>2 DEF growth
  <1>6. CASE Crash
    BY <1>0, <1>6 DEF Crash, NoTurn, NoClock, NoStart, NoEval, Pressures
  <1> QED
    BY <1>1, <1>2, <1>3, <1>4, <1>5, <1>6
       DEF Next, PressureFromObservation, AskWhileReading, Elapse, Pause, Resume, SendMessage,
           growth

LEMMA TypedStep ==
    ASSUME ConstantsOK, Typed, DesiresEarned, TurnKnows, ClockKnows, Next
    PROVE  Typed'
  <1>1. QuestionsTyped' /\ MessagesTyped' /\ DesiresTyped' /\ CoroutinesTyped'
    BY QuestionsTypedStep, MessagesTypedStep, DesiresTypedStep, CoroutinesTypedStep
  <1>2. TypeOK'
    BY <1>1 DEF TypeOK, QuestionsTyped, MessagesTyped, DesiresTyped, CoroutinesTyped, QuestionRow
  <1> QED BY <1>2, LeftTypedStep DEF Typed

-----------------------------------------------------------------------------
(* The pressure *)

LEMMA StampTellsStep ==
    ASSUME ConstantsOK, Typed, StampTells, Next
    PROVE  StampTells'
  <1> USE DEF StampTells
  <1>0. stamp \in Nat /\ eval.stamp \in Nat
    BY TypeParts DEF Typed, DesiresTyped, CoroutinesTyped
  <1>1. ASSUME stamp' = stamp + 1, UNCHANGED eval PROVE StampTells'
    BY <1>0, <1>1
  <1>2. CASE UNCHANGED <<value, stamp, eval>> \/ eval' = NoEval
    BY <1>2 DEF NoEval
  <1>3. CASE PressureFromObservation
    BY <1>1, <1>3 DEF PressureFromObservation, ApplyValueDelta, growth
  <1>4. CASE BeginEval
    <2>1. stamp' \in Nat /\ value' = value
      BY <1>0, <1>4 DEF BeginEval, ApplyPeriodic
    <2> QED BY <1>2, <1>4, <2>1 DEF BeginEval
  <1>5. CASE InsertGenerationAttempt
    BY <1>0, <1>5 DEF InsertGenerationAttempt, drive
  <1>6. CASE GeneratesNothing \/ StoreDesire \/ DropDuplicate \/ EvalFails \/ Crash
    BY <1>2, <1>6 DEF GeneratesNothing, StoreDesire, DropDuplicate, EvalFails, Crash
  <1>7. CASE ExpireDesire
    BY <1>1, <1>2, <1>7 DEF ExpireDesire, Expired, Suppress, drive, growth
  <1> QED
    BY <1>2, <1>3, <1>4, <1>5, <1>6, <1>7
       DEF Next, Evaluate, Initiate, CheckTimeouts, ReplyStep, LookForDesire,
           ClaimForInteraction, ReleaseInteractionClaim, InitiateChat, Announce,
           AskWhileReading, Elapse, Pause, Resume, ClaimExpired, FinishExpired, ExpireFails,
           SendMessage, BeginReply, ClaimReply, SatisfyDesire, FinishReply, ReplyFails,
           drive, growth

\* Only the end of a generation takes pressure away, and only what it has seen.
LEMMA PressureStep ==
    ASSUME Typed, StampTells, Next
    PROVE  \A p \in value \ value' : p \in eval.seen
  <1>1. CASE value \subseteq value'
    BY <1>1
  <1>2. CASE StoreDesire \/ DropDuplicate
    BY <1>2 DEF StoreDesire, DropDuplicate, ResetValueIfUnchanged, StampTells
  <1> QED
    BY <1>1, <1>2
       DEF Next, PressureFromObservation, ApplyValueDelta, Evaluate, BeginEval,
           InsertGenerationAttempt, GeneratesNothing, EvalFails,
           Initiate, CheckTimeouts, ReplyStep, LookForDesire,
           ClaimForInteraction, ReleaseInteractionClaim, InitiateChat, Announce,
           AskWhileReading, Elapse, Pause, Resume, ClaimExpired, ExpireDesire, Expired, Suppress,
           FinishExpired, ExpireFails, SendMessage, BeginReply, ClaimReply, SatisfyDesire,
           FinishReply, ReplyFails, Crash, drive

-----------------------------------------------------------------------------
(* Messages, claims and who holds them *)

Claims == SentInOrder /\ ClaimsHeld /\ TurnKnows /\ ClockKnows

LEMMA OneTurn ==
    ASSUME NEW m \in Messages, NEW n \in Messages, HasTurn(m), HasTurn(n)
    PROVE  m = n
  BY DEF HasTurn, Messages

LEMMA FirstHasTurn ==
    ASSUME Typed, SentInOrder, Unsettled # {}
    PROVE  /\ FirstUnsettled \in Unsettled /\ FirstUnsettled \in Messages
           /\ \A n \in Messages : n < FirstUnsettled => message[n].status = "settled"
  <1>1. Unsettled \in SUBSET Nat /\ Unsettled \subseteq Messages
    BY DEF Unsettled, Messages
  <1>2. FirstUnsettled \in Unsettled /\ \A n \in Unsettled : FirstUnsettled <= n
    BY <1>1, Least DEF FirstUnsettled
  <1>3. ASSUME NEW n \in Messages, n < FirstUnsettled
        PROVE  message[n].status = "settled"
    <2>1. ~ (n \in Unsettled)
      BY <1>1, <1>2, <1>3 DEF Messages
    <2>2. message[n].status # "none"
      BY <1>1, <1>2, <1>3 DEF SentInOrder, Unsettled, Messages
    <2> QED BY <1>3, <2>1, <2>2, TypeParts DEF Typed, MessagesTyped, Unsettled
  <1> QED BY <1>1, <1>2, <1>3

LEMMA SentCount ==
    ASSUME ConstantsOK, NEW k \in 0..MaxMessages,
           \A m \in Messages : message[m].status # "none" <=> m <= k
    PROVE  Cardinality(Sent) = k
  <1>1. Sent = 1..k
    BY DEF Sent, Messages, ConstantsOK
  <1>2. k \in Nat
    OBVIOUS
  <1> QED BY <1>1, <1>2, FS_Interval

LEMMA SendMessageStep ==
    ASSUME ConstantsOK, Typed, Claims, NEW to, SendMessage(to)
    PROVE  Claims'
  <1> USE DEF Claims
  <1>1. PICK k \in 0..MaxMessages : \A m \in Messages : message[m].status # "none" <=> m <= k
    BY DEF SentInOrder
  <1>2. /\ k < MaxMessages
        /\ message' = [message EXCEPT ![k + 1] = [to |-> to, status |-> "pending"]]
        /\ UNCHANGED <<question, turn, clock>>
    BY <1>1, SentCount DEF SendMessage
  <1>3. k + 1 \in Messages /\ message \in [Messages -> [to : {None} \cup Questions,
             status : {"none", "pending", "replied", "covered", "settled"}]]
    BY <1>2, TypeParts DEF Typed, Messages, ConstantsOK, MessagesTyped
  <1>4. \A m \in Messages : message[m].status # "none" => message'[m] = message[m] /\ m <= k
    BY <1>1, <1>2, <1>3 DEF Messages
  <1>5. SentInOrder'
    <2>1. \A m \in Messages : message'[m].status # "none" <=> m = k + 1 \/ m <= k
      BY <1>1, <1>2, <1>3
    <2>2. \A m \in Messages : m = k + 1 \/ m <= k <=> m <= k + 1
      BY DEF Messages
    <2>3. k + 1 \in 0..MaxMessages
      BY <1>3 DEF Messages
    <2> QED BY <2>1, <2>2, <2>3 DEF SentInOrder
  <1>6. ASSUME NEW m \in Messages, HasTurn(m) PROVE HasTurn(m)'
    BY <1>4, <1>6 DEF HasTurn, Messages
  <1>7. ASSUME NEW q \in Questions, question[q].by # None
        PROVE  question[q].by \in Messages /\ message[question[q].by].status # "none"
    BY <1>7, TypeParts DEF Typed, QuestionsTyped, QuestionRow, ClaimsHeld, HasTurn
  <1>8. ClaimsHeld'
    BY <1>2, <1>4, <1>6, <1>7 DEF ClaimsHeld
  <1>9. turn.m # None => turn.m \in Messages
    BY TypeParts DEF Typed, CoroutinesTyped
  <1>10. TurnKnows' /\ ClockKnows'
    BY <1>2, <1>6, <1>9 DEF TurnKnows, ClockKnows
  <1> QED BY <1>5, <1>8, <1>10

LEMMA BeginReplyStep ==
    ASSUME ConstantsOK, Typed, Claims, BeginReply
    PROVE  Claims'
  <1> USE DEF Claims
  <1> DEFINE f == FirstUnsettled
  <1>1. /\ f \in Unsettled /\ f \in Messages
        /\ \A n \in Messages : n < f => message[n].status = "settled"
    BY FirstHasTurn DEF BeginReply
  <1>2. turn = NoTurn /\ UNCHANGED <<question, clock>>
    BY DEF BeginReply
  <1>3. CASE message[f].status = "pending"
    <2>1. turn' = [m |-> f, pc |-> "claiming", q |-> None] /\ UNCHANGED message
      BY <1>3 DEF BeginReply
    <2>2. HasTurn(f)
      BY <1>1, <1>3 DEF HasTurn
    <2>3. f # None
      BY <1>1 DEF Messages, None
    <2> QED BY <1>2, <2>1, <2>2, <2>3 DEF SentInOrder, ClaimsHeld, HasTurn, TurnKnows, ClockKnows
  <1>4. CASE message[f].status # "pending"
    <2>1. message' = [message EXCEPT ![f].status = "settled"] /\ UNCHANGED turn
      BY <1>4 DEF BeginReply
    <2>2. message[f].status \in {"replied", "covered"}
      BY <1>1, <1>4 DEF Unsettled
    <2>3. \A m \in Messages :
            /\ message'[m].to = message[m].to
            /\ m # f => message'[m] = message[m]
            /\ message'[f].status = "settled"
      BY <1>1, <2>1, TypeParts DEF Typed, MessagesTyped
    <2>4. SentInOrder'
      BY <2>2, <2>3 DEF SentInOrder
    <2>5. ASSUME NEW m \in Messages, HasTurn(m) PROVE HasTurn(m)'
      BY <2>2, <2>3, <2>5 DEF HasTurn
    <2>6. \A q \in Questions : question[q].by # None => question[q].by \in Messages
      BY TypeParts DEF Typed, QuestionsTyped, QuestionRow
    <2>7. ClaimsHeld'
      BY <1>2, <2>2, <2>3, <2>5, <2>6 DEF ClaimsHeld
    <2> QED BY <1>2, <2>1, <2>4, <2>7 DEF TurnKnows, ClockKnows, NoTurn
  <1> QED BY <1>3, <1>4

LEMMA ClaimReplyStep ==
    ASSUME ConstantsOK, Typed, Claims, ClaimReply
    PROVE  Claims'
  <1> USE DEF Claims
  <1> DEFINE m == turn.m
             q == IF Owned(m) # {} THEN CHOOSE r \in Owned(m) : TRUE ELSE Addressed(m)
  <1>1. /\ turn.pc = "claiming" /\ m # None /\ m \in Messages /\ HasTurn(m)
        /\ UNCHANGED <<message, clock>> /\ turn.q = None
    BY TypeParts DEF ClaimReply, TurnKnows, Typed, CoroutinesTyped
  <1>2. \A r \in Questions : r # None
    BY DEF Questions, None
  <1>3. \A r \in Owned(m) : r \in Questions /\ question[r].status = "claimed" /\ question[r].by = m
    BY <1>1 DEF Owned, ClaimsHeld, HasTurn
  <1>4. SentInOrder' /\ \A n : HasTurn(n)' <=> HasTurn(n)
    BY <1>1 DEF SentInOrder, HasTurn
  <1>5. CASE q \in Waiting \cup Owned(m)
    <2>1. q \in Questions /\ question[q].status \in {"waiting", "claimed"}
      BY <1>3, <1>5 DEF Waiting
    <2>2. question' = [question EXCEPT ![q].status = "claimed", ![q].by = m]
      BY <1>5 DEF ClaimReply
    <2>3. turn' = [turn EXCEPT !.q = q, !.pc = IF question[q].about # None
                                               THEN "satisfying" ELSE "drafting"]
      BY <1>5 DEF ClaimReply
    <2>4. question[q].by = m \/ Owned(m) = {}
      BY <1>3
    <2>5. \A r \in Questions : question[r].status = "claimed" /\ question[r].by = m => r = q
      <3>1. CASE Owned(m) = {}
        BY <3>1 DEF Owned
      <3>2. CASE Owned(m) # {}
        BY <1>1, <1>3, <3>2 DEF ClaimsHeld
      <3> QED BY <3>1, <3>2
    <2>6. message[m].to # None => message[m].to = q
      <3>1. CASE Owned(m) = {}
        BY <3>1 DEF Addressed
      <3>2. CASE Owned(m) # {}
        BY <1>1, <1>3, <3>2 DEF ClaimsHeld
      <3> QED BY <3>1, <3>2
    <2> HIDE DEF q
    <2>7. /\ question'[q].status = "claimed" /\ question'[q].by = m
          /\ question'[q].about = question[q].about
          /\ \A r \in Questions : r # q => question'[r] = question[r]
      BY <2>1, <2>2, TypeParts DEF Typed, QuestionsTyped, QuestionRow
    <2>8. clock.q # None => clock.q # q /\ clock.q \in Questions
      BY <1>1, <1>5, <1>3, TypeParts DEF ClockKnows, Waiting, Typed, CoroutinesTyped
    <2>9. ClockKnows'
      BY <1>1, <2>7, <2>8 DEF ClockKnows
    <2>10. ClaimsHeld'
      BY <1>1, <1>4, <2>1, <2>5, <2>6, <2>7 DEF ClaimsHeld
    <2>11. turn'.m = m /\ turn'.q = q
           /\ turn'.pc = IF question[q].about # None THEN "satisfying" ELSE "drafting"
      BY <2>3, TypeParts DEF Typed, CoroutinesTyped
    <2>12. TurnKnows'
      BY <1>1, <1>2, <1>4, <2>1, <2>7, <2>11 DEF TurnKnows
    <2> QED BY <1>4, <2>9, <2>10, <2>12
  <1>6. CASE ~ (q \in Waiting \cup Owned(m))
    <2>1. turn' = [turn EXCEPT !.pc = "drafting"] /\ UNCHANGED question
      BY <1>6 DEF ClaimReply
    <2>2. Owned(m) = {}
      BY <1>6
    <2>3. \A r \in Questions : question[r].status = "claimed" => question[r].by # m
      BY <2>2 DEF Owned
    <2>4. ClaimsHeld' /\ ClockKnows'
      BY <1>1, <1>4, <2>1 DEF ClaimsHeld, ClockKnows
    <2>5. turn'.m = m /\ turn'.q = None /\ turn'.pc = "drafting"
      BY <1>1, <2>1, TypeParts DEF Typed, CoroutinesTyped
    <2>6. TurnKnows'
      BY <1>1, <1>4, <2>1, <2>3, <2>5 DEF TurnKnows
    <2> QED BY <1>4, <2>4, <2>6
  <1> QED BY <1>5, <1>6

LEMMA AnsweredRow ==
    ASSUME Typed, turn.q \in {None} \cup Questions
    PROVE  /\ Answered(turn.q) \in [Questions -> QuestionRow]
           /\ \A q \in Questions : q # turn.q => Answered(turn.q)[q] = question[q]
           /\ turn.q \in Questions => /\ Answered(turn.q)[turn.q].status = "answered"
                                      /\ Answered(turn.q)[turn.q].by = question[turn.q].by
                                      /\ Answered(turn.q)[turn.q].about = question[turn.q].about
  <1>1. question \in [Questions -> QuestionRow]
    BY TypeParts DEF Typed, QuestionsTyped
  <1>2. CASE turn.q = None
    BY <1>1, <1>2 DEF Answered, None, Questions
  <1>3. CASE turn.q # None
    <2>1. turn.q \in Questions /\ Answered(turn.q)
              = [question EXCEPT ![turn.q] = [question[turn.q] EXCEPT !.status = "answered"]]
      BY <1>1, <1>3 DEF Answered
    <2>2. [question[turn.q] EXCEPT !.status = "answered"] \in QuestionRow
      BY <1>1, <2>1 DEF QuestionRow
    <2>3. /\ [question[turn.q] EXCEPT !.status = "answered"].status = "answered"
          /\ [question[turn.q] EXCEPT !.status = "answered"].by = question[turn.q].by
          /\ [question[turn.q] EXCEPT !.status = "answered"].about = question[turn.q].about
      BY <1>1, <2>1 DEF QuestionRow
    <2> QED BY <1>1, <1>3, <2>1, <2>2, <2>3
  <1> QED BY <1>2, <1>3

\* A reply leaves an answer, and perhaps a new question.
LEMMA FinishedRow ==
    ASSUME Typed, TurnKnows, NEW asks \in BOOLEAN, FinishReply(asks)
    PROVE  \A q \in Questions :
              \/ question'[q] = Answered(turn.q)[q]
              \/ /\ question[q].status = "none"
                 /\ question'[q].status = "waiting" /\ question'[q].by = None
                 /\ question'[q].about = None
  <1>1. CASE question' = Answered(turn.q)
    BY <1>1
  <1>2. CASE Unused # {} /\ question' = Asked(Answered(turn.q), None)
    <2>1. turn.q \in {None} \cup Questions
      BY TypeParts DEF Typed, CoroutinesTyped
    <2>2. NextQuestion \in Questions /\ question[NextQuestion].status = "none"
      BY <1>2, NextQuestionUnused
    <2>3. /\ question'[NextQuestion].status = "waiting" /\ question'[NextQuestion].by = None
          /\ question'[NextQuestion].about = None
          /\ \A q \in Questions : q # NextQuestion => question'[q] = Answered(turn.q)[q]
      BY <1>2, <2>1, <2>2, AnsweredRow DEF Asked, Unasked
    <2> QED BY <2>2, <2>3
  <1> QED BY <1>1, <1>2 DEF FinishReply

LEMMA FinishReplyStep ==
    ASSUME ConstantsOK, Typed, Claims, NEW asks \in BOOLEAN, FinishReply(asks)
    PROVE  Claims'
  <1> USE DEF Claims
  <1> DEFINE m == turn.m
  <1>1. /\ turn.pc = "drafting" /\ m # None /\ m \in Messages /\ HasTurn(m)
        /\ turn.q \in {None} \cup Questions
        /\ turn' = NoTurn /\ UNCHANGED clock
    BY TypeParts DEF FinishReply, TurnKnows, Typed, CoroutinesTyped
  <1>2. /\ turn.q # None => question[turn.q].status = "claimed" /\ question[turn.q].by = m
        /\ \A q \in Questions : question[q].status = "claimed" /\ question[q].by = m
                => q = turn.q
    BY <1>1 DEF TurnKnows, ClaimsHeld
  <1>3. \A n \in Messages :
            /\ message'[n].to = message[n].to
            /\ n = m => message'[n].status = "replied"
            /\ n # m => \/ message'[n].status = "covered" /\ message[n].status = "pending"
                        \/ message'[n] = message[n]
    <2>1. ASSUME NEW n \in Follows(m) PROVE message[n].status = "pending" /\ n \in Messages
      BY <2>1, <1>1 DEF Follows, Unanswered, Messages
    <2> HIDE DEF m
    <2>2. message' = [n \in Messages |->
                     IF n = m THEN [message[n] EXCEPT !.status = "replied"]
                     ELSE IF n \in Follows(m) THEN [message[n] EXCEPT !.status = "covered"]
                     ELSE message[n]]
      BY DEF FinishReply, m
    <2> QED BY <2>1, <2>2, TypeParts DEF Typed, MessagesTyped
  <1>4. SentInOrder'
    BY <1>1, <1>3 DEF SentInOrder, HasTurn
  <1>5. /\ \A q \in Questions : q # turn.q => Answered(turn.q)[q] = question[q]
        /\ turn.q # None => /\ Answered(turn.q)[turn.q].status = "answered"
                            /\ Answered(turn.q)[turn.q].by = m
    BY <1>1, <1>2, AnsweredRow
  <1>6. \A q \in Questions :
            \/ question'[q] = Answered(turn.q)[q]
            \/ /\ question[q].status = "none"
               /\ question'[q].status = "waiting" /\ question'[q].by = None
    BY FinishedRow
  <1>7. \A q \in Questions : question[q].by \in {None} \cup Messages
    BY TypeParts DEF Typed, QuestionsTyped, QuestionRow
  <1>8. \A q \in Questions : question[q].status = "claimed" /\ question[q].by # None => q = turn.q
    BY <1>1, <1>2, <1>7, OneTurn DEF ClaimsHeld
  <1>9. \A q \in Questions : question'[q].status = "claimed" => question'[q].by = None
    <2> SUFFICES ASSUME NEW q \in Questions, question'[q].status = "claimed"
                 PROVE  question'[q].by = None
      OBVIOUS
    <2>1. q # None
      BY DEF Questions, None
    <2>2. CASE question'[q] = Answered(turn.q)[q]
      BY <1>5, <1>8, <2>1, <2>2
    <2> QED BY <1>6, <2>2
  <1>10. ASSUME NEW q \in Questions
         PROVE  LET n == question'[q].by IN
                /\ question'[q].status = "none" => question'[q].about = None
                /\ question'[q].status \in {"none", "waiting", "expired"} => n = None
                /\ question'[q].status = "answered" =>
                      n # None /\ message'[n].status \in {"replied", "settled"}
                /\ n # None /\ message'[n].to # None => message'[n].to = q
    <2>1. CASE question'[q] = question[q] /\ q # turn.q
      BY <1>1, <1>3, <1>7, <2>1 DEF ClaimsHeld
    <2>2. CASE q = turn.q /\ question'[q] = Answered(turn.q)[q]
      <3>1. turn.q # None
        BY <2>2 DEF Questions, None
      <3>2. question'[q].status = "answered" /\ question'[q].by = m /\ question[q].by = m
        BY <1>2, <1>5, <2>2, <3>1
      <3>3. message[m].to # None => message[m].to = q
        BY <1>1, <3>2 DEF ClaimsHeld
      <3> QED BY <1>1, <1>3, <3>2, <3>3
    <2>3. CASE question'[q].status = "waiting" /\ question'[q].by = None
      BY <2>3
    <2> QED BY <1>5, <1>6, <2>1, <2>2, <2>3
  <1>11. ClaimsHeld'
    BY <1>9, <1>10 DEF ClaimsHeld
  <1>12. clock.q # None => clock.q \in Questions /\ clock.q # turn.q
    BY <1>1, <1>2, TypeParts DEF ClockKnows, Typed, CoroutinesTyped
  <1>13. ClockKnows'
    BY <1>1, <1>5, <1>6, <1>12 DEF ClockKnows
  <1>14. TurnKnows'
    BY <1>1 DEF TurnKnows, NoTurn
  <1> QED BY <1>4, <1>11, <1>13, <1>14

\* A question that is claimed for nobody in particular, released, expired or new.
LEMMA OwnerlessStep ==
    ASSUME ConstantsOK, Typed, Claims, UNCHANGED message,
           NEW s \in Questions,
           question'[s].by = None,
           question'[s].status \in {"waiting", "claimed", "expired"},
           \A q \in Questions : q # s =>
                /\ question'[q].status = question[q].status
                /\ question'[q].by = question[q].by
                /\ question'[q].about = question[q].about
    PROVE  SentInOrder' /\ ClaimsHeld'
  BY DEF Claims, SentInOrder, ClaimsHeld, HasTurn

LEMMA AskedStep ==
    ASSUME ConstantsOK, Typed, Claims, UNCHANGED <<message, turn, clock>>,
           NEW about \in {None} \cup Desires, Unused # {}, question' = Asked(question, about)
    PROVE  Claims'
  <1>1. /\ NextQuestion \in Questions /\ question[NextQuestion].status = "none"
        /\ question'[NextQuestion].by = None /\ question'[NextQuestion].status = "waiting"
        /\ \A q \in Questions : q # NextQuestion => question'[q] = question[q]
    BY NextQuestionUnused, TypeParts DEF Asked, Unasked, Typed, QuestionsTyped, None
  <1>2. SentInOrder' /\ ClaimsHeld'
    BY <1>1, OwnerlessStep
  <1>3. /\ turn.q # None => turn.q \in Questions /\ turn.q # NextQuestion
        /\ clock.q # None => clock.q \in Questions /\ clock.q # NextQuestion
    BY <1>1, TypeParts DEF Claims, TurnKnows, ClockKnows, Typed, CoroutinesTyped
  <1>4. \A n : HasTurn(n)' <=> HasTurn(n)
    BY DEF HasTurn
  <1>5. TurnKnows' /\ ClockKnows'
    BY <1>1, <1>3, <1>4 DEF Claims, TurnKnows, ClockKnows
  <1> QED BY <1>2, <1>5 DEF Claims

\* The clock and the timers touch no claim but their own.
LEMMA ClockStep ==
    ASSUME ConstantsOK, Typed, Claims,
           CheckTimeouts \/ ExpireFails \/ \E q \in Questions : Elapse(q) \/ Pause(q) \/ Resume(q)
    PROVE  Claims'
  <1> USE DEF Claims
  <1>0. UNCHANGED <<message, turn>> /\ \A n : HasTurn(n)' <=> HasTurn(n)
    BY DEF CheckTimeouts, ClaimExpired, ExpireDesire, FinishExpired, ExpireFails, Elapse, Pause,
           Resume, HasTurn
  <1>a. /\ question \in [Questions -> QuestionRow]
        /\ clock.q \in {None} \cup Questions /\ turn.q \in {None} \cup Questions
        /\ clock.pc \in {"idle", "expiring", "finishing"} /\ turn.m \in {None} \cup Messages
    BY TypeParts DEF Typed, QuestionsTyped, CoroutinesTyped
  <1>1. CASE \E q \in Questions : Elapse(q) \/ Pause(q) \/ Resume(q)
    <2>1. UNCHANGED clock /\ \A q \in Questions :
            /\ question'[q].status = question[q].status
            /\ question'[q].by = question[q].by
            /\ question'[q].about = question[q].about
      BY <1>a, <1>1 DEF Elapse, Pause, Resume, QuestionRow
    <2> QED BY <1>0, <1>a, <2>1 DEF SentInOrder, ClaimsHeld, TurnKnows, ClockKnows
  <1>2. CASE \E q \in Questions : ClaimExpired(q)
    <2>1. PICK q \in Questions : ClaimExpired(q)
      BY <1>2
    <2>2. /\ question'[q].status = "claimed" /\ question'[q].by = None
          /\ clock'.q = q /\ clock'.pc = "expiring"
          /\ question[q].status = "waiting"
          /\ \A r \in Questions : r # q => question'[r] = question[r]
      BY <1>a, <2>1 DEF ClaimExpired, ClaimsHeld, QuestionRow
    <2>3. q # None
      BY DEF Questions, None
    <2> QED BY <1>0, <1>a, <2>2, <2>3, OwnerlessStep DEF TurnKnows, ClockKnows
  <1>3. CASE ExpireDesire
    <2>1. UNCHANGED question /\ clock'.q = clock.q /\ clock'.pc = "finishing" /\ clock.pc # "idle"
      BY <1>3, TypeParts DEF ExpireDesire, Typed, CoroutinesTyped
    <2> QED BY <1>0, <1>a, <2>1 DEF SentInOrder, ClaimsHeld, TurnKnows, ClockKnows
  <1>4. CASE FinishExpired \/ ExpireFails
    <2>1. /\ clock.q \in Questions /\ clock' = NoClock
          /\ question[clock.q].status = "claimed" /\ question[clock.q].by = None
      BY <1>a, <1>4 DEF FinishExpired, ExpireFails, ClockKnows
    <2>2. /\ question'[clock.q].status \in {"waiting", "expired"} /\ question'[clock.q].by = None
          /\ \A r \in Questions : r # clock.q => question'[r] = question[r]
      BY <1>a, <1>4, <2>1 DEF FinishExpired, ExpireFails, ReleaseClaim, QuestionRow, None
    <2>3. turn.q # None => turn.q # clock.q
      BY <2>1 DEF TurnKnows
    <2> QED BY <1>0, <1>a, <2>1, <2>2, <2>3, OwnerlessStep DEF TurnKnows, ClockKnows, NoClock
  <1> QED BY <1>1, <1>2, <1>3, <1>4 DEF CheckTimeouts

LEMMA ReplyFailsStep == ASSUME ConstantsOK, Typed, Claims, ReplyFails PROVE Claims'
  <1> USE DEF Claims
  <1>1. /\ turn' = NoTurn /\ UNCHANGED <<message, clock>>
        /\ turn.q \in {None} \cup Questions /\ clock.q \in {None} \cup Questions
        /\ question \in [Questions -> QuestionRow]
    BY TypeParts DEF ReplyFails, Typed, CoroutinesTyped, QuestionsTyped
  <1>2. TurnKnows'
    BY <1>1 DEF TurnKnows, NoTurn
  <1>3. CASE turn.q = None
    BY <1>1, <1>2, <1>3 DEF ReplyFails, SentInOrder, ClaimsHeld, HasTurn, ClockKnows
  <1>4. CASE turn.q # None
    <2>1. question[turn.q].status = "claimed" /\ question[turn.q].by = turn.m /\ turn.m # None
      BY <1>4 DEF TurnKnows, ReplyFails
    <2>2. question' = [question EXCEPT ![turn.q].status = "waiting", ![turn.q].by = None]
      BY <1>4, <2>1 DEF ReplyFails, ReleaseClaim
    <2>3. /\ question'[turn.q].status = "waiting" /\ question'[turn.q].by = None
          /\ \A r \in Questions : r # turn.q => question'[r] = question[r]
      BY <1>1, <1>4, <2>2 DEF QuestionRow
    <2>4. clock.q # None => clock.q # turn.q
      BY <2>1 DEF ClockKnows
    <2> QED BY <1>1, <1>2, <1>4, <2>3, <2>4, OwnerlessStep DEF ClockKnows
  <1> QED BY <1>3, <1>4

LEMMA ClaimsStep == ASSUME ConstantsOK, Typed, Claims, Next PROVE Claims'
  <1> USE DEF Claims
  <1>1. CASE UNCHANGED <<question, message, turn, clock>>
    BY <1>1 DEF SentInOrder, ClaimsHeld, HasTurn, TurnKnows, ClockKnows
  <1>2. CASE InitiateChat \/ AskWhileReading
    <2>1. starter.d \in {None} \cup Desires
      BY TypeParts DEF Typed, CoroutinesTyped
    <2> QED BY <1>2, <2>1, AskedStep DEF InitiateChat, AskWhileReading
  <1>3. CASE SatisfyDesire
    <2>1. turn'.m = turn.m /\ turn'.q = turn.q /\ turn'.pc = "drafting" /\ turn.q # None
          /\ turn.pc = "satisfying" /\ UNCHANGED <<question, message, clock>>
      BY <1>3, TypeParts DEF SatisfyDesire, TurnKnows, Typed, CoroutinesTyped
    <2> QED BY <2>1 DEF SentInOrder, ClaimsHeld, HasTurn, TurnKnows, ClockKnows
  <1>4. CASE Crash
    BY <1>4 DEF Crash, SentInOrder, ClaimsHeld, HasTurn, TurnKnows, ClockKnows, NoTurn, NoClock
  <1> QED
    BY <1>1, <1>2, <1>3, <1>4, ElsewhereFrame, SendMessageStep, BeginReplyStep, ClaimReplyStep,
       FinishReplyStep, ClockStep, ReplyFailsStep
       DEF Next, Initiate, ReplyStep, Elsewhere

-----------------------------------------------------------------------------
(* What a step may do to a question and to a desire *)

SameQuestion(q) ==
    /\ question'[q].status = question[q].status
    /\ question'[q].by = question[q].by
    /\ question'[q].about = question[q].about

NewQuestion(q) ==
    /\ question[q].status = "none" /\ question'[q].status = "waiting"
    /\ \/ question'[q].about = None
       \/ InitiateChat /\ question'[q].about = starter.d

MovedQuestion(q) ==
    /\ question'[q].about = question[q].about
    /\ \/ ClaimReply /\ question[q].status = "waiting" /\ question'[q].status = "claimed"
          /\ turn'.q = q /\ (question[q].about # None => turn'.pc = "satisfying")
       \/ ClaimExpired(q) /\ question[q].status = "waiting" /\ question'[q].status = "claimed"
       \/ FinishExpired /\ clock.q = q /\ question'[q].status = "expired"
       \/ ExpireFails /\ clock.q = q /\ question'[q].status = "waiting"
       \/ ReplyFails /\ turn.q = q /\ question'[q].status = "waiting"
       \/ (\E asks \in BOOLEAN : FinishReply(asks)) /\ turn.q = q
             /\ question'[q].status = "answered"

QuestionSteps == \A q \in Questions : SameQuestion(q) \/ NewQuestion(q) \/ MovedQuestion(q)

LEMMA QuestionStep == ASSUME ConstantsOK, Typed, Claims, Next PROVE QuestionSteps
  <1> USE DEF Claims
  <1>a. /\ question \in [Questions -> QuestionRow]
        /\ clock.q \in {None} \cup Questions /\ turn.q \in {None} \cup Questions
        /\ turn.m \in {None} \cup Messages
    BY TypeParts DEF Typed, QuestionsTyped, CoroutinesTyped
  <1>1. CASE UNCHANGED question
    BY <1>1 DEF QuestionSteps, SameQuestion
  <1>2. ASSUME NEW s \in Questions, NewQuestion(s) \/ MovedQuestion(s) \/ SameQuestion(s),
               \A q \in Questions : q # s => question'[q] = question[q]
        PROVE  QuestionSteps
    BY <1>2 DEF QuestionSteps, SameQuestion
  <1>3. ASSUME NEW about, Unused # {}, question' = Asked(question, about)
        PROVE  /\ NextQuestion \in Questions /\ question[NextQuestion].status = "none"
               /\ question'[NextQuestion].about = about
               /\ question'[NextQuestion].status = "waiting"
               /\ \A q \in Questions : q # NextQuestion => question'[q] = question[q]
    BY <1>a, <1>3, NextQuestionUnused DEF Asked, Unasked
  <1>4. CASE InitiateChat
    <2>1. Unused # {} /\ question' = Asked(question, starter.d)
      BY <1>4 DEF InitiateChat
    <2> QED BY <1>2, <1>3, <1>4, <2>1 DEF NewQuestion
  <1>5. CASE AskWhileReading
    <2>1. Unused # {} /\ question' = Asked(question, None)
      BY <1>5 DEF AskWhileReading
    <2> QED BY <1>2, <1>3, <2>1 DEF NewQuestion
  <1>6. CASE \E q \in Questions : Elapse(q) \/ Pause(q) \/ Resume(q)
    <2>1. PICK q \in Questions : Elapse(q) \/ Pause(q) \/ Resume(q)
      BY <1>6
    <2>2. SameQuestion(q) /\ \A r \in Questions : r # q => question'[r] = question[r]
      BY <1>a, <2>1 DEF Elapse, Pause, Resume, QuestionRow, SameQuestion
    <2> QED BY <1>2, <2>2
  <1>7. CASE \E q \in Questions : ClaimExpired(q)
    <2>1. PICK q \in Questions : ClaimExpired(q)
      BY <1>7
    <2>2. /\ question[q].status = "waiting" /\ question'[q].status = "claimed"
          /\ question'[q].about = question[q].about
          /\ \A r \in Questions : r # q => question'[r] = question[r]
      BY <1>a, <2>1 DEF ClaimExpired, QuestionRow
    <2> QED BY <1>2, <2>1, <2>2 DEF MovedQuestion
  <1>8. CASE FinishExpired \/ ExpireFails
    <2>1. /\ clock.q \in Questions
          /\ question[clock.q].status = "claimed" /\ question[clock.q].by = None
      BY <1>a, <1>8 DEF FinishExpired, ExpireFails, ClockKnows
    <2>2. /\ question'[clock.q].about = question[clock.q].about
          /\ \A r \in Questions : r # clock.q => question'[r] = question[r]
      BY <1>a, <1>8, <2>1 DEF FinishExpired, ExpireFails, ReleaseClaim, QuestionRow
    <2>3. FinishExpired => question'[clock.q].status = "expired"
      BY <1>a, <2>1 DEF FinishExpired, QuestionRow
    <2>4. ExpireFails => question'[clock.q].status = "waiting"
      BY <1>a, <2>1 DEF ExpireFails, ReleaseClaim, QuestionRow
    <2> QED BY <1>2, <1>8, <2>1, <2>2, <2>3, <2>4 DEF MovedQuestion
  <1>9. CASE ClaimReply
    <2> DEFINE new == IF Owned(turn.m) # {} THEN CHOOSE r \in Owned(turn.m) : TRUE
                      ELSE Addressed(turn.m)
    <2>1. Waiting \cup Owned(turn.m) \subseteq Questions
      BY DEF Waiting, Owned
    <2>2. CASE new \in Waiting \cup Owned(turn.m)
      <3>1. new \in Questions
            /\ \/ new \in Waiting
               \/ question[new].by = turn.m /\ question[new].status \in {"claimed", "answered"}
        <4> HIDE DEF new
        <4> QED BY <2>1, <2>2 DEF Owned
      <3>2. /\ question' = [question EXCEPT ![new].status = "claimed", ![new].by = turn.m]
            /\ turn' = [turn EXCEPT !.q = new, !.pc = IF question[new].about # None
                                                      THEN "satisfying" ELSE "drafting"]
        BY <1>9, <2>2 DEF ClaimReply
      <3>3. turn'.q = new /\ (question[new].about # None => turn'.pc = "satisfying")
        BY <3>2, TypeParts DEF Typed, CoroutinesTyped
      <3> HIDE DEF new
      <3>4. /\ question'[new].status = "claimed" /\ question'[new].by = turn.m
            /\ question'[new].about = question[new].about
            /\ \A r \in Questions : r # new => question'[r] = question[r]
        BY <1>a, <3>1, <3>2 DEF QuestionRow
      <3>5. CASE new \in Waiting
        <4>1. question[new].status = "waiting"
          BY <3>5 DEF Waiting
        <4> QED BY <1>2, <1>9, <3>1, <3>3, <3>4, <4>1 DEF MovedQuestion
      <3>6. CASE question[new].status = "answered" /\ question[new].by = turn.m
        BY <1>9, <3>1, <3>6 DEF ClaimReply, ClaimsHeld, TurnKnows, HasTurn
      <3>7. CASE question[new].status = "claimed" /\ question[new].by = turn.m
        <4>1. SameQuestion(new)
          BY <3>4, <3>7 DEF SameQuestion
        <4> QED BY <1>2, <3>1, <3>4, <4>1
      <3> QED BY <3>1, <3>5, <3>6, <3>7
    <2>3. CASE ~ (new \in Waiting \cup Owned(turn.m))
      BY <1>1, <1>9, <2>3 DEF ClaimReply
    <2> QED BY <2>2, <2>3
  <1>10. CASE ReplyFails
    <2>1. CASE turn.q = None
      BY <1>1, <1>10, <2>1 DEF ReplyFails
    <2>2. CASE turn.q # None
      <3>1. question[turn.q].status = "claimed" /\ question[turn.q].by = turn.m
        BY <2>2 DEF TurnKnows
      <3>2. question' = [question EXCEPT ![turn.q].status = "waiting", ![turn.q].by = None]
        BY <1>10, <2>2, <3>1 DEF ReplyFails, ReleaseClaim
      <3>3. /\ question'[turn.q].status = "waiting"
            /\ question'[turn.q].about = question[turn.q].about
            /\ \A r \in Questions : r # turn.q => question'[r] = question[r]
        BY <1>a, <2>2, <3>2 DEF QuestionRow
      <3> QED BY <1>2, <1>a, <1>10, <2>2, <3>3 DEF MovedQuestion
    <2> QED BY <2>1, <2>2
  <1>11. CASE \E asks \in BOOLEAN : FinishReply(asks)
    <2>1. /\ Answered(turn.q) \in [Questions -> QuestionRow]
          /\ \A q \in Questions : q # turn.q => Answered(turn.q)[q] = question[q]
          /\ turn.q \in Questions => /\ Answered(turn.q)[turn.q].status = "answered"
                                     /\ Answered(turn.q)[turn.q].about = question[turn.q].about
      BY <1>a, AnsweredRow
    <2>2. \A q \in Questions :
            \/ question'[q] = Answered(turn.q)[q]
            \/ /\ question[q].status = "none" /\ question'[q].status = "waiting"
               /\ question'[q].about = None
      BY <1>11, FinishedRow
    <2>3. ASSUME NEW q \in Questions PROVE SameQuestion(q) \/ NewQuestion(q) \/ MovedQuestion(q)
      <3>1. CASE question'[q] = Answered(turn.q)[q] /\ q # turn.q
        BY <2>1, <3>1 DEF SameQuestion
      <3>2. CASE question'[q] = Answered(turn.q)[q] /\ q = turn.q
        BY <1>11, <2>1, <3>2 DEF MovedQuestion
      <3> QED BY <2>2, <3>1, <3>2 DEF NewQuestion
    <2> QED BY <2>3 DEF QuestionSteps
  <1> QED
    BY <1>1, <1>4, <1>5, <1>6, <1>7, <1>8, <1>9, <1>10, <1>11, ElsewhereFrame
       DEF Next, Initiate, ReplyStep, CheckTimeouts, Elsewhere, ExpireDesire, SendMessage,
           BeginReply, SatisfyDesire, Crash

\* A desire stays as it is, or one of five things happens to it.
SameDesire(d) == desire'[d] = desire[d]

EndsGeneration ==
    /\ StoreDesire \/ DropDuplicate
    /\ eval.pc = "storing" /\ eval' = NoEval /\ attempt' = None

MovedDesire(d) ==
    \/ /\ EndsGeneration /\ desire'[d].progress = desire[d].progress
       /\ \/ d = attempt /\ desire'[d].status \in {"pending", "trimmed"}
          \/ desire[d].status = "pending" /\ desire'[d].status = "trimmed"
    \/ /\ ClaimForInteraction /\ desire'[d].progress = desire[d].progress
       /\ desire[d].status = "pending" /\ desire'[d].status = "active"
       /\ starter'.d = d /\ starter'.pc = "composing"
    \/ /\ ReleaseInteractionClaim \/ Announce
       /\ desire'[d].progress = desire[d].progress
       /\ desire[d].status = "active" /\ desire'[d].status = "pending"
    \/ /\ ExpireDesire /\ d = question[clock.q].about /\ desire'[d].progress = desire[d].progress
       /\ desire[d].status \in {"pending", "active"} /\ desire'[d].status = "expired"
    \/ /\ SatisfyDesire /\ d = question[turn.q].about
       /\ desire[d].status \in {"pending", "active"}
       /\ desire'[d].progress = desire[d].progress + 1
       /\ desire'[d].status = IF desire[d].progress + 1 < GoalCount THEN "pending" ELSE "satisfied"

DesireSteps == \A d \in Desires : SameDesire(d) \/ MovedDesire(d)

DesireRow == [status : {"none", "pending", "active", "satisfied", "expired", "trimmed"},
              progress : 0..GoalCount]

LEMMA DesireStep == ASSUME ConstantsOK, Typed, Claims, DesiresEarned, Next PROVE DesireSteps
  <1>a. /\ desire \in [Desires -> DesireRow]
        /\ starter.d \in {None} \cup Desires
        /\ attempt \in {None} \cup Desires
        /\ question \in [Questions -> QuestionRow]
        /\ clock.q \in {None} \cup Questions /\ turn.q \in {None} \cup Questions
    BY TypeParts DEF Typed, DesiresTyped, CoroutinesTyped, QuestionsTyped, DesireRow
  <1>b. \A d \in Desires : d # None
    BY DEF Desires, None
  <1>1. CASE UNCHANGED desire
    BY <1>1 DEF DesireSteps, SameDesire
  <1>2. ASSUME NEW s \in Desires, MovedDesire(s),
               \A d \in Desires : d # s => desire'[d] = desire[d]
        PROVE  DesireSteps
    BY <1>2 DEF DesireSteps, SameDesire
  <1>3. CASE StoreDesire
    <2>1. PICK removed \in Trims(PendingDesires \cup {attempt}) :
            desire' = [d \in Desires |->
                      IF d \in removed THEN [desire[d] EXCEPT !.status = "trimmed"]
                      ELSE IF d = attempt THEN [desire[d] EXCEPT !.status = "pending"]
                      ELSE desire[d]]
      BY <1>3 DEF StoreDesire
    <2>2. \A d \in removed : d = attempt \/ desire[d].status = "pending"
      BY DEF Trims, PendingDesires
    <2>3. EndsGeneration
      BY <1>3 DEF StoreDesire, EndsGeneration
    <2>4. ASSUME NEW d \in Desires PROVE SameDesire(d) \/ MovedDesire(d)
      <3>1. CASE d \in removed
        <4>1. desire'[d].status = "trimmed" /\ desire'[d].progress = desire[d].progress
          BY <1>a, <2>1, <3>1 DEF DesireRow
        <4> QED BY <2>2, <2>3, <3>1, <4>1 DEF MovedDesire
      <3>2. CASE ~ (d \in removed) /\ d = attempt
        <4>1. desire'[d].status = "pending" /\ desire'[d].progress = desire[d].progress
          BY <1>a, <2>1, <3>2 DEF DesireRow
        <4> QED BY <2>3, <3>2, <4>1 DEF MovedDesire
      <3>3. CASE ~ (d \in removed) /\ d # attempt
        BY <2>1, <3>3 DEF SameDesire
      <3> QED BY <3>1, <3>2, <3>3
    <2> QED BY <2>4 DEF DesireSteps
  <1>4. CASE DropDuplicate
    <2>1. EndsGeneration /\ desire' = [desire EXCEPT ![attempt].status = "trimmed"]
      BY <1>4 DEF DropDuplicate, EndsGeneration
    <2>2. attempt \in Desires
      BY <1>a, <2>1 DEF EndsGeneration, DesiresEarned
    <2>3. /\ desire'[attempt].status = "trimmed"
          /\ desire'[attempt].progress = desire[attempt].progress
          /\ \A d \in Desires : d # attempt => desire'[d] = desire[d]
      BY <1>a, <2>1, <2>2 DEF DesireRow
    <2> QED BY <1>2, <2>1, <2>2, <2>3 DEF MovedDesire
  <1>5. CASE ClaimForInteraction
    <2>1. starter.d \in Desires
      BY <1>a, <1>5 DEF ClaimForInteraction, DesiresEarned
    <2>2. CASE desire[starter.d].status = "pending"
      <3>1. /\ desire'[starter.d].status = "active"
            /\ desire'[starter.d].progress = desire[starter.d].progress
            /\ \A d \in Desires : d # starter.d => desire'[d] = desire[d]
        BY <1>a, <1>5, <2>1, <2>2 DEF ClaimForInteraction, DesireRow
      <3>2. starter'.d = starter.d /\ starter'.pc = "composing"
        BY <1>5, <2>2, TypeParts DEF ClaimForInteraction, Typed, CoroutinesTyped
      <3> QED BY <1>2, <1>5, <2>1, <2>2, <3>1, <3>2 DEF MovedDesire
    <2> QED BY <1>1, <1>5, <2>2 DEF ClaimForInteraction
  <1>6. CASE ReleaseInteractionClaim \/ Announce
    <2>1. starter.d \in Desires
      BY <1>a, <1>6 DEF ReleaseInteractionClaim, Announce, DesiresEarned
    <2>2. CASE desire[starter.d].status = "active" /\ desire' = Released(starter.d)
      <3>1. /\ desire'[starter.d].status = "pending"
            /\ desire'[starter.d].progress = desire[starter.d].progress
            /\ \A d \in Desires : d # starter.d => desire'[d] = desire[d]
        BY <1>a, <2>1, <2>2 DEF Released, DesireRow
      <3> QED BY <1>2, <1>6, <2>1, <2>2, <3>1 DEF MovedDesire
    <2>3. CASE desire[starter.d].status # "active"
      BY <1>1, <1>6, <2>3 DEF ReleaseInteractionClaim, Announce, Released
    <2> QED BY <1>1, <1>6, <2>2, <2>3 DEF ReleaseInteractionClaim, Announce
  <1>7. CASE ExpireDesire
    <2> DEFINE e == question[clock.q].about
    <2>1. clock.q \in Questions /\ e \in {None} \cup Desires
      BY <1>a, <1>7 DEF ExpireDesire, Claims, ClockKnows, QuestionRow
    <2>2. CASE e # None /\ desire[e].status \in {"pending", "active"}
      <3>1. desire' = [desire EXCEPT ![e].status = "expired"] /\ e \in Desires
        BY <1>7, <2>1, <2>2 DEF ExpireDesire, Expired
      <3> HIDE DEF e
      <3>2. /\ desire'[e].status = "expired" /\ desire'[e].progress = desire[e].progress
            /\ \A d \in Desires : d # e => desire'[d] = desire[d]
        BY <1>a, <3>1 DEF DesireRow
      <3> QED BY <1>2, <1>7, <2>2, <3>1, <3>2 DEF MovedDesire, e
    <2>3. CASE ~ (e # None /\ desire[e].status \in {"pending", "active"})
      BY <1>1, <1>7, <2>3 DEF ExpireDesire, Expired, drive
    <2> QED BY <2>2, <2>3
  <1>8. CASE SatisfyDesire
    <2> DEFINE e == question[turn.q].about
    <2>1. turn.q \in Questions /\ e \in Desires
      BY <1>a, <1>8 DEF SatisfyDesire, Claims, TurnKnows, QuestionRow
    <2>2. desire' = Satisfied(e)
      BY <1>8 DEF SatisfyDesire
    <2>3. CASE desire[e].status \in {"pending", "active"}
      <3> HIDE DEF e
      <3>1. desire' = [desire EXCEPT ![e] =
                [status |-> IF desire[e].progress + 1 < GoalCount THEN "pending" ELSE "satisfied",
                 progress |-> desire[e].progress + 1]]
        BY <2>2, <2>3 DEF Satisfied
      <3>2. /\ desire'[e].progress = desire[e].progress + 1
            /\ desire'[e].status
                 = IF desire[e].progress + 1 < GoalCount THEN "pending" ELSE "satisfied"
            /\ \A d \in Desires : d # e => desire'[d] = desire[d]
        BY <1>a, <2>1, <3>1
      <3> QED BY <1>2, <1>8, <2>1, <2>3, <3>2 DEF MovedDesire, e
    <2>4. CASE ~ (desire[e].status \in {"pending", "active"})
      BY <1>1, <2>2, <2>4 DEF Satisfied
    <2> QED BY <2>3, <2>4
  <1> QED
    BY <1>1, <1>3, <1>4, <1>5, <1>6, <1>7, <1>8
       DEF Next, Evaluate, Initiate, CheckTimeouts, ReplyStep, PressureFromObservation,
           BeginEval, InsertGenerationAttempt,
           GeneratesNothing, EvalFails, LookForDesire, InitiateChat, AskWhileReading,
           Elapse, Pause, Resume, ClaimExpired, FinishExpired, ExpireFails, SendMessage,
           BeginReply, ClaimReply, FinishReply, ReplyFails, Crash, drive

LEMMA MovesKeep ==
    ASSUME ConstantsOK, Typed, Claims, DesiresEarned, Next
    PROVE  /\ QuestionSteps /\ DesireSteps
           \* what a question is about is settled when it is asked
           /\ \A q \in Questions : question[q].about # None => question'[q].about = question[q].about
           \* a chat that ran out stays so
           /\ \A q \in Questions : RanOut(q) => RanOut(q)'
           \* what has been generated stays generated
           /\ \A d \in Desires : desire[d].status # "none" => desire'[d].status # "none"
  <1>1. QuestionSteps /\ DesireSteps
    BY QuestionStep, DesireStep
  <1>a. /\ clock.q \in {None} \cup Questions /\ turn.q \in {None} \cup Questions
        /\ turn.m \in {None} \cup Messages
        /\ clock.pc \in {"idle", "expiring", "finishing"}
    BY TypeParts DEF Typed, CoroutinesTyped
  <1>b. \A q \in Questions : q # None
    BY DEF Questions, None
  <1>2. ASSUME NEW q \in Questions, question[q].about # None
        PROVE  question'[q].about = question[q].about
    BY <1>1, <1>2 DEF QuestionSteps, SameQuestion, NewQuestion, MovedQuestion, Claims, ClaimsHeld
  <1>3. ASSUME NEW q \in Questions, RanOut(q) PROVE RanOut(q)'
    <2>1. CASE question[q].status = "expired"
      BY <1>1, <1>b, <2>1 DEF QuestionSteps, SameQuestion, NewQuestion, MovedQuestion, RanOut,
         FinishExpired, ExpireFails, ReplyFails, FinishReply, Claims, ClockKnows, TurnKnows
    <2>2. CASE /\ question[q].status = "claimed" /\ question[q].by = None
               /\ ~ (clock.q = q /\ clock.pc = "expiring")
      <3>1. turn.q # q
        <4>1. ASSUME turn.q = q PROVE FALSE
          BY <1>b, <2>2, <4>1 DEF Claims, TurnKnows
        <4> QED BY <4>1
      <3>2. CASE SameQuestion(q)
        <4>1. clock'.q = q => clock'.pc # "expiring" \/ clock' = clock
          <5>1. ~ ClaimExpired(q)
            BY <2>2 DEF ClaimExpired
          <5>2. ASSUME NEW r \in Questions, ClaimExpired(r), clock'.q = q PROVE FALSE
            BY <5>1, <5>2 DEF ClaimExpired
          <5>3. CASE clock' = clock \/ clock' = NoClock \/ clock'.pc = "finishing"
            BY <1>b, <5>3 DEF NoClock
          <5>4. \/ clock' = clock \/ clock' = NoClock
                \/ clock'.pc = "finishing" \/ \E r \in Questions : ClaimExpired(r)
            BY <1>a, ElsewhereFrame, TypeParts
               DEF Next, Elsewhere, Initiate, InitiateChat, AskWhileReading, Elapse, Pause, Resume,
                   CheckTimeouts, ExpireDesire, FinishExpired, ExpireFails, SendMessage, ReplyStep,
                   BeginReply, ClaimReply, SatisfyDesire, FinishReply, ReplyFails, Crash,
                   Typed, CoroutinesTyped
          <5> QED BY <5>2, <5>3, <5>4
        <4> QED BY <2>2, <3>2, <4>1 DEF SameQuestion, RanOut
      <3>3. CASE MovedQuestion(q)
        BY <2>2, <3>1, <3>3 DEF MovedQuestion, RanOut, ExpireFails
      <3> QED BY <1>1, <2>2, <3>2, <3>3 DEF QuestionSteps, NewQuestion
    <2> QED BY <1>3, <2>1, <2>2 DEF RanOut
  <1>4. ASSUME NEW d \in Desires, desire[d].status # "none" PROVE desire'[d].status # "none"
    BY <1>1, <1>4 DEF DesireSteps, SameDesire, MovedDesire
  <1> QED BY <1>1, <1>2, <1>3, <1>4

-----------------------------------------------------------------------------
(* Desires and the chats about them *)

LEMMA EarnedStep ==
    ASSUME ConstantsOK, Typed, Claims, DesiresEarned, Next
    PROVE  DesiresEarned'
  <1>1. /\ QuestionSteps /\ DesireSteps
        /\ \A q \in Questions :
              question[q].about # None => question'[q].about = question[q].about
        /\ \A q \in Questions : RanOut(q) => RanOut(q)'
        /\ \A d \in Desires : desire[d].status # "none" => desire'[d].status # "none"
    BY MovesKeep
  <1>a. /\ clock.q \in {None} \cup Questions
        /\ question \in [Questions -> QuestionRow]
        /\ starter \in [pc : {"idle", "claiming", "composing", "announcing"},
                        d : {None} \cup Desires]
        /\ eval.pc \in {"idle", "generating", "storing"}
        /\ attempt \in {None} \cup Desires
        /\ desire \in [Desires -> DesireRow]
        /\ GoalCount \in Nat \ {0}
    BY TypeParts DEF Typed, CoroutinesTyped, QuestionsTyped, DesiresTyped, DesireRow, ConstantsOK
  <1>b. (\A q \in Questions : q # None) /\ (\A d \in Desires : d # None)
    BY DEF Questions, Desires, None
  <1>2. ASSUME NEW d \in Desires
        PROVE  /\ desire'[d].status \in {"none", "pending", "active"} => desire'[d].progress < GoalCount
               /\ desire'[d].status = "satisfied" => desire'[d].progress > 0
    <2>1. desire[d] \in DesireRow
      BY <1>a
    <2>2. CASE SameDesire(d)
      BY <2>2 DEF SameDesire, DesiresEarned
    <2>3. CASE MovedDesire(d) /\ EndsGeneration
      <3>1. d = attempt => desire[d].status = "none"
        BY <1>b DEF DesiresEarned
      <3>2. /\ desire'[d].progress = desire[d].progress
            /\ desire'[d].status \in {"pending", "trimmed"}
            /\ d = attempt \/ desire[d].status = "pending"
        <4>1. eval' # eval
          BY <2>3 DEF EndsGeneration, NoEval
        <4>2. ~ (ClaimForInteraction \/ ReleaseInteractionClaim \/ Announce \/ ExpireDesire
                 \/ SatisfyDesire)
          BY <4>1 DEF ClaimForInteraction, ReleaseInteractionClaim, Announce, ExpireDesire,
             SatisfyDesire, growth
        <4> QED BY <2>3, <4>2 DEF MovedDesire
      <3> QED BY <3>1, <3>2 DEF DesiresEarned
    <2>4. CASE MovedDesire(d) /\ ~ EndsGeneration
      BY <1>a, <2>1, <2>4 DEF MovedDesire, DesiresEarned, DesireRow
    <2> QED BY <1>1, <2>2, <2>3, <2>4 DEF DesireSteps
  <1>3. ASSUME NEW d \in Desires, desire'[d].status = "expired"
        PROVE  \E q \in Questions : question'[q].about = d /\ RanOut(q)'
    <2>1. CASE desire[d].status = "expired"
      BY <1>1, <1>b, <2>1 DEF DesiresEarned
    <2>2. CASE desire[d].status # "expired"
      <3>1. ExpireDesire /\ d = question[clock.q].about
        BY <1>1, <1>3, <2>2 DEF DesireSteps, SameDesire, MovedDesire
      <3>2. /\ clock.q \in Questions /\ clock'.pc = "finishing"
            /\ question' = question
            /\ question[clock.q].status = "claimed" /\ question[clock.q].by = None
        BY <1>a, <3>1, TypeParts
           DEF ExpireDesire, Claims, ClockKnows, Typed, CoroutinesTyped
      <3>3. PICK q \in Questions : q = clock.q
        BY <3>2
      <3>4. RanOut(q)'
        BY <3>2, <3>3 DEF RanOut
      <3> QED BY <3>1, <3>2, <3>3, <3>4
    <2> QED BY <2>1, <2>2
  <1>4. ASSUME NEW q \in Questions, question'[q].about # None
        PROVE  desire'[question'[q].about].status # "none"
    <2>1. CASE question'[q].about = question[q].about
      BY <1>1, <1>4, <1>a, <2>1 DEF DesiresEarned, QuestionRow
    <2>2. CASE question'[q].about # question[q].about
      <3>1. InitiateChat /\ question'[q].about = starter.d
        BY <1>1, <1>4, <2>2 DEF QuestionSteps, SameQuestion, NewQuestion, MovedQuestion
      <3> QED BY <1>4, <3>1 DEF InitiateChat, DesiresEarned, drive
    <2> QED BY <2>1, <2>2
  <1>5. (starter'.pc = "idle" <=> starter'.d = None)
        /\ (starter'.d # None => desire'[starter'.d].status # "none")
    <2>1. CASE \E d \in Desires : LookForDesire(d)
      BY <1>b, <2>1 DEF LookForDesire, drive
    <2>2. CASE starter'.d = starter.d /\ starter'.pc # "idle" /\ starter.pc # "idle"
      BY <1>1, <1>a, <2>2 DEF DesiresEarned
    <2>3. CASE starter' = NoStart
      BY <2>3 DEF NoStart
    <2>4. CASE UNCHANGED starter
      BY <1>1, <1>a, <2>4 DEF DesiresEarned
    <2> QED
      BY <1>a, <2>1, <2>2, <2>3, <2>4
         DEF Next, Evaluate, Initiate, CheckTimeouts, ReplyStep, PressureFromObservation,
             BeginEval, InsertGenerationAttempt, StoreDesire, DropDuplicate,
             GeneratesNothing, EvalFails, ClaimForInteraction, ReleaseInteractionClaim,
             InitiateChat, Announce, AskWhileReading,
             Elapse, Pause, Resume, ClaimExpired, ExpireDesire, FinishExpired, ExpireFails,
             SendMessage, BeginReply, ClaimReply, SatisfyDesire, FinishReply, ReplyFails, Crash
  <1>6. /\ attempt' # None => desire'[attempt'].status = "none"
        /\ eval'.pc = "storing" => attempt' # None
        /\ eval'.pc = "generating" => attempt' = None /\ Fresh' # {}
    <2>1. CASE InsertGenerationAttempt
      <3>1. Fresh \in SUBSET Nat /\ Fresh # {} /\ Fresh \subseteq Desires
        BY <2>1 DEF InsertGenerationAttempt, DesiresEarned, Fresh, Desires
      <3>2. attempt' \in Fresh
        BY <2>1, <3>1, Least DEF InsertGenerationAttempt
      <3>3. eval'.pc # "generating" /\ desire' = desire
        BY <2>1, TypeParts DEF InsertGenerationAttempt, Typed, CoroutinesTyped, drive
      <3> QED BY <1>b, <3>1, <3>2, <3>3 DEF Fresh
    <2>2. CASE BeginEval
      <3>1. desire' = desire /\ attempt' = attempt /\ Fresh' = Fresh
        BY <2>2 DEF BeginEval, Fresh
      <3>2. eval'.pc = Target
        BY <2>2 DEF BeginEval, NoEval
      <3> QED BY <3>1, <3>2 DEF Target, DesiresEarned
    <2>3. CASE EndsGeneration
      BY <2>3 DEF EndsGeneration, NoEval
    <2>4. CASE attempt' = attempt /\ (eval' = eval \/ eval' = NoEval) /\ ~ EndsGeneration
      <3>1. \A d \in Desires : desire[d].status = "none" => desire'[d].status = "none"
        BY <1>1, <2>4 DEF DesireSteps, SameDesire, MovedDesire
      <3>2. Fresh # {} => Fresh' # {}
        BY <3>1 DEF Fresh
      <3> QED BY <1>a, <2>4, <3>1, <3>2 DEF DesiresEarned, NoEval
    <2> QED
      BY <1>a, <2>1, <2>2, <2>3, <2>4
         DEF Next, Evaluate, Initiate, CheckTimeouts, ReplyStep, PressureFromObservation,
             StoreDesire, DropDuplicate, EndsGeneration, LookForDesire,
             GeneratesNothing, EvalFails, ClaimForInteraction, ReleaseInteractionClaim,
             InitiateChat, Announce, AskWhileReading,
             Elapse, Pause, Resume, ClaimExpired, ExpireDesire, FinishExpired, ExpireFails,
             SendMessage, BeginReply, ClaimReply, SatisfyDesire, FinishReply, ReplyFails, Crash,
             growth
  <1> QED BY <1>2, <1>3, <1>4, <1>5, <1>6 DEF DesiresEarned

LEMMA MetKept ==
    ASSUME ConstantsOK, Typed, Claims, DesiresEarned, Next,
           NEW q \in Questions, NEW d \in Desires, Met(q, d)
    PROVE  Met(q, d)'
  <1>1. /\ DesireSteps
        /\ \A r \in Questions :
              question[r].about # None => question'[r].about = question[r].about
    BY MovesKeep
  <1>2. desire[d].progress \in Nat /\ d # None
    BY TypeParts DEF Typed, DesiresTyped, Desires, None
  <1>3. CASE desire[d].status = "trimmed"
    <2>1. attempt # d
      BY <1>2, <1>3 DEF DesiresEarned
    <2> QED BY <1>1, <1>3, <2>1 DEF DesireSteps, SameDesire, MovedDesire, Met
  <1>4. CASE desire[d].progress > 0
    BY <1>1, <1>2, <1>4 DEF DesireSteps, SameDesire, MovedDesire, Met
  <1>5. CASE \E r \in Questions : r # q /\ question[r].about = d
    BY <1>1, <1>2, <1>5 DEF Met
  <1> QED BY <1>3, <1>4, <1>5 DEF Met

\* A reply that answers no chat may draft at once.
LEMMA ClaimedChat ==
    ASSUME Typed, Claims, ClaimReply, NEW q \in Questions, turn'.q = q
    PROVE  /\ question[q].status # "none"
           /\ turn'.pc = "satisfying" <=> question[q].about # None
           /\ turn'.pc \in {"satisfying", "drafting"}
  <1> DEFINE new == IF Owned(turn.m) # {} THEN CHOOSE r \in Owned(turn.m) : TRUE
                    ELSE Addressed(turn.m)
  <1>1. q # None /\ turn.q = None
    BY DEF Questions, None, Claims, TurnKnows, ClaimReply
  <1>2. CASE new \in Waiting \cup Owned(turn.m)
    <2>1. turn' = [turn EXCEPT !.q = new, !.pc = IF question[new].about # None
                                                  THEN "satisfying" ELSE "drafting"]
      BY <1>2 DEF ClaimReply
    <2>2. turn \in [m : {None} \cup Messages,
                    pc : {"idle", "claiming", "satisfying", "drafting"},
                    q : {None} \cup Questions]
      BY TypeParts DEF Typed, CoroutinesTyped
    <2> HIDE DEF new
    <2>3. question[new].status # "none"
      BY <1>2 DEF Waiting, Owned
    <2> QED BY <2>1, <2>2, <2>3
  <1>3. CASE ~ (new \in Waiting \cup Owned(turn.m))
    <2>1. turn' = [turn EXCEPT !.pc = "drafting"]
      BY <1>3 DEF ClaimReply
    <2> HIDE DEF new
    <2> QED BY <1>1, <2>1, TypeParts DEF Typed, CoroutinesTyped
  <1> QED BY <1>2, <1>3

\* The reply that answers a chat comes after the desire behind it was met.
LEMMA ChatsMeetStep ==
    ASSUME ConstantsOK, Typed, Claims, DesiresEarned, ChatsMeet, Next
    PROVE  ChatsMeet'
  <1>1. QuestionSteps /\ DesireSteps
    BY MovesKeep
  <1>a. /\ question \in [Questions -> QuestionRow]
        /\ turn \in [m : {None} \cup Messages, pc : {"idle", "claiming", "satisfying", "drafting"},
                     q : {None} \cup Questions]
        /\ desire \in [Desires -> DesireRow]
    BY TypeParts DEF Typed, QuestionsTyped, CoroutinesTyped, DesiresTyped, DesireRow
  <1>b. (\A q \in Questions : q # None) /\ (\A d \in Desires : d # None)
    BY DEF Questions, Desires, None
  <1> SUFFICES ASSUME NEW q \in Questions, NEW d, d # None, question'[q].about = d,
                      question'[q].status = "answered" \/ (turn'.pc = "drafting" /\ turn'.q = q)
               PROVE  Met(q, d)'
    BY DEF ChatsMeet, Met
  <1>2. CASE question'[q].status = "answered"
    <2>1. /\ question[q].about = d /\ d \in Desires
          /\ question[q].status = "answered" \/ (turn.pc = "drafting" /\ turn.q = q)
      BY <1>1, <1>2, <1>a
         DEF QuestionSteps, SameQuestion, NewQuestion, MovedQuestion, FinishReply, QuestionRow
    <2>2. Met(q, d)
      BY <1>b, <2>1 DEF ChatsMeet
    <2> QED BY <2>1, <2>2, MetKept
  <1>3. CASE turn'.pc = "drafting" /\ turn'.q = q
    <2>1. CASE turn' = turn
      <3>1. question[q].status = "claimed"
        BY <1>3, <1>b, <2>1 DEF Claims, TurnKnows
      <3>2. question[q].about = d /\ d \in Desires
        BY <1>1, <1>a, <3>1 DEF QuestionSteps, SameQuestion, NewQuestion, MovedQuestion, QuestionRow
      <3>3. Met(q, d)
        BY <1>3, <1>b, <2>1, <3>2 DEF ChatsMeet
      <3> QED BY <3>2, <3>3, MetKept
    <2>2. CASE ClaimReply
      <3>1. question[q].about = None /\ question[q].status # "none"
        BY <1>3, <2>2, ClaimedChat
      <3> QED BY <1>1, <3>1 DEF QuestionSteps, SameQuestion, NewQuestion, MovedQuestion
    <2>3. CASE SatisfyDesire
      <3>1. turn.q = q /\ question' = question /\ question[q].about = d /\ d \in Desires
            /\ question[q].status = "claimed" /\ question[q].by = turn.m /\ turn.m # None
        BY <1>3, <1>a, <1>b, <2>3 DEF SatisfyDesire, Claims, TurnKnows, QuestionRow
      <3>2. desire' = Satisfied(d)
        BY <2>3, <3>1 DEF SatisfyDesire
      <3>3. desire[d].status # "none" /\ desire[d] \in DesireRow
        BY <1>a, <1>b, <3>1 DEF DesiresEarned
      <3>4. CASE desire[d].status \in {"pending", "active"}
        <4>1. desire'[d].progress = desire[d].progress + 1
          BY <1>a, <3>1, <3>2, <3>4 DEF Satisfied
        <4> QED BY <3>1, <3>3, <4>1 DEF Met, DesireRow
      <3>5. CASE desire[d].status \in {"satisfied", "trimmed"}
        BY <3>1, <3>2, <3>5 DEF Satisfied, Met, DesiresEarned
      <3>6. CASE desire[d].status = "expired"
        <4>1. PICK r \in Questions : question[r].about = d /\ RanOut(r)
          BY <3>1, <3>6 DEF DesiresEarned
        <4>2. r # q
          BY <3>1, <4>1 DEF RanOut
        <4> QED BY <3>1, <4>1, <4>2 DEF Met
      <3> QED BY <3>3, <3>4, <3>5, <3>6 DEF DesireRow
    <2>4. CASE turn' = NoTurn
      BY <1>3, <2>4 DEF NoTurn
    <2>5. CASE BeginReply
      BY <1>3, <2>1, <2>5 DEF BeginReply
    <2> QED
      BY <2>1, <2>2, <2>3, <2>4, <2>5, ElsewhereFrame
         DEF Next, Elsewhere, Initiate, InitiateChat, AskWhileReading, Elapse, Pause, Resume,
             CheckTimeouts, ClaimExpired, ExpireDesire, FinishExpired, ExpireFails, SendMessage,
             ReplyStep, FinishReply, ReplyFails, Crash
  <1> QED BY <1>2, <1>3

LEMMA ReleaseEnds ==
    ASSUME Typed, ReleaseInteractionClaim, starter.d \in Desires
    PROVE  desire'[starter.d].status # "active"
  BY TypeParts DEF ReleaseInteractionClaim, Released, Typed, DesiresTyped

\* Whoever meets a desire or expires it ends that it is active.
LEMMA MetEnds ==
    ASSUME ConstantsOK, Typed, NEW d \in Desires, NEW q \in Questions, question[q].about = d,
           desire[d].status = "active", desire'[d].status = "active"
    PROVE  ~ (SatisfyDesire /\ turn.q = q) /\ ~ (ExpireDesire /\ clock.q = q)
  <1>1. desire \in [Desires -> DesireRow] /\ d # None
    BY TypeParts DEF Typed, DesiresTyped, DesireRow, Desires, None
  <1>2. ASSUME SatisfyDesire, turn.q = q PROVE FALSE
    <2>1. desire'[d] = [status |-> IF desire[d].progress + 1 < GoalCount
                                   THEN "pending" ELSE "satisfied",
                        progress |-> desire[d].progress + 1]
      BY <1>1, <1>2 DEF SatisfyDesire, Satisfied
    <2> QED BY <2>1
  <1>3. ASSUME ExpireDesire, clock.q = q PROVE FALSE
    <2>1. desire' = [desire EXCEPT ![d].status = "expired"]
      BY <1>1, <1>3 DEF ExpireDesire, Expired
    <2> QED BY <1>1, <2>1 DEF DesireRow
  <1> QED BY <1>2, <1>3

\* Nobody lets go of an active desire without moving it on.
LEMMA ActiveKeptStep ==
    ASSUME ConstantsOK, Typed, Claims, DesiresEarned, ActiveKept, Next
    PROVE  ActiveKept'
  <1>1. QuestionSteps /\ DesireSteps
    BY MovesKeep
  <1>a. /\ question \in [Questions -> QuestionRow]
        /\ turn \in [m : {None} \cup Messages, pc : {"idle", "claiming", "satisfying", "drafting"},
                     q : {None} \cup Questions]
        /\ clock \in [pc : {"idle", "expiring", "finishing"}, q : {None} \cup Questions]
        /\ starter \in [pc : {"idle", "claiming", "composing", "announcing"},
                        d : {None} \cup Desires]
        /\ stranded \in [q : SUBSET Questions, d : SUBSET Desires]
    BY TypeParts DEF Typed, QuestionsTyped, CoroutinesTyped
  <1>b. (\A q \in Questions : q # None) /\ (\A d \in Desires : d # None)
    BY DEF Questions, Desires, None
  <1> SUFFICES ASSUME NEW d \in Desires, desire'[d].status = "active"
               PROVE  \/ starter'.d = d /\ starter'.pc = "composing"
                      \/ \E q \in Questions : question'[q].about = d /\ Keeps(q)'
                      \/ d \in stranded'.d
    BY DEF ActiveKept, Keeps
  <1>2. CASE desire[d].status # "active"
    BY <1>1, <1>2 DEF DesireSteps, SameDesire, MovedDesire
  <1>3. CASE desire[d].status = "active"
    <2>1. \/ starter.d = d /\ starter.pc = "composing"
          \/ \E q \in Questions : question[q].about = d /\ Keeps(q)
          \/ d \in stranded.d
      BY <1>3 DEF ActiveKept
    <2>2. CASE starter.d = d /\ starter.pc = "composing"
      <3>1. CASE UNCHANGED starter
        BY <2>2, <3>1
      <3>2. CASE ReleaseInteractionClaim
        BY <1>1, <1>3, <2>2, <3>2, ReleaseEnds
      <3>3. CASE InitiateChat
        <4>1. Unused # {} /\ question' = Asked(question, d)
          BY <2>2, <3>3 DEF InitiateChat
        <4>2. /\ NextQuestion \in Questions
              /\ question'[NextQuestion].status = "waiting"
              /\ question'[NextQuestion].about = d
          BY <1>a, <4>1, NextQuestionUnused DEF Asked, Unasked
        <4>3. PICK q \in Questions : q = NextQuestion
          BY <4>2
        <4> QED BY <4>2, <4>3 DEF Keeps
      <3>4. CASE Crash
        BY <1>a, <1>b, <2>2, <3>4 DEF Crash
      <3>5. ~ ClaimForInteraction /\ ~ Announce /\ \A e \in Desires : ~ LookForDesire(e)
        BY <2>2 DEF ClaimForInteraction, Announce, LookForDesire, NoStart
      <3>6. CASE Evaluate \/ PressureFromObservation \/ CheckTimeouts \/ ExpireFails
        BY <3>1, <3>6
           DEF Evaluate, CheckTimeouts, PressureFromObservation,
               BeginEval, InsertGenerationAttempt, StoreDesire, DropDuplicate,
               GeneratesNothing, EvalFails, ClaimExpired, ExpireDesire, FinishExpired, ExpireFails
      <3>7. CASE ReplyStep \/ ReplyFails \/ AskWhileReading
                 \/ \E q \in Questions : Elapse(q) \/ Pause(q) \/ Resume(q)
        BY <3>1, <3>7
           DEF ReplyStep, AskWhileReading, Elapse, Pause, Resume,
               BeginReply, ClaimReply, SatisfyDesire, FinishReply, ReplyFails
      <3>8. CASE \E to \in {None} \cup Questions : SendMessage(to)
        BY <3>1, <3>8 DEF SendMessage
      <3> QED BY <3>2, <3>3, <3>4, <3>5, <3>6, <3>7, <3>8 DEF Next, Initiate
    <2>3. ASSUME NEW q \in Questions, question[q].about = d, Keeps(q)
          PROVE  question'[q].about = d /\ Keeps(q)'
      <3>1. question'[q].about = d /\ question[q].status \in {"waiting", "claimed"}
        BY <1>b, <2>3, MovesKeep DEF Keeps
      <3>2. CASE SameQuestion(q)
        <4>1. ~ (turn.pc = "drafting" /\ turn.q = q) /\ ~ (clock.pc = "finishing" /\ clock.q = q)
          BY <1>b, <2>3 DEF Keeps, Claims, TurnKnows, ClockKnows
        <4>2. ~ (SatisfyDesire /\ turn.q = q) /\ ~ (ExpireDesire /\ clock.q = q)
          BY <1>3, <2>3, MetEnds
        <4>3. ~ (turn'.pc = "drafting" /\ turn'.q = q)
          <5>1. CASE turn' = turn \/ turn' = NoTurn
            BY <1>b, <4>1, <5>1 DEF NoTurn
          <5>2. CASE BeginReply
            BY <1>b, <4>1, <5>2 DEF BeginReply
          <5>3. CASE ClaimReply
            BY <1>b, <2>3, <5>3, ClaimedChat
          <5>4. CASE SatisfyDesire
            BY <1>a, <4>2, <5>4 DEF SatisfyDesire
          <5> QED
            BY <5>1, <5>2, <5>3, <5>4, ElsewhereFrame
               DEF Next, Elsewhere, Initiate, InitiateChat, AskWhileReading, Elapse, Pause,
                   Resume, CheckTimeouts, ClaimExpired, ExpireDesire, FinishExpired, ExpireFails,
                   SendMessage, ReplyStep, FinishReply, ReplyFails, Crash
        <4>4. ~ (clock'.pc = "finishing" /\ clock'.q = q)
          <5>1. CASE clock' = clock \/ clock' = NoClock
            BY <1>b, <4>1, <5>1 DEF NoClock
          <5>2. CASE \E r \in Questions : ClaimExpired(r)
            BY <5>2 DEF ClaimExpired
          <5>3. CASE ExpireDesire
            BY <1>a, <4>2, <5>3 DEF ExpireDesire
          <5> QED
            BY <5>1, <5>2, <5>3, ElsewhereFrame
               DEF Next, Elsewhere, Initiate, InitiateChat, AskWhileReading, Elapse, Pause,
                   Resume, CheckTimeouts, FinishExpired, ExpireFails,
                   SendMessage, ReplyStep, BeginReply, ClaimReply, SatisfyDesire, FinishReply,
                   ReplyFails, Crash
        <4> QED BY <3>1, <3>2, <4>3, <4>4 DEF SameQuestion, Keeps
      <3>3. CASE ClaimReply /\ question[q].status = "waiting" /\ question'[q].status = "claimed"
                 /\ turn'.q = q /\ (question[q].about # None => turn'.pc = "satisfying")
        <4>1. turn'.pc = "satisfying" /\ clock' = clock /\ clock.q # q
          BY <1>b, <2>3, <3>3 DEF ClaimReply, Claims, ClockKnows
        <4> QED BY <3>1, <3>3, <4>1 DEF Keeps
      <3>4. CASE ClaimExpired(q) /\ question[q].status = "waiting" /\ question'[q].status = "claimed"
        <4>1. clock'.pc = "expiring" /\ turn' = turn /\ turn.q # q
          BY <1>b, <3>4 DEF ClaimExpired, Claims, TurnKnows
        <4> QED BY <3>1, <3>4, <4>1 DEF Keeps
      <3>5. CASE FinishExpired /\ clock.q = q
        BY <1>b, <2>3, <3>5 DEF FinishExpired, Keeps, Claims, ClockKnows
      <3>6. CASE question'[q].status = "waiting"
        BY <3>1, <3>6 DEF Keeps
      <3>7. CASE (\E asks \in BOOLEAN : FinishReply(asks)) /\ turn.q = q
        BY <1>b, <2>3, <3>7 DEF FinishReply, Keeps, Claims, TurnKnows
      <3> QED BY <1>1, <3>1, <3>2, <3>3, <3>4, <3>5, <3>6, <3>7
              DEF QuestionSteps, NewQuestion, MovedQuestion
    <2>4. d \in stranded.d => d \in stranded'.d
      <3>1. Crash => stranded'.d = stranded.d \cup ({starter.d} \ {None})
        BY DEF Crash
      <3>2. ~ Crash => stranded' = stranded
        BY ElsewhereFrame
         DEF Next, Elsewhere, Initiate, InitiateChat, AskWhileReading, Elapse, Pause, Resume,
             CheckTimeouts, ClaimExpired, ExpireDesire, FinishExpired, ExpireFails, SendMessage,
             ReplyStep, BeginReply, ClaimReply, SatisfyDesire, FinishReply, ReplyFails
      <3> QED BY <3>1, <3>2
    <2> QED BY <2>1, <2>2, <2>3, <2>4
  <1> QED BY <1>2, <1>3

-----------------------------------------------------------------------------
(* The invariant holds *)

LEMMA InvInit == ASSUME ConstantsOK, Init PROVE IInv
  <1>1. Typed
    BY TypedInit
  <1>a. /\ \A q \in Questions : question[q] = Unasked /\ q # None
        /\ \A m \in Messages : message[m].status = "none"
        /\ \A d \in Desires : desire[d] = [status |-> "none", progress |-> 0]
    BY DEF Init, Questions, None
  <1>2. SentInOrder
    <2>1. 0 \in 0..MaxMessages /\ \A m \in Messages : ~ (m <= 0)
      BY DEF ConstantsOK, Messages
    <2> QED BY <1>a, <2>1 DEF SentInOrder
  <1>3. ClaimsHeld
    BY <1>a DEF ClaimsHeld, Unasked
  <1>4. TurnKnows /\ ClockKnows
    BY DEF Init, TurnKnows, ClockKnows, NoTurn, NoClock
  <1>5. DesiresEarned
    BY <1>a DEF Init, DesiresEarned, Unasked, NoStart, NoEval, ConstantsOK
  <1>6. ChatsMeet /\ ActiveKept /\ StampTells
    BY <1>a DEF Init, ChatsMeet, ActiveKept, StampTells, Unasked, NoTurn, NoEval
  <1> QED BY <1>1, <1>2, <1>3, <1>4, <1>5, <1>6 DEF IInv

LEMMA InvStep == ASSUME ConstantsOK, IInv, [Next]_vars PROVE IInv'
  <1>1. CASE Next
    <2>1. Claims
      BY DEF IInv, Claims
    <2>2. Claims'
      BY <1>1, <2>1, ClaimsStep DEF IInv
    <2>3. Typed' /\ DesiresEarned'
      BY <1>1, <2>1, TypedStep, EarnedStep DEF IInv
    <2>4. ChatsMeet' /\ ActiveKept' /\ StampTells'
      BY <1>1, <2>1, ChatsMeetStep, ActiveKeptStep, StampTellsStep DEF IInv
    <2> QED BY <2>2, <2>3, <2>4 DEF IInv, Claims
  <1>2. CASE UNCHANGED vars
    BY <1>2
       DEF IInv, Typed, TypeOK, SentInOrder, ClaimsHeld, HasTurn, TurnKnows, ClockKnows,
           DesiresEarned, RanOut, Fresh, ChatsMeet, Met, ActiveKept, Keeps, StampTells,
           vars, drive, growth
  <1> QED BY <1>1, <1>2

LEMMA Invariant == ASSUME ConstantsOK PROVE Spec => []IInv
  <1>1. Init => IInv
    BY InvInit
  <1>2. IInv /\ [Next]_vars => IInv'
    BY InvStep
  <1> QED BY <1>1, <1>2, PTL DEF Spec

-----------------------------------------------------------------------------
(* Theorems *)

\* Every variable keeps its type, no paused question runs out, and every claim has a holder
\* that is alive or was (expression/store.py, desire/store.py).
THEOREM TypeCorrect == ASSUME ConstantsOK PROVE Spec => []TypeOK
  <1>1. IInv => TypeOK
    BY DEF IInv, Typed
  <1> QED BY <1>1, Invariant, PTL

\* However claims, expiries, failures and restarts interleave, a question counts as answered only
\* with the durable reply to the message that claimed it, and the desire behind an answered chat
\* was met (expression/store.py claim_reply, finish_answer; facade.py _finalize_user_reply).
THEOREM AnswersEarned == ASSUME ConstantsOK PROVE Spec => []AnswersAreReplies
  <1>1. IInv => AnswersAreReplies
    <2> SUFFICES ASSUME IInv, NEW q \in Questions
                 PROVE  LET m == question[q].by IN
                        /\ question[q].status = "answered" =>
                              m # None /\ message[m].status \in {"replied", "settled"}
                        /\ question[q].status = "claimed" /\ m # None =>
                              message[m].status = "pending"
                        /\ m # None /\ message[m].to # None => message[m].to = q
                        /\ \A d \in Desires :
                              /\ question[q].status = "answered" /\ desire[d].status # "trimmed"
                              /\ {r \in Questions : question[r].about = d} = {q}
                              => desire[d].progress > 0
      BY DEF AnswersAreReplies
    <2>1. /\ question[q].status = "answered" =>
                question[q].by # None
                /\ message[question[q].by].status \in {"replied", "settled"}
          /\ question[q].status = "claimed" /\ question[q].by # None =>
                message[question[q].by].status = "pending"
          /\ question[q].by # None /\ message[question[q].by].to # None =>
                message[question[q].by].to = q
      BY DEF IInv, ClaimsHeld, HasTurn
    <2>2. ASSUME NEW d \in Desires, question[q].status = "answered",
                 desire[d].status # "trimmed",
                 {r \in Questions : question[r].about = d} = {q}
          PROVE  desire[d].progress > 0
      <3>1. question[q].about = d /\ \A r \in Questions : question[r].about = d => r = q
        BY <2>2
      <3>2. Met(q, d)
        BY <2>2, <3>1 DEF IInv, ChatsMeet, Desires, None
      <3> QED BY <2>2, <3>1, <3>2 DEF Met
    <2> QED BY <2>1, <2>2
  <1> QED BY <1>1, Invariant, PTL

\* An ACTIVE interaction desire always has somebody who will move it on, unless the process died
\* with the claim (runtime.py check_initiate_chat, desire/store.py claim_for_interaction).
THEOREM InitiativeKept == ASSUME ConstantsOK PROVE Spec => []InitiativeOwned
  <1>1. IInv => InitiativeOwned
    BY DEF IInv, ActiveKept, Keeps, InitiativeOwned
  <1> QED BY <1>1, Invariant, PTL

\* A generation uses up only the pressure that its evaluation has read
\* (desire/lifecycle.py, reset_value_if_unchanged).
THEOREM PressureSafe == ASSUME ConstantsOK PROVE Spec => PressureKept
  <1>1. IInv /\ [Next]_vars => [\A p \in value \ value' : p \in eval.seen]_vars
    <2> SUFFICES ASSUME IInv, Next PROVE \A p \in value \ value' : p \in eval.seen
      OBVIOUS
    <2> QED BY PressureStep DEF IInv
  <1> QED BY <1>1, Invariant, PTL DEF Spec, PressureKept

=============================================================================
