---------------------------- MODULE Conversation ----------------------------
(***************************************************************************)
(* What waits between the user and the character: questions that wait for  *)
(* an answer (nyx/expression/store.py), the replies that answer them and   *)
(* the clock that lets them expire (nyx/expression/facade.py), the         *)
(* initiative that opens a chat for an interaction desire (nyx/runtime.py) *)
(* and the pressure from which such desires grow (nyx/desire).             *)
(*                                                                         *)
(* A transaction is one step, and so is a statement that commits alone;    *)
(* between two of them everybody else may move.  Only interaction desires, *)
(* and only questions that are stored: the facade's mode without a store   *)
(* is left out.  Time is what it decides: whether a question is late.      *)
(***************************************************************************)
EXTENDS Naturals, FiniteSets

CONSTANTS
    MaxQuestions,  \* bound: questions ever stored
    MaxMessages,   \* bound: messages ever sent
    MaxDesires,    \* bound: desires ever generated
    GoalCount,     \* how often a desire must be met (its goal's count)
    Capacity,      \* short_term_capacity
    Peak,          \* pressures at which a desire is generated
    Budgets        \* bounds: [asks, sends, elapses, pauses, pressures, ticks, faults, starts]

ASSUME ConstantsOK ==
    /\ {MaxQuestions, MaxMessages, MaxDesires, Capacity} \subseteq Nat
    /\ {GoalCount, Peak} \subseteq Nat \ {0}
    /\ Budgets \subseteq [{"asks", "sends", "elapses", "pauses", "pressures", "ticks",
                          "faults", "starts"} -> Nat]

Questions == 1..MaxQuestions
Messages == 1..MaxMessages
Desires == 1..MaxDesires
None == 0

VARIABLES
    \* durable
    question,  \* expression_interaction_attempt, by id
    message,   \* USER_MESSAGE events: their target and what became of their delivery
    desire,    \* short_term_desire, by id
    value,     \* desire_value of INTERACTION: the pressures it is made of
    stamp,     \* its updated_at
    attempt,   \* desire_generation_attempt: the desire it would become
    tick,      \* the DESIRE_EVAL event in delivery has applied its periodic part
    \* volatile
    turn,      \* the worker of expression.user_message: [m, pc, q]
    clock,     \* check_timeouts: [pc, q]
    starter,   \* check_initiate_chat: [pc, d]
    eval,      \* run_eval: [pc, seen, stamp]
    \* of the model
    stranded,  \* questions and desires whose holder died with the process
    left       \* what is left of the bounds

drive == <<desire, value, stamp>>
growth == <<attempt, tick, eval>>
vars == <<question, message, drive, growth, turn, clock, starter, stranded, left>>

Pressures == {"seen", "back"} \X Nat
NoTurn == [m |-> None, pc |-> "idle", q |-> None]
NoClock == [pc |-> "idle", q |-> None]
NoStart == [pc |-> "idle", d |-> None]
NoEval == [pc |-> "idle", seen |-> {}, stamp |-> 0]
Unasked == [status |-> "none", by |-> None, about |-> None, late |-> FALSE, paused |-> FALSE]

TypeOK ==
    /\ question \in [Questions -> [status : {"none", "waiting", "claimed", "answered", "expired"},
                                   by : {None} \cup Messages, about : {None} \cup Desires,
                                   late : BOOLEAN, paused : BOOLEAN]]
    /\ message \in [Messages -> [to : {None} \cup Questions,
                                 status : {"none", "pending", "replied", "covered", "settled"}]]
    /\ desire \in [Desires -> [status : {"none", "pending", "active", "satisfied", "expired",
                                         "trimmed"},
                               progress : 0..GoalCount]]
    /\ value \subseteq Pressures /\ stamp \in Nat
    /\ attempt \in {None} \cup Desires /\ tick \in BOOLEAN
    /\ turn \in [m : {None} \cup Messages, pc : {"idle", "claiming", "satisfying", "drafting"},
                 q : {None} \cup Questions]
    /\ clock \in [pc : {"idle", "expiring", "finishing"}, q : {None} \cup Questions]
    /\ starter \in [pc : {"idle", "claiming", "composing", "announcing"},
                    d : {None} \cup Desires]
    /\ eval.pc \in {"idle", "generating", "storing"} /\ eval.seen \subseteq Pressures
    /\ eval.stamp \in Nat
    /\ stranded \in [q : SUBSET Questions, d : SUBSET Desires]
    \* a paused question is not late, and who claims one is alive or was
    /\ \A q \in Questions : ~ (question[q].late /\ question[q].paused)
    /\ \A q \in Questions : question[q].status = "claimed" =>
            question[q].by # None \/ clock.q = q \/ q \in stranded.q

Init ==
    /\ question = [q \in Questions |-> Unasked]
    /\ message = [m \in Messages |-> [to |-> None, status |-> "none"]]
    /\ desire = [d \in Desires |-> [status |-> "none", progress |-> 0]]
    /\ value = {} /\ stamp = 0 /\ attempt = None /\ tick = FALSE
    /\ turn = NoTurn /\ clock = NoClock /\ starter = NoStart /\ eval = NoEval
    /\ stranded = [q |-> {}, d |-> {}]
    /\ left \in Budgets

Spend(what) == left[what] > 0 /\ left' = [left EXCEPT ![what] = @ - 1]

Waiting == {q \in Questions : question[q].status = "waiting"}
Unused == {q \in Questions : question[q].status = "none"}
NextQuestion == CHOOSE q \in Unused : \A r \in Unused : q <= r

\* The row of a new question, committed together with its event.
Asked(questions, about) ==
    [questions EXCEPT ![NextQuestion] = [Unasked EXCEPT !.status = "waiting", !.about = about]]

-----------------------------------------------------------------------------
(* Desires *)

\* satisfy: an interaction desire is met once more; those that have ended stay as they are.
Satisfied(d) ==
    IF desire[d].status \in {"pending", "active"}
    THEN [desire EXCEPT ![d] =
            [status |-> IF @.progress + 1 < GoalCount THEN "pending" ELSE "satisfied",
             progress |-> @.progress + 1]]
    ELSE desire

\* apply_value_delta: every pressure moves the stamp on.
ApplyValueDelta(pressure) ==
    /\ value' = value \cup {pressure}
    /\ stamp' = stamp + 1

\* _suppress: the pressure of a desire that failed comes back.
Suppress(d) ==
    /\ value' = value \cup {<<"back", d>>}
    /\ stamp' = stamp + 1

\* expire: an ignored chat ends its desire, unless that has ended already.
Expired(d) ==
    IF desire[d].status \in {"pending", "active"}
    THEN desire' = [desire EXCEPT ![d].status = "expired"] /\ Suppress(d)
    ELSE UNCHANGED drive

\* release_interaction_claim: whoever holds it, an ACTIVE desire is PENDING again.
Released(d) ==
    IF desire[d].status = "active" THEN [desire EXCEPT ![d].status = "pending"] ELSE desire

\* An observation adds pressure, once per event.
PressureFromObservation ==
    /\ Spend("pressures")
    /\ ApplyValueDelta(<<"seen", left["pressures"]>>)
    /\ UNCHANGED <<question, message, desire, growth, turn, clock, starter, stranded>>

Fresh == {d \in Desires : desire[d].status = "none"}

\* try_mark_eval_applied: the periodic part is applied once for a tick.  Decay is left out.
ApplyPeriodic ==
    IF tick THEN UNCHANGED <<stamp, left>> ELSE Spend("ticks") /\ stamp' = stamp + 1

\* A saved attempt goes before a new one, and that takes a value at its peak.
Target == IF attempt # None THEN "storing"
          ELSE IF Cardinality(value) >= Peak /\ Fresh # {} THEN "generating" ELSE "idle"

\* One tick of DESIRE_EVAL reads the values it will reset.
BeginEval ==
    /\ eval = NoEval
    /\ ApplyPeriodic
    /\ eval' = IF Target = "idle" THEN NoEval
               ELSE [pc |-> Target, seen |-> value, stamp |-> stamp']
    /\ tick' = (Target # "idle")
    /\ UNCHANGED <<question, message, desire, value, attempt, turn, clock, starter, stranded>>

\* The model's answer is saved before anything is made of it.
InsertGenerationAttempt ==
    /\ eval.pc = "generating"
    /\ attempt' = CHOOSE d \in Fresh : \A e \in Fresh : d <= e
    /\ eval' = [eval EXCEPT !.pc = "storing"]
    /\ UNCHANGED <<question, message, drive, tick, turn, clock, starter, stranded, left>>

\* The answer cannot be parsed: nothing is saved.
GeneratesNothing ==
    /\ eval.pc = "generating"
    /\ eval' = NoEval /\ tick' = FALSE
    /\ UNCHANGED <<question, message, drive, attempt, turn, clock, starter, stranded, left>>

\* (wrong on purpose) The pressure is reset whatever came since it was read.
ResetValue ==
    /\ value' = {}
    /\ UNCHANGED stamp

\* reset_value_if_unchanged: the stamp tells whether a pressure came since the values were read.
ResetValueIfUnchanged ==
    /\ value' = IF stamp = eval.stamp THEN {} ELSE value
    /\ UNCHANGED stamp

PendingDesires == {d \in Desires : desire[d].status = "pending"}

\* trim_pending: what exceeds the capacity is deleted.  Which desires have the lowest priority
\* is left open.
Trims(queue) == {removed \in SUBSET queue :
                    Cardinality(queue \ removed) =
                        IF Cardinality(queue) > Capacity THEN Capacity ELSE Cardinality(queue)}

\* One transaction: reset, the desire, the trim of the queue, the end of the attempt.
StoreDesire ==
    /\ eval.pc = "storing"
    /\ ResetValueIfUnchanged
    /\ \E removed \in Trims(PendingDesires \cup {attempt}) :
        desire' = [d \in Desires |->
                      IF d \in removed THEN [desire[d] EXCEPT !.status = "trimmed"]
                      ELSE IF d = attempt THEN [desire[d] EXCEPT !.status = "pending"]
                      ELSE desire[d]]
    /\ attempt' = None /\ tick' = FALSE /\ eval' = NoEval
    /\ UNCHANGED <<question, message, turn, clock, starter, stranded, left>>

\* The same topic, or nearly the same words, already wait.
DropDuplicate ==
    /\ eval.pc = "storing" /\ PendingDesires # {}
    /\ ResetValueIfUnchanged
    /\ desire' = [desire EXCEPT ![attempt].status = "trimmed"]
    /\ attempt' = None /\ tick' = FALSE /\ eval' = NoEval
    /\ UNCHANGED <<question, message, turn, clock, starter, stranded, left>>

\* The tick is delivered again: its mark stays, and so does a saved attempt.
EvalFails ==
    /\ eval # NoEval
    /\ Spend("faults")
    /\ eval' = NoEval
    /\ UNCHANGED <<question, message, drive, attempt, tick, turn, clock, starter, stranded>>

Evaluate == BeginEval \/ InsertGenerationAttempt \/ GeneratesNothing \/ StoreDesire
            \/ DropDuplicate \/ EvalFails

-----------------------------------------------------------------------------
(* The initiative: check_initiate_chat *)

\* Nothing waits for the user; a pending interaction desire is looked up, not yet claimed.
LookForDesire(d) ==
    /\ starter = NoStart
    /\ Waiting = {} /\ desire[d].status = "pending"
    /\ Spend("starts")
    /\ starter' = [pc |-> "claiming", d |-> d]
    /\ UNCHANGED <<question, message, drive, growth, turn, clock, stranded>>

ClaimForInteraction ==
    /\ starter.pc = "claiming"
    /\ IF desire[starter.d].status = "pending"
       THEN /\ desire' = [desire EXCEPT ![starter.d].status = "active"]
            /\ starter' = [starter EXCEPT !.pc = "composing"]
       ELSE starter' = NoStart /\ UNCHANGED desire
    /\ UNCHANGED <<question, message, value, stamp, growth, turn, clock, stranded, left>>

\* (wrong on purpose) The claim is not given back when there is nothing to say.
KeepClaim ==
    /\ starter.pc = "composing"
    /\ starter' = NoStart
    /\ UNCHANGED <<question, message, drive, growth, turn, clock, stranded, left>>

\* Initiation is not admitted, the model has nothing to say, or it fails.
ReleaseInteractionClaim ==
    /\ starter.pc = "composing"
    /\ desire' = Released(starter.d)
    /\ starter' = NoStart
    /\ UNCHANGED <<question, message, value, stamp, growth, turn, clock, stranded, left>>

\* initiate_chat: the question and the chat's event, in one transaction.
InitiateChat ==
    /\ starter.pc = "composing" /\ Unused # {}
    /\ question' = Asked(question, starter.d)
    /\ starter' = [starter EXCEPT !.pc = "announcing"]
    /\ UNCHANGED <<message, drive, growth, turn, clock, stranded, left>>

Announce ==
    /\ starter.pc = "announcing"
    /\ \/ UNCHANGED <<desire, left>>
       \/ Spend("faults") /\ desire' = Released(starter.d)
    /\ starter' = NoStart
    /\ UNCHANGED <<question, message, value, stamp, growth, turn, clock, stranded>>

Initiate == ClaimForInteraction \/ ReleaseInteractionClaim \/ InitiateChat \/ Announce

-----------------------------------------------------------------------------
(* Questions that wait *)

\* A companion that reads with the user asks (commit_reading_question).
AskWhileReading ==
    /\ Unused # {}
    /\ Spend("asks")
    /\ question' = Asked(question, None)
    /\ UNCHANGED <<message, drive, growth, turn, clock, starter, stranded>>

\* expires_at is reached; not while the question is paused.
Elapse(q) ==
    /\ question[q].status \in {"waiting", "claimed"}
    /\ ~ question[q].paused /\ ~ question[q].late
    /\ Spend("elapses")
    /\ question' = [question EXCEPT ![q].late = TRUE]
    /\ UNCHANGED <<message, drive, growth, turn, clock, starter, stranded>>

Pause(q) ==
    /\ question[q].status = "waiting" /\ ~ question[q].paused /\ ~ question[q].late
    /\ Spend("pauses")
    /\ question' = [question EXCEPT ![q].paused = TRUE]
    /\ UNCHANGED <<message, drive, growth, turn, clock, starter, stranded>>

\* The time that was left is added to now.
Resume(q) ==
    /\ question[q].status = "waiting" /\ question[q].paused
    /\ question' = [question EXCEPT ![q].paused = FALSE]
    /\ UNCHANGED <<message, drive, growth, turn, clock, starter, stranded, left>>

\* release_claim, by the owner of the claim only: a message, or nobody for the clock.
ReleaseClaim(q, owner) ==
    question' = IF question[q].status = "claimed" /\ question[q].by = owner
                THEN [question EXCEPT ![q].status = "waiting", ![q].by = None]
                ELSE question

\* claim_expired
ClaimExpired(q) ==
    /\ clock = NoClock
    /\ question[q].status = "waiting" /\ question[q].late /\ ~ question[q].paused
    /\ question' = [question EXCEPT ![q].status = "claimed"]
    /\ clock' = [pc |-> "expiring", q |-> q]
    /\ UNCHANGED <<message, drive, growth, turn, starter, stranded, left>>

\* The desire behind a chat that was ignored expires in a transaction of its own.
ExpireDesire ==
    /\ clock.pc = "expiring"
    /\ IF question[clock.q].about # None THEN Expired(question[clock.q].about)
       ELSE UNCHANGED drive
    /\ clock' = [clock EXCEPT !.pc = "finishing"]
    /\ UNCHANGED <<question, message, growth, turn, starter, stranded, left>>

\* (wrong on purpose) An error there only ends this round.
ExpireFailsSilently ==
    /\ clock.pc = "expiring" /\ question[clock.q].about # None
    /\ Spend("faults")
    /\ clock' = NoClock
    /\ UNCHANGED <<question, message, drive, growth, turn, starter, stranded>>

\* An error there gives the claim back and ends this round.
ExpireFails ==
    /\ clock.pc = "expiring" /\ question[clock.q].about # None
    /\ Spend("faults")
    /\ ReleaseClaim(clock.q, None)
    /\ clock' = NoClock
    /\ UNCHANGED <<message, drive, growth, turn, starter, stranded>>

\* finish_expired
FinishExpired ==
    /\ clock.pc = "finishing"
    /\ question' = IF question[clock.q].status = "claimed" /\ question[clock.q].by = None
                   THEN [question EXCEPT ![clock.q].status = "expired"] ELSE question
    /\ clock' = NoClock
    /\ UNCHANGED <<message, drive, growth, turn, starter, stranded, left>>

CheckTimeouts == (\E q \in Questions : ClaimExpired(q)) \/ ExpireDesire \/ FinishExpired

-----------------------------------------------------------------------------
(* Replies *)

\* What the chat shows as still waiting for a reply (GET /api/chat/pending).
Unanswered == {m \in Messages : message[m].status = "pending"}

Unsettled == {m \in Messages : message[m].status \in {"pending", "replied", "covered"}}
Sent == {m \in Messages : message[m].status # "none"}
FirstUnsettled == CHOOSE m \in Unsettled : \A n \in Unsettled : m <= n

\* The user writes, perhaps in answer to a question that the chat shows.
SendMessage(to) ==
    /\ Cardinality(Sent) < MaxMessages
    /\ Spend("sends")
    /\ to # None => question[to].status # "none"
    /\ message' = [message EXCEPT ![Cardinality(Sent) + 1] = [to |-> to, status |-> "pending"]]
    /\ UNCHANGED <<question, drive, growth, turn, clock, starter, stranded>>

\* The oldest unsettled message has its turn: a reply that is already durable is only archived,
\* and a message that another reply covered has its effect already.
BeginReply ==
    /\ turn = NoTurn /\ Unsettled # {}
    /\ LET m == FirstUnsettled IN
       IF message[m].status = "pending"
       THEN turn' = [m |-> m, pc |-> "claiming", q |-> None] /\ UNCHANGED message
       ELSE message' = [message EXCEPT ![m].status = "settled"] /\ UNCHANGED turn
    /\ UNCHANGED <<question, drive, growth, clock, starter, stranded, left>>

\* claim_reply: what it claimed before; else the question it names, or, when it names none,
\* the only one that waits; and only if that still waits.
Owned(m) == {q \in Questions : question[q].by = m /\ question[q].status \in {"claimed", "answered"}}

Addressed(m) ==
    IF message[m].to # None THEN message[m].to
    ELSE IF Cardinality(Waiting) = 1 THEN CHOOSE q \in Waiting : TRUE ELSE None

\* (wrong on purpose) The question is taken although the clock holds it.
ClaimReplyAnyway ==
    /\ turn.pc = "claiming"
    /\ LET m == turn.m
           q == IF Owned(m) # {} THEN CHOOSE r \in Owned(m) : TRUE ELSE Addressed(m) IN
       IF q \in Questions /\ question[q].status \in {"waiting", "claimed"}
       THEN /\ question' = [question EXCEPT ![q].status = "claimed", ![q].by = m]
            /\ turn' = [turn EXCEPT !.q = q, !.pc = IF question[q].about # None
                                                    THEN "satisfying" ELSE "drafting"]
       ELSE turn' = [turn EXCEPT !.pc = "drafting"] /\ UNCHANGED question
    /\ UNCHANGED <<message, drive, growth, clock, starter, stranded, left>>

ClaimReply ==
    /\ turn.pc = "claiming"
    /\ LET m == turn.m
           q == IF Owned(m) # {} THEN CHOOSE r \in Owned(m) : TRUE ELSE Addressed(m) IN
       IF q \in Waiting \cup Owned(m)
       THEN /\ question' = [question EXCEPT ![q].status = "claimed", ![q].by = m]
            /\ turn' = [turn EXCEPT !.q = q, !.pc = IF question[q].about # None
                                                    THEN "satisfying" ELSE "drafting"]
       ELSE turn' = [turn EXCEPT !.pc = "drafting"] /\ UNCHANGED question
    /\ UNCHANGED <<message, drive, growth, clock, starter, stranded, left>>

\* answer_waiting: the desire behind an opened chat is met as soon as the user speaks.
SatisfyDesire ==
    /\ turn.pc = "satisfying"
    /\ desire' = Satisfied(question[turn.q].about)
    /\ turn' = [turn EXCEPT !.pc = "drafting"]
    /\ UNCHANGED <<question, message, value, stamp, growth, clock, starter, stranded, left>>

\* Messages that came meanwhile and answer nothing else are covered by this reply.
Follows(m) ==
    {n \in Messages :
        /\ n > m
        /\ \A o \in m + 1..n : o \in Unanswered /\ message[o].to \in {None, turn.q}}

\* finish_answer
Answered(q) == IF q = None THEN question ELSE [question EXCEPT ![q].status = "answered"]

\* _finalize_user_reply: one transaction settles the question that was answered, commits the
\* reply, which may be a question, and marks the messages it covers.
FinishReply(asks) ==
    /\ turn.pc = "drafting"
    /\ IF asks THEN Unused # {} /\ Spend("asks") ELSE UNCHANGED left
    /\ question' = IF asks THEN Asked(Answered(turn.q), None) ELSE Answered(turn.q)
    /\ message' = [m \in Messages |->
                     IF m = turn.m THEN [message[m] EXCEPT !.status = "replied"]
                     ELSE IF m \in Follows(turn.m) THEN [message[m] EXCEPT !.status = "covered"]
                     ELSE message[m]]
    /\ turn' = NoTurn
    /\ UNCHANGED <<drive, growth, clock, starter, stranded>>

\* Any error or cancellation before the commit: the claim is given back, the message retried.
ReplyFails ==
    /\ turn.pc \in {"satisfying", "drafting"}
    /\ Spend("faults")
    /\ IF turn.q = None THEN UNCHANGED question ELSE ReleaseClaim(turn.q, turn.m)
    /\ turn' = NoTurn
    /\ UNCHANGED <<message, drive, growth, clock, starter, stranded>>

ReplyStep == BeginReply \/ ClaimReply \/ SatisfyDesire \/ \E asks \in BOOLEAN : FinishReply(asks)

-----------------------------------------------------------------------------

\* The process dies, or the clock is cancelled by a stop; deliveries come again, but nobody
\* comes back to what the clock or the initiative had claimed.
Crash ==
    /\ Spend("faults")
    /\ turn' = NoTurn /\ clock' = NoClock /\ starter' = NoStart /\ eval' = NoEval
    /\ stranded' = [q |-> stranded.q \cup ({clock.q} \ {None}),
                    d |-> stranded.d \cup ({starter.d} \ {None})]
    /\ UNCHANGED <<question, message, drive, attempt, tick>>

Next ==
    \/ PressureFromObservation \/ Evaluate
    \/ \E d \in Desires : LookForDesire(d)
    \/ Initiate
    \/ AskWhileReading
    \/ \E q \in Questions : Elapse(q) \/ Pause(q) \/ Resume(q)
    \/ CheckTimeouts \/ ExpireFails
    \/ \E to \in {None} \cup Questions : SendMessage(to)
    \/ ReplyStep \/ ReplyFails
    \/ Crash

Spec == Init /\ [][Next]_vars

\* The clock ticks for as long as the character runs; a delivered message is handled.
Fairness == WF_vars(CheckTimeouts) /\ WF_vars(ReplyStep)

FairSpec == Spec /\ Fairness

-----------------------------------------------------------------------------
(* Properties *)

\* A question is ANSWERED by the message that claimed it and only with a durable reply to that
\* message, a message that has its reply holds no claim, and the only chat about a desire,
\* once answered, has met it and did not let it expire as ignored: whatever the clock, other questions and retries
\* did between the claim and the reply.
AnswersAreReplies ==
    \A q \in Questions :
        LET m == question[q].by IN
        /\ question[q].status = "answered" => m # None /\ message[m].status \in {"replied", "settled"}
        /\ question[q].status = "claimed" /\ m # None => message[m].status = "pending"
        /\ m # None /\ message[m].to # None => message[m].to = q
        /\ \A d \in Desires :
              /\ question[q].status = "answered" /\ desire[d].status # "trimmed"
              /\ {r \in Questions : question[r].about = d} = {q}
              => desire[d].progress > 0

\* An interaction desire is ACTIVE only for an initiative in progress or for a chat that still
\* waits, unless the process died with the claim.
InitiativeOwned ==
    \A d \in Desires : desire[d].status = "active" =>
        \/ starter.d = d
        \/ \E q \in Questions : question[q].about = d /\ question[q].status \in {"waiting", "claimed"}
        \/ d \in stranded.d

\* What a generated desire uses up is the pressure its evaluation has seen: a pressure that
\* arrives while the model writes is kept for the next one.
PressureKept == [][\A p \in value \ value' : p \in eval.seen]_vars

\* A question whose time has run out is settled, by the clock or by an answer, unless the
\* process died while the clock held it.
QuestionSettles ==
    \A q \in Questions :
        question[q].status = "waiting" /\ question[q].late
            ~> question[q].status \in {"answered", "expired"} \/ q \in stranded.q
=============================================================================
