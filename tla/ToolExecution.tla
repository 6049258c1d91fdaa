----------------------------- MODULE ToolExecution -----------------------------
(***************************************************************************)
(* How a slow reply uses tools (nyx/expression/tool_pipeline.py), with the *)
(* reply around it (nyx/expression/pipeline.py, facade.py) and the         *)
(* receipts of the attempts (nyx/tools/tool_call_store.py).                *)
(*                                                                         *)
(* The tool graph is checkpointed after every node, so that one action     *)
(* here is one node together with the edge that follows it.  The node      *)
(* `execute' alone is several steps: it claims a receipt, calls the tool,  *)
(* saves the outcome, and only then is checkpointed; `place' says how far  *)
(* it has come.  A crash, a cancellation or an error of the database ends  *)
(* the reply anywhere: what is volatile is lost, and the redelivered user  *)
(* message starts the reply again over the same checkpoint.                *)
(*                                                                         *)
(* What a model answers (a plan, a decision, a review, the next action) is *)
(* chosen freely.  Texts, schemas, budgets of characters and times are     *)
(* left out.                                                               *)
(***************************************************************************)
EXTENDS Integers, Sequences, FiniteSets

CONSTANTS
  Calls,       \* a tool's name with its arguments: the key of a record
  ReadOnly,    \* the calls that may be repeated, is_read_only_call
  Authorised,  \* the calls whose tool is in the reply's schemas
  NoCall,      \* no pending call, no record
  MaxRounds,   \* _MAX_TOOL_ROUNDS, decisions of one plan
  MaxReplans,  \* _MAX_REPLANS
  MaxAttempts, \* _MAX_TOOL_ATTEMPTS
  MaxOutputs,  \* _TOOL_OUTPUT_MAX_ITEMS
  MaxThoughts, \* steps of analysis of one reply
  MaxBatch,    \* bound: calls of one decision
  MaxInputs,   \* bound: user messages the reply may cover
  MaxCrashes   \* bound: interruptions of the reply

ASSUME CallsAssumption ==
  /\ ReadOnly \subseteq Calls
  /\ Authorised \subseteq Calls
  /\ NoCall \notin Calls
  /\ "replan" \notin Calls
ASSUME BoundsAssumption ==
  /\ {MaxRounds, MaxAttempts, MaxInputs} \subseteq Nat \ {0}
  /\ {MaxReplans, MaxOutputs, MaxThoughts, MaxBatch, MaxCrashes} \subseteq Nat

VARIABLES
  \* the event log and the receipts, in the database
  log,       \* compatible user messages admitted so far, the root included
  fence,     \* a message that may not join this reply waits behind them
  terminal,  \* the reply's terminal event is committed
  receipts,  \* the receipt of every attempt
  \* the checkpoint of the tool graph
  next,      \* the node to run
  basis,     \* its input_event_ids (how many), input_closed, allow_new_actions
  updating,  \* input_update is set: the graph is entered again with
  update,    \* other inputs, or without leave to act
  pending,   \* the call at hand
  records,   \* what came of every call
  latest,    \* the record inserted last
  reviewed,  \* the record the last plan review was about
  calls,     \* the calls of the last decision still to be taken
  rounds, replans, replanning, plan, outputs, exit,
  \* the reply's process
  place,     \* how far the node execute has come
  outcome,   \* what the handler gave it
  reply,     \* where the reply graph is and what it has collected
  \* what the properties need to know
  ran,       \* how often each call's handler was started
  decidedOn, \* the inputs known when the calls at hand were decided
  crashes

durable == <<log, fence, terminal>>
within == <<place, outcome>>
budget == <<rounds, replans, replanning, plan, reviewed>>
results == <<records, latest, outputs>>
entry == <<basis, updating, update>>
graph == <<next, entry, pending, calls, exit, results, budget>>
vars == <<durable, receipts, graph, within, reply, ran, decidedOn, crashes>>

Nodes == {"enter", "plan", "decide", "review_plan", "select_call", "begin_attempt",
          "execute", "accept", "replan", "yield_input", "complete"}
\* What a handler gives: a result, empty or not, or an exception.  A result that
\* reports an error is received as the exception would be.
Outcomes == {"result", "error"}
ReceiptStates == {"none", "running"} \cup Outcomes
Final == {"success", "uncertain", "exhausted"}
Statuses == {"none", "pending", "running", "retry_wait"} \cup Final
Basis == [inputs : 0 .. MaxInputs, closed : BOOLEAN, allow : BOOLEAN]
Nothing == [call |-> NoCall, status |-> "none", attempts |-> 0]
Attempts == Calls \X (1 .. MaxAttempts)

NoBasis == [inputs |-> 0, closed |-> FALSE, allow |-> FALSE]
NoRecords == [c \in Calls |-> [status |-> "none", attempts |-> 0]]

\* A reply as it starts, from the root message alone
Started(at) == [at |-> at, inputs |-> 1, closed |-> FALSE, thoughts |-> 0,
                fallback |-> FALSE, action |-> "answer"]

TypeOK ==
  /\ log \in 1 .. MaxInputs /\ fence \in BOOLEAN /\ terminal \in BOOLEAN
  /\ receipts \in [Attempts -> ReceiptStates]
  /\ next \in Nodes \cup {"none", "end"}
  /\ basis \in Basis /\ updating \in BOOLEAN /\ update \in Basis
  /\ pending \in [call : Calls \cup {NoCall}, status : Statuses, attempts : 0 .. MaxAttempts]
  /\ records \in [Calls -> [status : Statuses, attempts : 0 .. MaxAttempts]]
  /\ latest \in Calls \cup {NoCall} /\ reviewed \in Calls \cup {NoCall}
  /\ calls \in Seq(Calls \cup {"replan"})
  /\ rounds \in 0 .. MaxRounds /\ replans \in 0 .. MaxReplans
  /\ replanning \in BOOLEAN /\ plan \in BOOLEAN
  /\ outputs \in 0 .. MaxOutputs /\ exit \in {"complete", "input_pending"}
  /\ place \in {"outside", "claimed", "called", "saved"}
  /\ outcome \in {"none"} \cup Outcomes
  /\ reply \in [at : {"down", "think", "tools", "respond", "finalize", "archive", "clear", "done"},
                inputs : 1 .. MaxInputs, closed : BOOLEAN, thoughts : 0 .. MaxThoughts,
                fallback : BOOLEAN,
                action : {"answer", "tools", "after_tools"}]
  /\ ran \in [Calls -> Nat] /\ decidedOn \in 0 .. MaxInputs
  /\ crashes \in 0 .. MaxCrashes

Init ==
  /\ log = 1 /\ fence = FALSE /\ terminal = FALSE
  /\ receipts = [a \in Attempts |-> "none"]
  /\ next = "none" /\ basis = NoBasis /\ updating = FALSE /\ update = NoBasis
  /\ pending = Nothing /\ records = NoRecords /\ latest = NoCall /\ reviewed = NoCall
  /\ calls = <<>> /\ rounds = 0 /\ replans = 0 /\ replanning = FALSE /\ plan = FALSE
  /\ outputs = 0 /\ exit = "complete"
  /\ place = "outside" /\ outcome = "none"
  /\ reply = Started("down")
  /\ ran = [c \in Calls |-> 0] /\ decidedOn = 0 /\ crashes = 0

--------------------------------------------------------------------------------
(* Conditions the nodes and edges share *)

Recorded(c) == records[c].status # "none"
Unknown(recs) == \E c \in Calls : recs[c].status = "uncertain"

\* messages wait that this run of the tool graph has not seen
InputPending(b) == ~b.closed /\ log > b.inputs

NeedsPlanReview ==
  /\ plan /\ latest # NoCall /\ records[latest].status = "exhausted"
  /\ reviewed # latest
  /\ ~replanning /\ rounds < MaxRounds /\ outputs < MaxOutputs

\* What the pending call becomes with an outcome
Received(p, result) ==
  [p EXCEPT !.status =
    CASE result = "result" -> "success"
      [] result # "result" /\ p.call \notin ReadOnly -> "uncertain"
      [] result # "result" /\ p.call \in ReadOnly /\ p.attempts < MaxAttempts -> "retry_wait"
      [] OTHER -> "exhausted"]

\* A record takes a place of its own, or the place it already has
Insert(p) ==
  /\ records' = [records EXCEPT ![p.call] = [status |-> p.status, attempts |-> p.attempts]]
  /\ latest' = IF Recorded(p.call) THEN latest ELSE p.call

\* The result is handed to the model unless the block of results is full: beyond
\* MaxOutputs nothing is rendered, before it the characters may not suffice
Adopt == outputs' \in IF outputs < MaxOutputs THEN {outputs, outputs + 1} ELSE {outputs}

--------------------------------------------------------------------------------
(* The tool graph.  Run(node) is what one node has in common with the others: *)
(* the reply is in the graph and the checkpoint says the node is next.        *)

Run(node) == reply.at = "tools" /\ next = node
Volatile == UNCHANGED <<durable, receipts, within, reply, ran, crashes>>

\* A call begun under the old inputs is resolved before the new ones are taken:
\* from its receipt if that is a success, else as unknown or as a failed read
Resolved ==
  LET receipt == receipts[<<pending.call, pending.attempts>>] IN
  IF pending.status # "running" THEN pending
  ELSE IF receipt = "result" THEN Received(pending, receipt)
  ELSE Received(pending, "error")

EnterAfresh ==
  /\ ~updating
  /\ exit' = "complete"
  /\ UNCHANGED <<entry, pending, calls, results, budget>>

\* (wrong on purpose) a call that was running is forgotten with the old decision
EnterForgetting ==
  /\ updating
  /\ CASE pending.attempts = 0 \/ pending.status = "running" -> UNCHANGED results
       [] pending.attempts > 0 /\ pending.status = "retry_wait" -> Insert(pending) /\ UNCHANGED outputs
       [] OTHER -> Insert(pending) /\ Adopt
  /\ basis' = update /\ updating' = FALSE /\ UNCHANGED update
  /\ pending' = Nothing /\ calls' = <<>>
  /\ plan' = FALSE /\ reviewed' = NoCall /\ replanning' = FALSE
  /\ exit' = "complete"
  /\ UNCHANGED <<rounds, replans>>

EnterUpdated ==
  /\ updating
  /\ CASE pending.attempts = 0 -> UNCHANGED results
       [] pending.attempts > 0 /\ Resolved.status = "retry_wait" ->
            Insert(Resolved) /\ UNCHANGED outputs
       [] OTHER -> Insert(Resolved) /\ Adopt
  /\ basis' = update /\ updating' = FALSE /\ UNCHANGED update
  /\ pending' = Nothing /\ calls' = <<>>
  /\ plan' = FALSE /\ reviewed' = NoCall /\ replanning' = FALSE
  /\ exit' = "complete"
  /\ UNCHANGED <<rounds, replans>>

Enter ==
  /\ Run("enter")
  /\ EnterAfresh \/ EnterUpdated
  /\ next' = CASE InputPending(basis') -> "yield_input"
               [] ~InputPending(basis')
                  /\ (~basis'.allow \/ rounds >= MaxRounds
                      \/ outputs' >= MaxOutputs \/ Unknown(records')) -> "complete"
               [] OTHER -> "plan"
  /\ Volatile /\ UNCHANGED decidedOn

Plan ==
  /\ Run("plan")
  /\ plan' \in BOOLEAN
  /\ replanning' = FALSE
  /\ rounds' = IF replanning THEN 0 ELSE rounds
  /\ next' = IF InputPending(basis) THEN "yield_input" ELSE "decide"
  /\ Volatile
  /\ UNCHANGED <<entry, pending, calls, exit, results, replans, reviewed, decidedOn>>

Batches == UNION {[1 .. n -> Calls \cup {"replan"}] : n \in 0 .. MaxBatch}

\* A decision that fails gives no calls, like one that asks for none
Decide ==
  /\ Run("decide")
  /\ \/ /\ NeedsPlanReview
        /\ calls' = <<>>
        /\ next' = IF InputPending(basis) THEN "yield_input" ELSE "review_plan"
        /\ UNCHANGED <<rounds, decidedOn>>
     \/ /\ ~NeedsPlanReview
        /\ calls' \in Batches
        /\ rounds' = rounds + 1
        /\ decidedOn' = basis.inputs
        /\ next' = CASE InputPending(basis) -> "yield_input"
                     [] ~InputPending(basis) /\ calls' # <<>> -> "select_call"
                     [] OTHER -> "complete"
  /\ Volatile
  /\ UNCHANGED <<entry, pending, exit, results, replans, replanning, plan, reviewed>>

\* A review that fails says stop
ReviewPlan ==
  /\ Run("review_plan")
  /\ \E action \in {"continue", "replan", "stop"} :
       /\ replanning' = (action = "replan")
       /\ next' = CASE InputPending(basis) -> "yield_input"
                    [] ~InputPending(basis) /\ action = "replan" -> "replan"
                    [] ~InputPending(basis) /\ action = "continue" -> "decide"
                    [] OTHER -> "complete"
  /\ reviewed' = latest
  /\ calls' = <<>>
  /\ Volatile
  /\ UNCHANGED <<entry, pending, exit, results, rounds, replans, plan, decidedOn>>

\* A call never recorded may start while results are wanted; a recorded one only
\* to be retried
Startable(c) ==
  /\ c \in Authorised
  /\ IF Recorded(c)
     THEN records[c].status = "retry_wait" /\ records[c].attempts < MaxAttempts
     ELSE outputs < MaxOutputs

\* A new call with no room for its result ends the batch
EndsBatch(c) == c \in Authorised /\ ~Recorded(c) /\ outputs >= MaxOutputs

\* What the batch is left with: the calls up to the first that starts are dropped
\* (not authorised, already done, a request to plan again)
SelectCall ==
  /\ Run("select_call")
  /\ \/ /\ NeedsPlanReview
        /\ pending' = Nothing /\ calls' = <<>> /\ UNCHANGED replanning
     \/ /\ ~NeedsPlanReview
        /\ \E i \in 1 .. Len(calls) + 1 :
             /\ i <= Len(calls) => Startable(calls[i]) \/ EndsBatch(calls[i])
             /\ \A j \in 1 .. i - 1 : ~Startable(calls[j]) /\ ~EndsBatch(calls[j])
             /\ replanning' = (replanning \/ \E j \in 1 .. i - 1 : calls[j] = "replan")
             /\ IF i <= Len(calls) /\ Startable(calls[i])
                THEN /\ pending' = [call |-> calls[i], attempts |-> records[calls[i]].attempts,
                                    status |-> IF Recorded(calls[i]) THEN "retry_wait" ELSE "pending"]
                     /\ calls' = SubSeq(calls, i + 1, Len(calls))
                ELSE pending' = Nothing /\ calls' = <<>>
  /\ next' = CASE InputPending(basis) -> "yield_input"
               [] ~InputPending(basis) /\ pending' # Nothing -> "begin_attempt"
               [] ~InputPending(basis) /\ pending' = Nothing /\ replanning' -> "replan"
               [] ~InputPending(basis) /\ pending' = Nothing /\ ~replanning' /\ NeedsPlanReview ->
                    "review_plan"
               [] OTHER -> IF rounds < MaxRounds THEN "decide" ELSE "complete"
  /\ Volatile
  /\ UNCHANGED <<entry, exit, results, rounds, replans, plan, reviewed, decidedOn>>

BeginAttempt ==
  /\ Run("begin_attempt")
  /\ \/ /\ InputPending(basis)
        /\ exit' = "input_pending" /\ next' = "yield_input" /\ UNCHANGED pending
     \/ /\ ~InputPending(basis)
        /\ pending' = [pending EXCEPT !.attempts = @ + 1, !.status = "running"]
        /\ next' = "execute" /\ UNCHANGED exit
  /\ Volatile
  /\ UNCHANGED <<entry, calls, results, budget, decidedOn>>

--------------------------------------------------------------------------------
(* The node execute *)

Receipt == receipts[<<pending.call, pending.attempts>>]

\* The node is over: the pending call is p
Leave(p, newExit) ==
  /\ pending' = p /\ exit' = newExit
  /\ next' = CASE newExit = "input_pending" -> "yield_input"
               [] newExit # "input_pending" /\ p.status = "retry_wait" -> "begin_attempt"
               [] OTHER -> "accept"
  /\ place' = "outside" /\ outcome' = "none"
  /\ UNCHANGED <<durable, entry, calls, results, budget, reply, decidedOn, crashes>>

\* New inputs wait: nothing is started, the call is resolved from its receipt
ExecuteHeld ==
  /\ Run("execute") /\ place = "outside" /\ InputPending(basis)
  /\ CASE Receipt = "result" -> Leave(Received(pending, Receipt), exit)
       [] Receipt # "result" /\ pending.call \notin ReadOnly ->
            Leave([pending EXCEPT !.status = "uncertain"], exit)
       [] OTHER -> Leave(Received(pending, "error"), "input_pending")
  /\ UNCHANGED <<receipts, ran>>

\* The attempt has a receipt from before an interruption
ExecuteReplayed ==
  /\ Run("execute") /\ place = "outside" /\ ~InputPending(basis)
  /\ \/ /\ Receipt = "result" \/ (Receipt = "error" /\ pending.call \in ReadOnly)
        /\ Leave(Received(pending, Receipt), exit)
     \/ /\ Receipt \in {"running", "error"} /\ pending.call \notin ReadOnly
        /\ Leave([pending EXCEPT !.status = "uncertain"], exit)
  /\ UNCHANGED <<receipts, ran>>

\* (wrong on purpose) a claimed receipt is taken for a call that never started
MayCallClaimed == Receipt \in {"none", "running"}

\* The attempt is new, or a read whose outcome was never saved
MayCall == Receipt = "none" \/ (Receipt = "running" /\ pending.call \in ReadOnly)

\* (wrong on purpose) the inputs are not looked at again
ExecuteClaimedUnseen ==
  /\ Run("execute") /\ place = "outside"
  /\ MayCall
  /\ receipts' = [receipts EXCEPT ![<<pending.call, pending.attempts>>] = "running"]
  /\ place' = "claimed"
  /\ UNCHANGED <<durable, graph, outcome, reply, ran, decidedOn, crashes>>

ExecuteClaimed ==
  /\ Run("execute") /\ place = "outside" /\ ~InputPending(basis)
  /\ MayCall
  /\ receipts' = [receipts EXCEPT ![<<pending.call, pending.attempts>>] = "running"]
  /\ place' = "claimed"
  /\ UNCHANGED <<durable, graph, outcome, reply, ran, decidedOn, crashes>>

CallTool ==
  /\ reply.at = "tools" /\ place = "claimed"
  /\ ran' = [ran EXCEPT ![pending.call] = @ + 1]
  /\ place' = "called" /\ outcome' \in Outcomes
  /\ UNCHANGED <<durable, receipts, graph, reply, decidedOn, crashes>>

FinishExecution ==
  /\ reply.at = "tools" /\ place = "called"
  /\ receipts' = [receipts EXCEPT ![<<pending.call, pending.attempts>>] = outcome]
  /\ place' = "saved"
  /\ UNCHANGED <<durable, graph, outcome, reply, ran, decidedOn, crashes>>

Executed ==
  /\ reply.at = "tools" /\ place = "saved"
  /\ Leave(Received(pending, outcome), exit)
  /\ UNCHANGED <<receipts, ran>>

--------------------------------------------------------------------------------

Accept ==
  /\ Run("accept")
  /\ Insert(pending) /\ Adopt
  /\ pending' = Nothing
  /\ calls' = IF pending.status \in {"exhausted", "uncertain"} THEN <<>> ELSE calls
  /\ next' = "select_call"
  /\ Volatile
  /\ UNCHANGED <<entry, exit, budget, decidedOn>>

\* (wrong on purpose) a new plan is free
ReplanUncounted ==
  /\ Run("replan")
  /\ IF replans >= MaxReplans
     THEN replanning' = FALSE /\ next' = "complete" /\ UNCHANGED replans
     ELSE next' = "plan" /\ UNCHANGED <<replans, replanning>>
  /\ Volatile
  /\ UNCHANGED <<entry, pending, calls, exit, results, rounds, plan, reviewed, decidedOn>>

Replan ==
  /\ Run("replan")
  /\ IF replans >= MaxReplans
     THEN replanning' = FALSE /\ next' = "complete" /\ UNCHANGED replans
     ELSE replans' = replans + 1 /\ next' = "plan" /\ UNCHANGED replanning
  /\ Volatile
  /\ UNCHANGED <<entry, pending, calls, exit, results, rounds, plan, reviewed, decidedOn>>

YieldInput ==
  /\ Run("yield_input")
  /\ exit' = "input_pending" /\ next' = "end"
  /\ Volatile
  /\ UNCHANGED <<entry, pending, calls, results, budget, decidedOn>>

Complete ==
  /\ Run("complete")
  /\ exit' = "complete" /\ next' = "end"
  /\ Volatile
  /\ UNCHANGED <<entry, pending, calls, results, budget, decidedOn>>

--------------------------------------------------------------------------------
(* The reply around the tool graph *)

ReplyOnly == UNCHANGED <<durable, receipts, graph, within, ran, decidedOn, crashes>>
ReplyPending == ~reply.closed /\ log > reply.inputs

\* The reply r with the inputs that wait.  It is closed by a message that may not
\* join it, and by the largest number it may cover.
Collected(r) ==
  [r EXCEPT !.at = "think",
            !.inputs = IF r.closed THEN @ ELSE log,
            !.closed = @ \/ fence \/ log = MaxInputs,
            !.action = IF ~r.closed /\ log > r.inputs THEN "answer" ELSE @]

\* The user message is delivered: a reply that has its terminal is only archived
Deliver ==
  /\ reply.at = "down"
  /\ reply' = IF terminal THEN Started("archive") ELSE Collected(Started("think"))
  /\ ReplyOnly

\* Inputs arrived before a step of analysis, or while it ran
ThinkRefreshed ==
  /\ reply.at = "think" /\ ReplyPending
  /\ \/ reply' = Collected(reply)
     \/ /\ reply.thoughts < MaxThoughts /\ ~reply.fallback
        /\ \E thoughts \in {reply.thoughts + 1, MaxThoughts} :
             reply' = Collected([reply EXCEPT !.thoughts = thoughts])
  /\ ReplyOnly

\* One step of analysis says that it wants another
ThinkAgain ==
  /\ reply.at = "think" /\ ~ReplyPending
  /\ reply.thoughts + 1 < MaxThoughts /\ ~reply.fallback
  /\ reply' = Collected([reply EXCEPT !.thoughts = @ + 1])
  /\ ReplyOnly

\* The reply as it goes to its tools: a step of analysis says what is next, or fails
\* and is the last one; or no step is left
Thought ==
  IF reply.thoughts = MaxThoughts THEN {reply}
  ELSE {[reply EXCEPT !.thoughts = MaxThoughts, !.action = "answer"]}
       \cup {[reply EXCEPT !.thoughts = @ + 1, !.action = action] : action \in {"answer", "tools"}}

Wanted(r) == [inputs |-> r.inputs, closed |-> r.closed,
              allow |-> r.action = "tools" /\ Authorised # {}]

\* The tool graph is started, continued from its checkpoint, left as it ended, or
\* entered again because what it was started with no longer holds
UseTools ==
  /\ reply.at = "think" /\ ~ReplyPending /\ ~reply.fallback
  /\ \E r \in Thought :
       /\ reply' = [r EXCEPT !.at = "tools"]
       /\ \/ /\ next = "none"
             /\ basis' = Wanted(r) /\ update' = Wanted(r) /\ next' = "enter"
             /\ UNCHANGED updating
          \/ /\ next # "none" /\ basis = Wanted(r) /\ exit # "input_pending"
             /\ UNCHANGED <<basis, update, updating, next>>
          \/ /\ next # "none" /\ (basis # Wanted(r) \/ exit = "input_pending")
             /\ update' = Wanted(r) /\ updating' = TRUE /\ next' = "enter"
             /\ UNCHANGED basis
  /\ UNCHANGED <<durable, receipts, pending, calls, exit, results, budget, within, ran,
                 decidedOn, crashes>>

\* New inputs, and results to think about, lead back to the start of the reply
ToolsUsed ==
  /\ reply.at = "tools" /\ next = "end"
  /\ LET allowed == Wanted(reply).allow
         r == [reply EXCEPT !.action = IF allowed THEN "after_tools" ELSE "answer"]
     IN reply' = IF exit = "input_pending" \/ allowed
                 THEN Collected(r) ELSE [r EXCEPT !.at = "respond"]
  /\ ReplyOnly

\* The answer, or the sentence said when the model gives none
Respond ==
  /\ reply.at = "respond"
  /\ \E fallback \in BOOLEAN :
       LET r == [reply EXCEPT !.fallback = fallback] IN
       reply' = IF ReplyPending THEN Collected(r) ELSE [r EXCEPT !.at = "finalize"]
  /\ ReplyOnly

\* A fallback that was held up by new inputs is not thought over again
RespondFallback ==
  /\ reply.at = "think" /\ ~ReplyPending /\ reply.fallback
  /\ reply' = [reply EXCEPT !.at = "finalize"]
  /\ ReplyOnly

\* The inputs are looked at again in the transaction of the terminal
FinalizeUserReply ==
  /\ reply.at = "finalize"
  /\ reply' = IF ReplyPending THEN Collected(reply) ELSE [reply EXCEPT !.at = "archive"]
  /\ terminal' = ~ReplyPending
  /\ UNCHANGED <<log, fence, receipts, graph, within, ran, decidedOn, crashes>>

\* The checkpoint is deleted, then the receipts; an error of either is only logged
DeleteThread ==
  /\ reply.at = "archive"
  /\ \/ /\ reply' = [reply EXCEPT !.at = "clear"]
        /\ next' = "none" /\ basis' = NoBasis /\ updating' = FALSE /\ update' = NoBasis
        /\ pending' = Nothing /\ records' = NoRecords /\ latest' = NoCall
        /\ reviewed' = NoCall /\ calls' = <<>> /\ rounds' = 0 /\ replans' = 0
        /\ replanning' = FALSE /\ plan' = FALSE /\ outputs' = 0 /\ exit' = "complete"
     \/ reply' = [reply EXCEPT !.at = "done"] /\ UNCHANGED graph
  /\ UNCHANGED <<durable, receipts, within, ran, decidedOn, crashes>>

ClearExecutions ==
  /\ reply.at = "clear"
  /\ reply' = [reply EXCEPT !.at = "done"]
  /\ receipts' \in {receipts, [a \in Attempts |-> "none"]}
  /\ UNCHANGED <<durable, graph, within, ran, decidedOn, crashes>>

--------------------------------------------------------------------------------
(* The user, and what ends a reply before its time *)

Arrive ==
  /\ ~fence /\ log < MaxInputs
  /\ log' = log + 1
  /\ UNCHANGED <<fence, terminal, receipts, graph, within, reply, ran, decidedOn, crashes>>

\* A question of its own, an annotation: it is answered by the next reply (past the
\* limit every message is)
ArriveApart ==
  /\ ~fence /\ log < MaxInputs /\ fence' = TRUE
  /\ UNCHANGED <<log, terminal, receipts, graph, within, reply, ran, decidedOn, crashes>>

\* A crash, a cancellation, an error of the database
Interrupted ==
  /\ reply.at \notin {"down", "done"} /\ crashes < MaxCrashes
  /\ crashes' = crashes + 1
  /\ reply' = Started("down") /\ place' = "outside" /\ outcome' = "none"
  /\ UNCHANGED <<durable, receipts, graph, ran, decidedOn>>

GraphStep ==
  \/ Enter \/ Plan \/ Decide \/ ReviewPlan \/ SelectCall \/ BeginAttempt
  \/ ExecuteHeld \/ ExecuteReplayed \/ ExecuteClaimed \/ CallTool \/ FinishExecution \/ Executed
  \/ Accept \/ Replan \/ YieldInput \/ Complete
ReplyStep ==
  \/ Deliver \/ ThinkRefreshed \/ ThinkAgain \/ UseTools \/ ToolsUsed
  \/ Respond \/ RespondFallback \/ FinalizeUserReply \/ DeleteThread \/ ClearExecutions

Next == GraphStep \/ ReplyStep \/ Arrive \/ ArriveApart \/ Interrupted

Spec == Init /\ [][Next]_vars

\* Tasks that can go on do; an interrupted delivery is tried again (EventDelivery)
FairSpec == Spec /\ WF_vars(GraphStep \/ ReplyStep)

--------------------------------------------------------------------------------
(* Properties *)

\* A call with side effects is started at most once, whatever is interrupted, asked
\* for again or decided anew: an outcome that is not known is never replayed
\* (docs/facts/expression-system-facts.md).
SideEffectOnce == \A c \in Calls \ ReadOnly : ran[c] <= 1

\* While the reply is open, what is on record is what the receipts say: a call stands
\* as done exactly when its last attempt has a saved result, so that no confirmed
\* action is reported as unknown or failed, and no failed one as done.
RecordsMatchReceipts ==
  ~terminal =>
    \A c \in Calls : Recorded(c) =>
      (records[c].status = "success" <=> receipts[<<c, records[c].attempts>>] = "result")

\* When the reply answers, every action it ever started is on record, as done or as
\* unknown: none is lost with a decision that new inputs withdrew, or in a crash.
ActionsReported ==
  reply.at \in {"respond", "finalize"} =>
    \A c \in Calls \ ReadOnly :
      ran[c] > 0 => records[c].status \in {"success", "uncertain"}

\* A call is only started by a decision made with every input admitted when the
\* node looks: what a later message may have withdrawn is not begun, across
\* interruptions too.
FreshDecision == [][place = "outside" /\ place' = "claimed" => decidedOn = log]_vars

\* The reply ends: budgets, inputs and interruptions cannot keep it turning.
ReplyEnds == <>(reply.at = "done" /\ terminal)

--------------------------------------------------------------------------------
(* The invariant behind the safety properties *)

\* Whatever asks the model for a decision has a round left for it
RoundsLeft ==
  /\ next \in {"decide", "review_plan"} => rounds < MaxRounds
  /\ next = "plan" => replanning \/ rounds < MaxRounds
  /\ next = "replan" => replanning

\* The call at hand, node by node
PendingFits ==
  /\ pending.call = NoCall => pending = Nothing
  /\ pending.status = "none" => pending = Nothing
  /\ pending.attempts = 0 => pending.status \in {"none", "pending"}
  /\ pending.status \in {"none", "pending"} => pending.attempts = 0
  /\ pending.status = "retry_wait" => pending.call \in ReadOnly /\ pending.attempts < MaxAttempts
  /\ pending.call \notin ReadOnly => pending.attempts <= 1 /\ pending.status # "exhausted"
  /\ next \in {"none", "plan", "decide", "review_plan", "select_call", "replan", "complete"} =>
       pending = Nothing
  /\ next = "begin_attempt" => pending.status \in {"pending", "retry_wait"}
  /\ next = "execute" => pending.status = "running"
  /\ next = "accept" => pending.status \in Final
  /\ next = "enter" /\ ~updating => pending = Nothing
  /\ next = "end" /\ exit = "complete" => pending = Nothing
  /\ updating => next = "enter"

\* The node execute runs in a reply that is at its tools, under a receipt
PlaceFits ==
  /\ place # "outside" => reply.at = "tools" /\ next = "execute"
  /\ place \in {"claimed", "called"} => Receipt = "running"
  /\ place = "called" => outcome # "none"
  /\ place = "saved" => Receipt = outcome /\ outcome # "none"

\* What the reply has left behind when it answers
Phases ==
  /\ reply.at \in {"archive", "clear", "done"} => terminal
  /\ reply.at \in {"think", "tools", "respond", "finalize"} => ~terminal
  /\ ~terminal /\ (reply.at \in {"respond", "finalize"} \/ reply.fallback) =>
       next = "end" /\ exit = "complete"

RecordsFit ==
  \A c \in Calls :
    /\ records[c].status \notin {"pending", "running"}
    /\ Recorded(c) => records[c].attempts > 0
    /\ ~Recorded(c) => records[c].attempts = 0
    /\ records[c].status = "retry_wait" => c \in ReadOnly
    /\ c \notin ReadOnly => records[c].status # "exhausted"

\* A call at hand that is on record is one that is being retried
PendingRetried ==
  pending.call # NoCall /\ Recorded(pending.call) =>
    /\ records[pending.call].status = "retry_wait"
    /\ records[pending.call].attempts <= pending.attempts
    /\ pending.status # "retry_wait" => records[pending.call].attempts < pending.attempts

\* No receipt of a side effect is out of sight
ReceiptsKnown ==
  \A c \in Calls \ ReadOnly :
    receipts[<<c, 1>>] # "none" => Recorded(c) \/ (pending.call = c /\ pending.attempts = 1)

PendingMatches ==
  pending.status \in Final \cup {"retry_wait"} => (pending.status = "success" <=> Receipt = "result")

RunsKnown ==
  \A c \in Calls \ ReadOnly :
    /\ ran[c] > 0 => receipts[<<c, 1>>] # "none"
    /\ place = "claimed" /\ pending.call = c => ran[c] = 0

\* Once no message can join, everything admitted is known
ClosedKnows(b) == b.closed => b.inputs = log /\ (fence \/ log = MaxInputs)
InputsKnown ==
  /\ log >= reply.inputs /\ log >= basis.inputs /\ log >= update.inputs
  /\ ClosedKnows(reply) /\ ClosedKnows(basis) /\ ClosedKnows(update)
  /\ next \in {"select_call", "begin_attempt", "execute", "accept"} => decidedOn = basis.inputs

Ledger == RecordsFit /\ PendingRetried /\ ReceiptsKnown /\ PendingMatches /\ RunsKnown
          /\ RecordsMatchReceipts

IInv ==
  /\ TypeOK /\ RoundsLeft /\ PendingFits /\ PlaceFits /\ Phases /\ InputsKnown
  /\ SideEffectOnce
  /\ ~terminal => Ledger
================================================================================
