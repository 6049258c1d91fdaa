-------------------------- MODULE ToolExecutionProofs --------------------------
(***************************************************************************)
(* The safety of ToolExecution for every set of calls, every budget and    *)
(* every number of inputs and interruptions.                               *)
(***************************************************************************)
EXTENDS ToolExecution, SequenceTheorems, TLAPS

LEMMA Bounds ==
    /\ MaxRounds \in Nat /\ MaxRounds > 0 /\ MaxAttempts \in Nat /\ MaxAttempts > 0
    /\ MaxInputs \in Nat /\ MaxInputs > 0
    /\ MaxReplans \in Nat /\ MaxOutputs \in Nat /\ MaxThoughts \in Nat
    /\ MaxBatch \in Nat /\ MaxCrashes \in Nat
  <1>1. {MaxRounds, MaxAttempts, MaxInputs} \subseteq Nat \ {0}
    BY BoundsAssumption
  <1>2. {MaxReplans, MaxOutputs, MaxThoughts, MaxBatch, MaxCrashes} \subseteq Nat
    BY BoundsAssumption
  <1> QED BY <1>1, <1>2

LEMMA NothingType == Nothing \in [call : Calls \cup {NoCall}, status : Statuses, attempts : 0 .. MaxAttempts]
  BY Bounds DEF Nothing, Statuses

LEMMA InitInv == Init => IInv
  <1> SUFFICES ASSUME Init PROVE IInv
    OBVIOUS
  <1>1. TypeOK
    <2>1. /\ log \in 1 .. MaxInputs /\ rounds \in 0 .. MaxRounds /\ replans \in 0 .. MaxReplans
          /\ outputs \in 0 .. MaxOutputs /\ decidedOn \in 0 .. MaxInputs /\ crashes \in 0 .. MaxCrashes
      BY Bounds DEF Init
    <2>2. /\ basis \in Basis /\ update \in Basis
          /\ pending \in [call : Calls \cup {NoCall}, status : Statuses, attempts : 0 .. MaxAttempts]
          /\ records \in [Calls -> [status : Statuses, attempts : 0 .. MaxAttempts]]
      BY Bounds, NothingType DEF Init, Basis, NoBasis, NoRecords, Statuses
    <2>3. /\ receipts \in [Attempts -> ReceiptStates] /\ ran \in [Calls -> Nat]
          /\ next \in Nodes \cup {"none", "end"} /\ exit \in {"complete", "input_pending"}
          /\ latest \in Calls \cup {NoCall} /\ reviewed \in Calls \cup {NoCall}
          /\ place \in {"outside", "claimed", "called", "saved"}
          /\ outcome \in {"none"} \cup Outcomes
      BY DEF Init, ReceiptStates
    <2>4. fence \in BOOLEAN /\ terminal \in BOOLEAN /\ updating \in BOOLEAN
          /\ replanning \in BOOLEAN /\ plan \in BOOLEAN
      BY DEF Init
    <2>5. calls \in Seq(Calls \cup {"replan"})
      BY DEF Init
    <2>6. reply \in [at : {"down", "think", "tools", "respond", "finalize", "archive", "clear", "done"},
                inputs : 1 .. MaxInputs, closed : BOOLEAN, thoughts : 0 .. MaxThoughts,
                fallback : BOOLEAN,
                action : {"answer", "tools", "after_tools"}]
      BY Bounds DEF Init, Started
    <2> QED BY <2>1, <2>2, <2>3, <2>4, <2>5, <2>6 DEF TypeOK
  <1>2. RoundsLeft /\ PendingFits /\ PlaceFits /\ Phases
    BY DEF Init, RoundsLeft, PendingFits, PlaceFits, Phases, Nothing, Started
  <1>3. InputsKnown
    BY Bounds DEF Init, InputsKnown, ClosedKnows, Started, NoBasis
  <1>4. SideEffectOnce /\ Ledger
    <2>1. \A c \in Calls : <<c, 1>> \in Attempts
      BY Bounds DEF Attempts
    <2>2. \A c \in Calls : records[c] = [status |-> "none", attempts |-> 0] /\ ran[c] = 0
      BY DEF Init, NoRecords
    <2>3. SideEffectOnce /\ RecordsFit /\ RecordsMatchReceipts
      BY <2>2 DEF SideEffectOnce, RecordsFit, RecordsMatchReceipts, Recorded
    <2>4. PendingRetried /\ PendingMatches
      BY DEF Init, PendingRetried, PendingMatches, Nothing, Final
    <2>5. ReceiptsKnown /\ RunsKnown
      BY <2>1, <2>2 DEF Init, ReceiptsKnown, RunsKnown
    <2> QED BY <2>3, <2>4, <2>5 DEF Ledger
  <1> QED BY <1>1, <1>2, <1>3, <1>4 DEF IInv

--------------------------------------------------------------------------------
(* The type invariant by groups of variables: a step keeps the groups it leaves alone *)

Pendings == [call : Calls \cup {NoCall}, status : Statuses, attempts : 0 .. MaxAttempts]
Records == [Calls -> [status : Statuses, attempts : 0 .. MaxAttempts]]
Replies ==
  [at : {"down", "think", "tools", "respond", "finalize", "archive", "clear", "done"},
   inputs : 1 .. MaxInputs, closed : BOOLEAN, thoughts : 0 .. MaxThoughts,
   fallback : BOOLEAN, action : {"answer", "tools", "after_tools"}]

DurableType == log \in 1 .. MaxInputs /\ fence \in BOOLEAN /\ terminal \in BOOLEAN
ResultsType == records \in Records /\ latest \in Calls \cup {NoCall} /\ outputs \in 0 .. MaxOutputs
BudgetType ==
  /\ rounds \in 0 .. MaxRounds /\ replans \in 0 .. MaxReplans
  /\ replanning \in BOOLEAN /\ plan \in BOOLEAN /\ reviewed \in Calls \cup {NoCall}
EntryType == basis \in Basis /\ updating \in BOOLEAN /\ update \in Basis
WithinType ==
  place \in {"outside", "claimed", "called", "saved"} /\ outcome \in {"none"} \cup Outcomes
NextType == next \in Nodes \cup {"none", "end"}
ExitType == exit \in {"complete", "input_pending"}
PendingType == pending \in Pendings
CallsType == calls \in Seq(Calls \cup {"replan"})
ReplyType == reply \in Replies
HistoryType ==
  /\ receipts \in [Attempts -> ReceiptStates]
  /\ ran \in [Calls -> Nat] /\ decidedOn \in 0 .. MaxInputs /\ crashes \in 0 .. MaxCrashes

LEMMA TypeParts ==
    TypeOK <=> /\ DurableType /\ ResultsType /\ BudgetType /\ EntryType /\ WithinType
               /\ NextType /\ ExitType /\ PendingType /\ CallsType /\ ReplyType /\ HistoryType
  BY Zenon
  DEF TypeOK, DurableType, ResultsType, BudgetType, EntryType, WithinType, NextType, ExitType,
     PendingType, CallsType, ReplyType, HistoryType, Pendings, Records, Replies

LEMMA TypePartsNext ==
    TypeOK' <=> /\ DurableType' /\ ResultsType' /\ BudgetType' /\ EntryType' /\ WithinType'
                /\ NextType' /\ ExitType' /\ PendingType' /\ CallsType' /\ ReplyType' /\ HistoryType'
  BY Zenon
  DEF TypeOK, DurableType, ResultsType, BudgetType, EntryType, WithinType, NextType, ExitType,
     PendingType, CallsType, ReplyType, HistoryType, Pendings, Records, Replies

LEMMA Frames ==
    ASSUME TypeOK
    PROVE  /\ UNCHANGED durable => DurableType'
           /\ UNCHANGED results => ResultsType'
           /\ UNCHANGED budget => BudgetType'
           /\ UNCHANGED entry => EntryType'
           /\ UNCHANGED within => WithinType'
           /\ UNCHANGED next => NextType'
           /\ UNCHANGED exit => ExitType'
           /\ UNCHANGED pending => PendingType'
           /\ UNCHANGED calls => CallsType'
           /\ UNCHANGED reply => ReplyType'
           /\ UNCHANGED <<receipts, ran, decidedOn, crashes>> => HistoryType'
  <1>1. UNCHANGED durable => DurableType'
    BY DEF TypeOK, durable, DurableType
  <1>2. UNCHANGED results => ResultsType'
    BY DEF TypeOK, results, ResultsType, Records
  <1>3. UNCHANGED budget => BudgetType'
    BY DEF TypeOK, budget, BudgetType
  <1>4. UNCHANGED entry => EntryType'
    BY DEF TypeOK, entry, EntryType
  <1>5. UNCHANGED within => WithinType'
    BY DEF TypeOK, within, WithinType
  <1>6. /\ UNCHANGED next => NextType'
        /\ UNCHANGED exit => ExitType'
        /\ UNCHANGED pending => PendingType'
        /\ UNCHANGED calls => CallsType'
        /\ UNCHANGED reply => ReplyType'
    BY DEF TypeOK, NextType, ExitType, PendingType, CallsType, ReplyType, Pendings, Replies
  <1>7. UNCHANGED <<receipts, ran, decidedOn, crashes>> => HistoryType'
    BY DEF TypeOK, HistoryType
  <1> QED BY <1>1, <1>2, <1>3, <1>4, <1>5, <1>6, <1>7

LEMMA EmptyCalls == <<>> \in Seq(Calls \cup {"replan"})
  OBVIOUS

LEMMA BasisTypes == NoBasis \in Basis /\ \A r \in Replies : Wanted(r) \in Basis
  BY Bounds DEF Basis, NoBasis, Wanted, Replies

LEMMA WithStatus ==
    ASSUME NEW p \in Pendings, NEW s \in Statuses
    PROVE  [p EXCEPT !.status = s] \in Pendings
  BY DEF Pendings

LEMMA ReceivedIs ==
    ASSUME NEW p \in Pendings, NEW result
    PROVE  /\ Received(p, result) \in Pendings
           /\ Received(p, result).call = p.call
           /\ Received(p, result).attempts = p.attempts
           /\ Received(p, result).status \in Final \cup {"retry_wait"}
           /\ Received(p, result).status = "success" <=> result = "result"
           /\ Received(p, result).status = "retry_wait" =>
                p.call \in ReadOnly /\ p.attempts < MaxAttempts
           /\ p.call \notin ReadOnly => Received(p, result).status \in {"success", "uncertain"}
  BY DEF Pendings, Received, Statuses, Final

LEMMA ResolvedIs ==
    ASSUME TypeOK
    PROVE  /\ Resolved \in Pendings
           /\ Resolved.call = pending.call /\ Resolved.attempts = pending.attempts
           /\ pending.status # "running" => Resolved = pending
           /\ pending.status = "running" =>
                /\ Resolved.status \in Final \cup {"retry_wait"}
                /\ Resolved.status = "success" <=> Receipt = "result"
                /\ Resolved.status = "retry_wait" =>
                      pending.call \in ReadOnly /\ pending.attempts < MaxAttempts
                /\ pending.call \notin ReadOnly => Resolved.status \in {"success", "uncertain"}
  <1>1. pending \in Pendings
    BY TypeParts DEF PendingType
  <1> QED BY <1>1, ReceivedIs DEF Resolved, Receipt

LEMMA InsertIs ==
    ASSUME TypeOK, NEW p \in Pendings, p.call \in Calls, Insert(p)
    PROVE  /\ records' \in Records /\ latest' \in Calls \cup {NoCall}
           /\ \A c \in Calls : records'[c] = IF c = p.call THEN [status |-> p.status, attempts |-> p.attempts]
                                                          ELSE records[c]
  <1>1. records \in Records /\ latest \in Calls \cup {NoCall}
    BY TypeParts DEF ResultsType
  <1> QED BY <1>1 DEF Records, Pendings, Insert

LEMMA AdoptType == ASSUME TypeOK, Adopt PROVE outputs' \in 0 .. MaxOutputs
  BY Bounds DEF TypeOK, Adopt

LEMMA StartedType ==
    \A at \in {"down", "think", "archive"} :
      /\ Started(at) \in Replies /\ Started(at).at = at /\ Started(at).inputs = 1
      /\ Started(at).closed = FALSE /\ Started(at).fallback = FALSE
  BY Bounds DEF Started, Replies

LEMMA CollectedIs ==
    ASSUME TypeOK, NEW r \in Replies
    PROVE  /\ Collected(r) \in Replies /\ Collected(r).at = "think"
           /\ Collected(r).inputs = IF r.closed THEN r.inputs ELSE log
           /\ Collected(r).closed <=> r.closed \/ fence \/ log = MaxInputs
           /\ Collected(r).fallback = r.fallback
  <1>1. log \in 1 .. MaxInputs /\ fence \in BOOLEAN
    BY DEF TypeOK
  <1> QED BY <1>1 DEF Collected, Replies

LEMMA ThoughtIs ==
    ASSUME TypeOK, NEW r \in Thought
    PROVE  /\ r \in Replies /\ r.inputs = reply.inputs /\ r.closed = reply.closed
           /\ r.fallback = reply.fallback
  <1> DEFINE With(t, action) == [reply EXCEPT !.thoughts = t, !.action = action]
  <1>1. reply \in Replies
    BY TypeParts DEF ReplyType
  <1>2. ASSUME NEW t \in 0 .. MaxThoughts, NEW action \in {"answer", "tools"}
        PROVE  /\ With(t, action) \in Replies
               /\ With(t, action).inputs = reply.inputs /\ With(t, action).closed = reply.closed
               /\ With(t, action).fallback = reply.fallback
    BY <1>1 DEF Replies
  <1>3. MaxThoughts \in 0 .. MaxThoughts
    BY Bounds
  <1>4. CASE reply.thoughts = MaxThoughts
    BY <1>1, <1>4 DEF Thought
  <1>5. CASE reply.thoughts # MaxThoughts
    <2>1. reply.thoughts + 1 \in 0 .. MaxThoughts
      BY <1>1, <1>5, Bounds DEF Replies
    <2>2. \/ r = With(MaxThoughts, "answer")
          \/ \E action \in {"answer", "tools"} : r = With(reply.thoughts + 1, action)
      BY <1>5 DEF Thought
    <2> HIDE DEF With
    <2> QED BY <1>2, <1>3, <2>1, <2>2
  <1> QED BY <1>4, <1>5

--------------------------------------------------------------------------------
(* Every step keeps the types *)

LEMMA TypeStep == ASSUME IInv, Next PROVE TypeOK'
  <1> USE Bounds
  <1>0. TypeOK
    BY DEF IInv
  <1>fits. PendingFits
    BY DEF IInv
  <1>pending. pending \in Pendings
    BY <1>0, TypeParts DEF PendingType
  <1>reply. reply \in Replies
    BY <1>0, TypeParts DEF ReplyType
  <1>history. HistoryType
    BY <1>0, TypeParts
  <1>thought. Thought \subseteq Replies
    BY <1>0, ThoughtIs
  <1>1. CASE Enter
    <2>1. DurableType' /\ WithinType' /\ ReplyType' /\ HistoryType'
      BY <1>1, <1>0, Frames DEF Enter, EnterAfresh, EnterUpdated, Volatile
    <2>2. ResultsType'
      <3>1. CASE UNCHANGED results
        BY <3>1, <1>0, Frames
      <3>2. CASE pending.attempts # 0 /\ Insert(Resolved) /\ (Adopt \/ UNCHANGED outputs)
        <4>1. Resolved \in Pendings /\ Resolved.call \in Calls
          BY <3>2, <1>0, <1>pending, <1>fits, ResolvedIs DEF PendingFits, Nothing, Pendings
        <4>2. outputs' \in 0 .. MaxOutputs
          BY <3>2, <1>0, AdoptType DEF TypeOK
        <4> QED BY <3>2, <4>1, <4>2, <1>0, InsertIs DEF ResultsType
      <3> QED BY <1>1, <1>0, <3>1, <3>2 DEF Enter, EnterAfresh, EnterUpdated, results, TypeOK
    <2>3. BudgetType' /\ EntryType' /\ NextType' /\ ExitType'
      BY <1>1, <1>0
      DEF Enter, EnterAfresh, EnterUpdated, TypeOK, BudgetType, budget, EntryType, entry,
          NextType, Nodes, ExitType
    <2>4. PendingType' /\ CallsType'
      BY <1>1, <1>0, Frames, NothingType, EmptyCalls
      DEF Enter, EnterAfresh, EnterUpdated, PendingType, Pendings, CallsType
    <2> QED BY <2>1, <2>2, <2>3, <2>4, TypePartsNext
  <1>2. CASE Plan
    <2>1. /\ DurableType' /\ ResultsType' /\ EntryType' /\ WithinType' /\ ExitType' /\ PendingType'
          /\ CallsType' /\ ReplyType' /\ HistoryType'
      BY <1>2, <1>0, Frames DEF Plan, Volatile
    <2>2. BudgetType'
      <3>1. rounds' \in 0 .. MaxRounds /\ UNCHANGED <<replans, reviewed>>
        BY <1>2, <1>0 DEF Plan, TypeOK
      <3>2. replanning' \in BOOLEAN /\ plan' \in BOOLEAN
        BY <1>2, Zenon DEF Plan
      <3> QED BY <1>0, <3>1, <3>2 DEF TypeOK, BudgetType
    <2>3. NextType'
      BY <1>2 DEF Plan, NextType, Nodes
    <2> QED BY <2>1, <2>2, <2>3, TypePartsNext
  <1>3. CASE Decide
    <2>1. /\ DurableType' /\ ResultsType' /\ EntryType' /\ WithinType' /\ ExitType' /\ PendingType'
          /\ ReplyType'
      BY <1>3, <1>0, Frames DEF Decide, Volatile
    <2>2. BudgetType'
      <3>1. UNCHANGED <<replans, replanning, plan, reviewed>>
        BY <1>3 DEF Decide
      <3>2. rounds < MaxRounds
        BY <1>3 DEF Decide, IInv, RoundsLeft, Run
      <3>3. rounds' \in 0 .. MaxRounds
        <4>1. rounds' \in {rounds, rounds + 1}
          BY <1>3 DEF Decide
        <4> QED BY <4>1, <3>2, <1>0 DEF TypeOK
      <3> QED BY <1>0, <3>1, <3>3 DEF TypeOK, BudgetType
    <2>3. NextType'
      BY <1>3 DEF Decide, NextType, Nodes
    <2>4. CallsType'
      <3>1. Batches \subseteq Seq(Calls \cup {"replan"})
        BY DEF Batches
      <3> QED BY <1>3, <3>1, EmptyCalls DEF Decide, CallsType
    <2>5. HistoryType'
      BY <1>3, <1>0 DEF Decide, TypeOK, HistoryType, Basis, Volatile
    <2> QED BY <2>1, <2>2, <2>3, <2>4, <2>5, TypePartsNext
  <1>4. CASE ReviewPlan
    <2>1. /\ DurableType' /\ ResultsType' /\ EntryType' /\ WithinType' /\ ExitType' /\ PendingType'
          /\ ReplyType' /\ HistoryType'
      BY <1>4, <1>0, Frames DEF ReviewPlan, Volatile
    <2>2. BudgetType' /\ NextType'
      BY <1>4, <1>0 DEF ReviewPlan, TypeOK, BudgetType, budget, NextType, Nodes, results
    <2>3. CallsType'
      BY <1>4, EmptyCalls DEF ReviewPlan, CallsType
    <2> QED BY <2>1, <2>2, <2>3, TypePartsNext
  <1>5. CASE SelectCall
    <2>1. /\ DurableType' /\ ResultsType' /\ EntryType' /\ WithinType' /\ ExitType' /\ ReplyType'
          /\ HistoryType'
      BY <1>5, <1>0, Frames DEF SelectCall, Volatile
    <2>2. BudgetType' /\ NextType'
      BY <1>5, <1>0 DEF SelectCall, TypeOK, BudgetType, budget, NextType, Nodes
    <2>3. CallsType' /\ PendingType'
      <3>1. CASE pending' = Nothing /\ calls' = <<>>
        BY <3>1, NothingType, EmptyCalls DEF PendingType, Pendings, CallsType
      <3>2. ASSUME NEW i \in 1 .. Len(calls), calls[i] \in Authorised,
                   Recorded(calls[i]) => records[calls[i]].attempts < MaxAttempts,
                   pending' = [call |-> calls[i], attempts |-> records[calls[i]].attempts,
                               status |-> IF Recorded(calls[i]) THEN "retry_wait" ELSE "pending"],
                   calls' = SubSeq(calls, i + 1, Len(calls))
            PROVE  PendingType' /\ CallsType'
        <4>1. calls \in Seq(Calls \cup {"replan"}) /\ calls[i] \in Calls
          BY <1>0, <3>2, CallsAssumption DEF TypeOK
        <4>2. records[calls[i]].attempts \in 0 .. MaxAttempts
          BY <1>0, <4>1 DEF TypeOK
        <4>3. PendingType'
          BY <3>2, <4>1, <4>2 DEF PendingType, Pendings, Statuses
        <4>4. SubSeq(calls, i + 1, Len(calls)) \in Seq(Calls \cup {"replan"})
          BY <4>1, SubSeqProperties
        <4> QED BY <3>2, <4>3, <4>4 DEF CallsType
      <3>3. \/ pending' = Nothing /\ calls' = <<>>
            \/ \E i \in 1 .. Len(calls) :
                 /\ Startable(calls[i])
                 /\ pending' = [call |-> calls[i], attempts |-> records[calls[i]].attempts,
                                status |-> IF Recorded(calls[i]) THEN "retry_wait" ELSE "pending"]
                 /\ calls' = SubSeq(calls, i + 1, Len(calls))
        <4>1. Len(calls) \in Nat
          BY <1>0 DEF TypeOK
        <4> QED BY <1>5, <4>1 DEF SelectCall
      <3> QED BY <3>1, <3>2, <3>3 DEF Startable
    <2> QED BY <2>1, <2>2, <2>3, TypePartsNext
  <1>6. CASE BeginAttempt
    <2>1. /\ DurableType' /\ ResultsType' /\ BudgetType' /\ EntryType' /\ WithinType' /\ CallsType'
          /\ ReplyType' /\ HistoryType'
      BY <1>6, <1>0, Frames DEF BeginAttempt, Volatile
    <2>2. NextType' /\ ExitType'
      BY <1>6, <1>0 DEF BeginAttempt, TypeOK, NextType, ExitType, Nodes
    <2>3. PendingType'
      <3>1. CASE UNCHANGED pending
        BY <3>1, <1>0, Frames
      <3>2. CASE pending' = [pending EXCEPT !.attempts = @ + 1, !.status = "running"]
        <4>1. pending.status \in {"pending", "retry_wait"}
          BY <1>6, <1>fits DEF BeginAttempt, Run, PendingFits
        <4>2. pending.attempts < MaxAttempts
          BY <4>1, <1>fits, <1>pending DEF PendingFits, Pendings
        <4>3. pending.attempts + 1 \in 0 .. MaxAttempts /\ pending.call \in Calls \cup {NoCall}
          BY <4>2, <1>pending DEF Pendings
        <4>4. pending' = [call |-> pending.call, status |-> "running",
                         attempts |-> pending.attempts + 1]
          BY <3>2, <1>pending DEF Pendings
        <4> QED BY <4>3, <4>4 DEF PendingType, Pendings, Statuses
      <3> QED BY <1>6, <3>1, <3>2 DEF BeginAttempt
    <2> QED BY <2>1, <2>2, <2>3, TypePartsNext
  <1>7. CASE ExecuteHeld
    <2>1. /\ DurableType' /\ ResultsType' /\ BudgetType' /\ EntryType' /\ CallsType' /\ ReplyType'
          /\ HistoryType'
      BY <1>7, <1>0, Frames DEF ExecuteHeld, Leave
    <2>2. NextType' /\ ExitType' /\ WithinType'
      BY <1>7, <1>0 DEF ExecuteHeld, Leave, TypeOK, NextType, ExitType, Nodes, WithinType
    <2>3. PendingType'
      <3>1. [pending EXCEPT !.status = "uncertain"] \in Pendings
        BY <1>pending, WithStatus DEF Statuses, Final
      <3>2. \A result \in ReceiptStates : Received(pending, result) \in Pendings
        BY <1>pending, ReceivedIs
      <3> QED BY <1>7, <3>1, <3>2
          DEF ExecuteHeld, ExecuteReplayed, Leave, PendingType, ReceiptStates, Outcomes
    <2> QED BY <2>1, <2>2, <2>3, TypePartsNext
  <1>8. CASE ExecuteReplayed
    <2>1. /\ DurableType' /\ ResultsType' /\ BudgetType' /\ EntryType' /\ CallsType' /\ ReplyType'
          /\ HistoryType'
      BY <1>8, <1>0, Frames DEF ExecuteReplayed, Leave
    <2>2. NextType' /\ ExitType' /\ WithinType'
      BY <1>8, <1>0 DEF ExecuteReplayed, Leave, TypeOK, NextType, ExitType, Nodes, WithinType
    <2>3. PendingType'
      <3>1. [pending EXCEPT !.status = "uncertain"] \in Pendings
        BY <1>pending, WithStatus DEF Statuses, Final
      <3>2. \A result \in ReceiptStates : Received(pending, result) \in Pendings
        BY <1>pending, ReceivedIs
      <3> QED BY <1>8, <3>1, <3>2
          DEF ExecuteHeld, ExecuteReplayed, Leave, PendingType, ReceiptStates, Outcomes
    <2> QED BY <2>1, <2>2, <2>3, TypePartsNext
  <1>9. CASE ExecuteClaimed
    <2>1. /\ DurableType' /\ ResultsType' /\ BudgetType' /\ EntryType' /\ NextType' /\ ExitType'
          /\ PendingType' /\ CallsType' /\ ReplyType'
      BY <1>9, <1>0, Frames DEF ExecuteClaimed, graph
    <2>2. HistoryType'
      BY <1>9, <1>history DEF ExecuteClaimed, HistoryType, ReceiptStates
    <2>3. WithinType'
      BY <1>9, <1>0 DEF ExecuteClaimed, TypeOK, WithinType
    <2> QED BY <2>1, <2>2, <2>3, TypePartsNext
  <1>10. CASE CallTool
    <2>1. /\ DurableType' /\ ResultsType' /\ BudgetType' /\ EntryType' /\ NextType' /\ ExitType'
          /\ PendingType' /\ CallsType' /\ ReplyType'
      BY <1>10, <1>0, Frames DEF CallTool, graph
    <2>2. HistoryType'
      <3>1. pending.call \in Calls
        BY <1>10, <1>fits, <1>pending DEF CallTool, IInv, PlaceFits, PendingFits, Nothing, Pendings
      <3> QED BY <1>10, <3>1, <1>history DEF CallTool, HistoryType
    <2>3. WithinType'
      BY <1>10, <1>0 DEF CallTool, TypeOK, WithinType
    <2> QED BY <2>1, <2>2, <2>3, TypePartsNext
  <1>11. CASE FinishExecution
    <2>1. /\ DurableType' /\ ResultsType' /\ BudgetType' /\ EntryType' /\ NextType' /\ ExitType'
          /\ PendingType' /\ CallsType' /\ ReplyType'
      BY <1>11, <1>0, Frames DEF FinishExecution, graph
    <2>2. HistoryType'
      <3>1. outcome \in ReceiptStates
        BY <1>11, <1>0 DEF FinishExecution, IInv, PlaceFits, TypeOK, ReceiptStates
      <3> QED BY <1>11, <3>1, <1>history DEF FinishExecution, HistoryType, graph
    <2>3. WithinType'
      BY <1>11, <1>0 DEF FinishExecution, TypeOK, WithinType
    <2> QED BY <2>1, <2>2, <2>3, TypePartsNext
  <1>12. CASE Executed
    <2>1. /\ DurableType' /\ ResultsType' /\ BudgetType' /\ EntryType' /\ CallsType' /\ ReplyType'
          /\ HistoryType'
      BY <1>12, <1>0, Frames DEF Executed, Leave
    <2>2. NextType' /\ ExitType' /\ WithinType'
      BY <1>12, <1>0 DEF Executed, Leave, TypeOK, NextType, ExitType, Nodes, WithinType
    <2>3. PendingType'
      BY <1>12, <1>0, <1>pending, ReceivedIs DEF Executed, Leave, PendingType
    <2> QED BY <2>1, <2>2, <2>3, TypePartsNext
  <1>13. CASE Accept
    <2>1. /\ DurableType' /\ BudgetType' /\ EntryType' /\ WithinType' /\ ExitType' /\ ReplyType'
          /\ HistoryType'
      BY <1>13, <1>0, Frames DEF Accept, Volatile
    <2>2. ResultsType'
      <3>1. pending.call \in Calls
        BY <1>13, <1>fits, <1>pending DEF Accept, Run, PendingFits, Nothing, Pendings, Final
      <3> QED BY <1>13, <3>1, <1>0, <1>pending, InsertIs, AdoptType DEF Accept, ResultsType
    <2>3. NextType'
      BY <1>13 DEF Accept, NextType, Nodes
    <2>4. PendingType' /\ CallsType'
      BY <1>13, <1>0, NothingType, EmptyCalls DEF Accept, TypeOK, PendingType, Pendings, CallsType
    <2> QED BY <2>1, <2>2, <2>3, <2>4, TypePartsNext
  <1>14. CASE Replan
    <2>1. /\ DurableType' /\ ResultsType' /\ EntryType' /\ WithinType' /\ ExitType' /\ PendingType'
          /\ CallsType' /\ ReplyType' /\ HistoryType'
      BY <1>14, <1>0, Frames DEF Replan, Volatile
    <2>2. BudgetType' /\ NextType'
      <3>1. replans' \in 0 .. MaxReplans /\ UNCHANGED <<rounds, plan, reviewed>>
        BY <1>14, <1>0 DEF Replan, TypeOK
      <3>2. replanning' \in BOOLEAN
        BY <1>14, <1>0, Zenon DEF Replan, TypeOK
      <3>3. NextType'
        BY <1>14 DEF Replan, NextType, Nodes
      <3> QED BY <1>0, <3>1, <3>2, <3>3 DEF TypeOK, BudgetType
    <2> QED BY <2>1, <2>2, TypePartsNext
  <1>15. CASE YieldInput
    <2>1. /\ DurableType' /\ ResultsType' /\ BudgetType' /\ EntryType' /\ WithinType' /\ PendingType'
          /\ CallsType' /\ ReplyType' /\ HistoryType'
      BY <1>15, <1>0, Frames DEF YieldInput, Volatile
    <2>2. NextType' /\ ExitType'
      BY <1>15 DEF YieldInput, NextType, ExitType, Nodes
    <2> QED BY <2>1, <2>2, TypePartsNext
  <1>16. CASE Complete
    <2>1. /\ DurableType' /\ ResultsType' /\ BudgetType' /\ EntryType' /\ WithinType' /\ PendingType'
          /\ CallsType' /\ ReplyType' /\ HistoryType'
      BY <1>16, <1>0, Frames DEF Complete, Volatile
    <2>2. NextType' /\ ExitType'
      BY <1>16 DEF Complete, NextType, ExitType, Nodes
    <2> QED BY <2>1, <2>2, TypePartsNext
  <1>17. CASE Deliver
    <2>1. /\ DurableType' /\ ResultsType' /\ BudgetType' /\ EntryType' /\ WithinType' /\ NextType'
          /\ ExitType' /\ PendingType' /\ CallsType' /\ HistoryType'
      BY <1>17, <1>0, Frames DEF Deliver, ReplyOnly, graph
    <2>2. ReplyType'
      BY <1>17, <1>0, StartedType, CollectedIs DEF Deliver, ReplyType
    <2> QED BY <2>1, <2>2, TypePartsNext
  <1>18. CASE ThinkRefreshed
    <2>1. /\ DurableType' /\ ResultsType' /\ BudgetType' /\ EntryType' /\ WithinType' /\ NextType'
          /\ ExitType' /\ PendingType' /\ CallsType' /\ HistoryType'
      BY <1>18, <1>0, Frames DEF ThinkRefreshed, ReplyOnly, graph
    <2>2. ReplyType'
      <3>1. ASSUME NEW t \in 0 .. MaxThoughts PROVE [reply EXCEPT !.thoughts = t] \in Replies
        BY <1>reply DEF Replies
      <3>2. reply.thoughts < MaxThoughts => reply.thoughts + 1 \in 0 .. MaxThoughts
        BY <1>reply DEF Replies
      <3> QED BY <1>18, <3>1, <3>2, <1>0, <1>reply, CollectedIs DEF ThinkRefreshed, ReplyType
    <2> QED BY <2>1, <2>2, TypePartsNext
  <1>19. CASE ThinkAgain
    <2>1. /\ DurableType' /\ ResultsType' /\ BudgetType' /\ EntryType' /\ WithinType' /\ NextType'
          /\ ExitType' /\ PendingType' /\ CallsType' /\ HistoryType'
      BY <1>19, <1>0, Frames DEF ThinkAgain, ReplyOnly, graph
    <2>2. ReplyType'
      <3>1. [reply EXCEPT !.thoughts = @ + 1] \in Replies
        BY <1>19, <1>reply DEF ThinkAgain, Replies
      <3> QED BY <1>19, <3>1, <1>0, CollectedIs DEF ThinkAgain, ReplyType
    <2> QED BY <2>1, <2>2, TypePartsNext
  <1>20. CASE UseTools
    <2>1. /\ DurableType' /\ ResultsType' /\ BudgetType' /\ WithinType' /\ ExitType' /\ PendingType'
          /\ CallsType' /\ HistoryType'
      BY <1>20, <1>0, Frames DEF UseTools
    <2>2. EntryType'
      <3>1. PICK r \in Thought : basis' \in {Wanted(r), basis} /\ update' \in {Wanted(r), update}
        BY <1>20 DEF UseTools
      <3>2. Wanted(r) \in Basis
        BY <3>1, <1>thought, BasisTypes
      <3>3. updating' \in BOOLEAN
        BY <1>20, <1>0 DEF UseTools, TypeOK
      <3> QED BY <3>1, <3>2, <3>3, <1>0 DEF TypeOK, EntryType
    <2>3. NextType'
      BY <1>20, <1>0 DEF UseTools, TypeOK, NextType, Nodes
    <2>4. ReplyType'
      <3>1. PICK r \in Thought : reply' = [r EXCEPT !.at = "tools"]
        BY <1>20 DEF UseTools
      <3> QED BY <3>1, <1>thought DEF ReplyType, Replies
    <2> QED BY <2>1, <2>2, <2>3, <2>4, TypePartsNext
  <1>21. CASE ToolsUsed
    <2>1. /\ DurableType' /\ ResultsType' /\ BudgetType' /\ EntryType' /\ WithinType' /\ NextType'
          /\ ExitType' /\ PendingType' /\ CallsType' /\ HistoryType'
      BY <1>21, <1>0, Frames DEF ToolsUsed, ReplyOnly, graph
    <2>2. ReplyType'
      <3>1. PICK action \in {"after_tools", "answer"} :
              LET r == [reply EXCEPT !.action = action]
              IN  reply' \in {Collected(r), [r EXCEPT !.at = "respond"]}
        BY <1>21 DEF ToolsUsed
      <3>2. [reply EXCEPT !.action = action] \in Replies
        BY <1>reply DEF Replies
      <3>3. [[reply EXCEPT !.action = action] EXCEPT !.at = "respond"] \in Replies
        BY <3>2 DEF Replies
      <3> QED BY <3>1, <3>2, <3>3, <1>0, CollectedIs DEF ReplyType
    <2> QED BY <2>1, <2>2, TypePartsNext
  <1>22. CASE Respond
    <2>1. /\ DurableType' /\ ResultsType' /\ BudgetType' /\ EntryType' /\ WithinType' /\ NextType'
          /\ ExitType' /\ PendingType' /\ CallsType' /\ HistoryType'
      BY <1>22, <1>0, Frames DEF Respond, ReplyOnly, graph
    <2>2. ReplyType'
      <3>1. PICK fallback \in BOOLEAN :
              LET r == [reply EXCEPT !.fallback = fallback]
              IN  reply' \in {Collected(r), [r EXCEPT !.at = "finalize"]}
        BY <1>22 DEF Respond
      <3>2. [reply EXCEPT !.fallback = fallback] \in Replies
        BY <1>reply DEF Replies
      <3>3. [[reply EXCEPT !.fallback = fallback] EXCEPT !.at = "finalize"] \in Replies
        BY <3>2 DEF Replies
      <3> QED BY <3>1, <3>2, <3>3, <1>0, CollectedIs DEF ReplyType
    <2> QED BY <2>1, <2>2, TypePartsNext
  <1>23. CASE RespondFallback
    <2>1. /\ DurableType' /\ ResultsType' /\ BudgetType' /\ EntryType' /\ WithinType' /\ NextType'
          /\ ExitType' /\ PendingType' /\ CallsType' /\ HistoryType'
      BY <1>23, <1>0, Frames DEF RespondFallback, ReplyOnly, graph
    <2>2. ReplyType'
      BY <1>23, <1>reply DEF RespondFallback, ReplyType, Replies
    <2> QED BY <2>1, <2>2, TypePartsNext
  <1>24. CASE FinalizeUserReply
    <2>1. /\ ResultsType' /\ BudgetType' /\ EntryType' /\ WithinType' /\ NextType' /\ ExitType'
          /\ PendingType' /\ CallsType' /\ HistoryType'
      BY <1>24, <1>0, Frames DEF FinalizeUserReply, graph
    <2>2. DurableType'
      BY <1>24, <1>0 DEF FinalizeUserReply, TypeOK, DurableType, ReplyPending
    <2>3. ReplyType'
      <3>1. reply' \in {Collected(reply), [reply EXCEPT !.at = "archive"]}
        BY <1>24 DEF FinalizeUserReply
      <3>2. [reply EXCEPT !.at = "archive"] \in Replies
        BY <1>reply DEF Replies
      <3> QED BY <3>1, <3>2, <1>0, <1>reply, CollectedIs DEF ReplyType
    <2> QED BY <2>1, <2>2, <2>3, TypePartsNext
  <1>25. CASE DeleteThread
    <2>1. DurableType' /\ WithinType' /\ HistoryType'
      BY <1>25, <1>0, Frames DEF DeleteThread
    <2>2. ResultsType' /\ BudgetType' /\ EntryType' /\ NextType' /\ ExitType'
      <3>1. CASE UNCHANGED graph
        BY <3>1, <1>0, Frames DEF graph
      <3>2. CASE ~UNCHANGED graph
        <4>1. ResultsType'
          BY <1>25, <3>2 DEF DeleteThread, ResultsType, NoRecords, Records, Statuses
        <4>2. BudgetType'
          <5>1. rounds' = 0 /\ replans' = 0 /\ replanning' = FALSE /\ plan' = FALSE
                /\ reviewed' = NoCall
            BY <1>25, <3>2 DEF DeleteThread
          <5>2. replanning' \in BOOLEAN /\ plan' \in BOOLEAN
            BY <5>1, Zenon
          <5> QED BY <5>1, <5>2 DEF BudgetType
        <4>5. EntryType'
          BY <1>25, <3>2, BasisTypes DEF DeleteThread, EntryType
        <4>3. NextType' /\ ExitType'
          BY <1>25, <3>2 DEF DeleteThread, NextType, ExitType
        <4> QED BY <4>1, <4>2, <4>5, <4>3
      <3> QED BY <3>1, <3>2
    <2>3. PendingType' /\ CallsType'
      BY <1>25, <1>0, Frames, NothingType, EmptyCalls
      DEF DeleteThread, PendingType, Pendings, CallsType, graph
    <2>4. ReplyType'
      BY <1>25, <1>reply DEF DeleteThread, ReplyType, Replies
    <2> QED BY <2>1, <2>2, <2>3, <2>4, TypePartsNext
  <1>26. CASE ClearExecutions
    <2>1. /\ DurableType' /\ ResultsType' /\ BudgetType' /\ EntryType' /\ WithinType' /\ NextType'
          /\ ExitType' /\ PendingType' /\ CallsType'
      BY <1>26, <1>0, Frames DEF ClearExecutions, graph
    <2>2. HistoryType'
      BY <1>26, <1>history DEF ClearExecutions, HistoryType, ReceiptStates
    <2>3. ReplyType'
      BY <1>26, <1>reply DEF ClearExecutions, ReplyType, Replies
    <2> QED BY <2>1, <2>2, <2>3, TypePartsNext
  <1>27. CASE Arrive
    <2>1. /\ ResultsType' /\ BudgetType' /\ EntryType' /\ WithinType' /\ NextType' /\ ExitType'
          /\ PendingType' /\ CallsType' /\ ReplyType' /\ HistoryType'
      BY <1>27, <1>0, Frames DEF Arrive, graph
    <2>2. DurableType'
      BY <1>27, <1>0 DEF Arrive, TypeOK, DurableType
    <2> QED BY <2>1, <2>2, TypePartsNext
  <1>28. CASE ArriveApart
    <2>1. /\ ResultsType' /\ BudgetType' /\ EntryType' /\ WithinType' /\ NextType' /\ ExitType'
          /\ PendingType' /\ CallsType' /\ ReplyType' /\ HistoryType'
      BY <1>28, <1>0, Frames DEF ArriveApart, graph
    <2>2. DurableType'
      BY <1>28, <1>0 DEF ArriveApart, TypeOK, DurableType
    <2> QED BY <2>1, <2>2, TypePartsNext
  <1>29. CASE Interrupted
    <2>1. /\ DurableType' /\ ResultsType' /\ BudgetType' /\ EntryType' /\ NextType' /\ ExitType'
          /\ PendingType' /\ CallsType'
      BY <1>29, <1>0, Frames DEF Interrupted, graph
    <2>2. ReplyType'
      BY <1>29, StartedType DEF Interrupted, ReplyType
    <2>3. WithinType'
      BY <1>29 DEF Interrupted, WithinType
    <2>4. HistoryType'
      BY <1>29, <1>0 DEF Interrupted, TypeOK, HistoryType, graph
    <2> QED BY <2>1, <2>2, <2>3, <2>4, TypePartsNext
  <1> QED
    BY <1>1, <1>2, <1>3, <1>4, <1>5, <1>6, <1>7, <1>8, <1>9, <1>10, <1>11, <1>12, <1>13, <1>14, <1>15,
       <1>16, <1>17, <1>18, <1>19, <1>20, <1>21, <1>22, <1>23, <1>24, <1>25, <1>26, <1>27, <1>28, <1>29
    DEF Next, GraphStep, ReplyStep

--------------------------------------------------------------------------------
(* Every step keeps the order of the nodes *)

\* The steps that leave the checkpoint alone
Beside ==
  \/ ExecuteClaimed \/ CallTool \/ FinishExecution
  \/ Deliver \/ ThinkRefreshed \/ ThinkAgain \/ ToolsUsed
  \/ Respond \/ RespondFallback \/ FinalizeUserReply \/ ClearExecutions
  \/ Arrive \/ ArriveApart \/ Interrupted

LEMMA BesideKeeps == Beside => UNCHANGED <<next, pending, exit, results, budget, entry, calls>>
  BY DEF Beside, ExecuteClaimed, CallTool, FinishExecution, Deliver, ThinkRefreshed, ThinkAgain,
     ToolsUsed, Respond, RespondFallback, FinalizeUserReply, ClearExecutions, Arrive,
     ArriveApart, Interrupted, ReplyOnly, graph

\* The steps that end the node `execute'
Leaving == ExecuteHeld \/ ExecuteReplayed \/ Executed

LEMMA NextCases ==
    Next <=> \/ Enter \/ Plan \/ Decide \/ ReviewPlan \/ SelectCall \/ BeginAttempt \/ Leaving
             \/ Accept \/ Replan \/ YieldInput \/ Complete \/ UseTools \/ DeleteThread \/ Beside
  BY DEF Next, GraphStep, ReplyStep, Beside, Leaving

\* What a batch comes to: no call, or one that may start
LEMMA SelectedCall ==
    ASSUME TypeOK, SelectCall
    PROVE  \/ pending' = Nothing /\ calls' = <<>>
           \/ \E c \in Calls :
                /\ Startable(c)
                /\ pending' = [call |-> c, attempts |-> records[c].attempts,
                               status |-> IF Recorded(c) THEN "retry_wait" ELSE "pending"]
  <1>1. ASSUME NEW i \in 1 .. Len(calls) + 1, i <= Len(calls), Startable(calls[i])
        PROVE  calls[i] \in Calls
    BY <1>1, CallsAssumption DEF Startable
  <1> QED BY <1>1 DEF SelectCall

\* What a call that was executed comes to
LEMMA LeavingIs ==
    ASSUME TypeOK, Leaving
    PROVE  \E p \in Pendings :
             /\ p.call = pending.call /\ p.attempts = pending.attempts
             /\ p.status \in Final \cup {"retry_wait"}
             /\ p.status = "retry_wait" => p.call \in ReadOnly /\ p.attempts < MaxAttempts
             /\ p.call \notin ReadOnly => p.status # "exhausted"
             /\ pending' = p
  <1>1. pending \in Pendings
    BY TypeParts DEF PendingType
  <1>2. CASE pending' = [pending EXCEPT !.status = "uncertain"]
    <2>1. pending' \in Pendings /\ pending'.call = pending.call /\ pending'.attempts = pending.attempts
          /\ pending'.status = "uncertain"
      BY <1>1, <1>2 DEF Pendings, Statuses, Final
    <2> QED BY <2>1 DEF Final
  <1>3. ASSUME NEW result, pending' = Received(pending, result)
        PROVE  \E p \in Pendings :
                 /\ p.call = pending.call /\ p.attempts = pending.attempts
                 /\ p.status \in Final \cup {"retry_wait"}
                 /\ p.status = "retry_wait" => p.call \in ReadOnly /\ p.attempts < MaxAttempts
                 /\ p.call \notin ReadOnly => p.status # "exhausted"
                 /\ pending' = p
    BY <1>1, <1>3, ReceivedIs
  <1> QED BY <1>2, <1>3 DEF Leaving, ExecuteHeld, ExecuteReplayed, Executed, Leave

LEMMA RoundsStep == ASSUME IInv, Next PROVE RoundsLeft'
  <1> USE Bounds
  <1>0. RoundsLeft /\ rounds \in 0 .. MaxRounds
    BY DEF IInv, TypeOK
  <1>1. CASE Enter
    BY <1>1, <1>0 DEF Enter, EnterAfresh, EnterUpdated, RoundsLeft, budget
  <1>2. CASE Plan
    BY <1>2, <1>0 DEF Plan, Run, RoundsLeft
  <1>3. CASE Decide
    BY <1>3, <1>0 DEF Decide, NeedsPlanReview, RoundsLeft
  <1>4. CASE ReviewPlan
    BY <1>4, <1>0 DEF ReviewPlan, Run, RoundsLeft
  <1>5. CASE SelectCall
    BY <1>5, <1>0 DEF SelectCall, NeedsPlanReview, RoundsLeft
  <1>6. CASE Replan
    BY <1>6, <1>0 DEF Replan, Run, RoundsLeft
  <1>7. CASE BeginAttempt \/ Leaving \/ Accept \/ YieldInput \/ Complete \/ DeleteThread
    BY <1>7, <1>0 DEF BeginAttempt, Leaving, ExecuteHeld, ExecuteReplayed, Executed, Leave, Accept,
       YieldInput, Complete, DeleteThread, RoundsLeft, graph, budget
  <1>8. CASE UseTools
    BY <1>8, <1>0 DEF UseTools, RoundsLeft, budget
  <1>9. CASE Beside
    BY <1>9, <1>0, BesideKeeps DEF RoundsLeft, budget
  <1> QED BY <1>1, <1>2, <1>3, <1>4, <1>5, <1>6, <1>7, <1>8, <1>9, NextCases

LEMMA PendingStep == ASSUME IInv, Next PROVE PendingFits'
  <1> USE Bounds, CallsAssumption
  <1>0. TypeOK /\ PendingFits
    BY DEF IInv
  <1>pending. pending \in Pendings
    BY <1>0, TypeParts DEF PendingType
  <1>1. CASE Enter
    <2>1. \/ UNCHANGED <<pending, updating>> /\ ~updating
          \/ pending' = Nothing /\ updating' = FALSE
      BY <1>1 DEF Enter, EnterAfresh, EnterUpdated, entry
    <2>2. next' \in {"yield_input", "complete", "plan"} /\ next = "enter"
      BY <1>1 DEF Enter, Run
    <2> QED BY <1>0, <2>1, <2>2 DEF PendingFits, Nothing
  <1>2. CASE Plan \/ Decide \/ ReviewPlan \/ Replan
    <2>1. UNCHANGED <<pending, updating, exit>> /\ pending = Nothing /\ ~updating
      BY <1>2, <1>0 DEF Plan, Decide, ReviewPlan, Replan, Run, PendingFits, entry
    <2>2. next' \in {"yield_input", "decide", "review_plan", "select_call", "complete", "replan", "plan"}
      BY <1>2 DEF Plan, Decide, ReviewPlan, Replan
    <2> QED BY <1>0, <2>1, <2>2 DEF PendingFits, Nothing
  <1>3. CASE SelectCall
    <2>1. ~updating' /\ UNCHANGED exit
      BY <1>3, <1>0 DEF SelectCall, Run, PendingFits, entry
    <2>2. CASE pending' = Nothing
      <3>1. next' \in {"yield_input", "review_plan", "complete", "replan", "decide"}
        BY <1>3, <2>2 DEF SelectCall
      <3> QED BY <2>1, <2>2, <3>1 DEF PendingFits, Nothing
    <2>3. ASSUME NEW c \in Calls, Startable(c),
                 pending' = [call |-> c, attempts |-> records[c].attempts,
                             status |-> IF Recorded(c) THEN "retry_wait" ELSE "pending"]
          PROVE  PendingFits'
      <3>1. next' \in {"yield_input", "begin_attempt"}
        BY <1>3, <2>3 DEF SelectCall, Nothing
      <3>2. RecordsFit
        BY <1>3 DEF IInv, SelectCall, Run, Phases, Ledger
      <3>3. records[c].attempts \in 0 .. MaxAttempts
        BY <1>0, <2>3 DEF TypeOK
      <3>4. Recorded(c) => records[c].attempts > 0 /\ records[c].attempts < MaxAttempts /\ c \in ReadOnly
        BY <2>3, <3>2 DEF Startable, RecordsFit
      <3>5. ~Recorded(c) => records[c].attempts = 0
        BY <2>3, <3>2 DEF RecordsFit
      <3>6. CASE Recorded(c)
        BY <2>1, <2>3, <3>1, <3>3, <3>4, <3>6 DEF PendingFits, Nothing
      <3>7. CASE ~Recorded(c)
        BY <2>1, <2>3, <3>1, <3>5, <3>7 DEF PendingFits, Nothing
      <3> QED BY <3>6, <3>7
    <2> QED BY <1>3, <1>0, <2>2, <2>3, SelectedCall
  <1>4. CASE BeginAttempt
    <2>1. pending.status \in {"pending", "retry_wait"} /\ ~updating' /\ pending.call \in Calls
      BY <1>4, <1>0, <1>pending DEF BeginAttempt, Run, PendingFits, Nothing, Pendings, entry
    <2>2. CASE UNCHANGED pending /\ next' = "yield_input" /\ exit' = "input_pending"
      BY <1>4, <1>0, <2>1, <2>2 DEF BeginAttempt, PendingFits
    <2>3. CASE pending' = [pending EXCEPT !.attempts = @ + 1, !.status = "running"]
      <3>1. pending' = [call |-> pending.call, status |-> "running", attempts |-> pending.attempts + 1]
        BY <2>3, <1>pending DEF Pendings
      <3>2. pending.attempts \in Nat /\ (pending.call \notin ReadOnly => pending.attempts = 0)
        BY <2>1, <1>0, <1>pending DEF PendingFits, Pendings
      <3>3. next' \in {"execute", "yield_input"}
        BY <1>4 DEF BeginAttempt
      <3>4. next' = "yield_input" => exit' = "input_pending"
        BY <1>4 DEF BeginAttempt
      <3> QED BY <2>1, <3>1, <3>2, <3>3, <3>4 DEF PendingFits, Nothing
    <2> QED BY <1>4, <2>2, <2>3 DEF BeginAttempt
  <1>5. CASE Leaving
    <2>1. next = "execute" /\ pending.status = "running" /\ ~updating' /\ pending.call \in Calls
          /\ pending.attempts \in 1 .. MaxAttempts
          /\ (pending.call \notin ReadOnly => pending.attempts <= 1)
      BY <1>5, <1>0, <1>pending
      DEF Leaving, ExecuteHeld, ExecuteReplayed, Executed, Leave, Run, IInv, PlaceFits, PendingFits,
          Nothing, Pendings, entry
    <2>2. PICK p \in Pendings :
             /\ p.call = pending.call /\ p.attempts = pending.attempts
             /\ p.status \in Final \cup {"retry_wait"}
             /\ p.status = "retry_wait" => p.call \in ReadOnly /\ p.attempts < MaxAttempts
             /\ p.call \notin ReadOnly => p.status # "exhausted"
             /\ pending' = p
      BY <1>5, <1>0, LeavingIs
    <2>3. next' \in {"yield_input", "begin_attempt", "accept"}
          /\ (next' = "begin_attempt" => pending'.status = "retry_wait")
          /\ (next' = "accept" => pending'.status # "retry_wait")
      BY <1>5 DEF Leaving, ExecuteHeld, ExecuteReplayed, Executed, Leave
    <2> QED BY <2>1, <2>2, <2>3 DEF PendingFits, Nothing, Final
  <1>6. CASE Accept
    BY <1>6, <1>0 DEF Accept, Run, PendingFits, Nothing, entry
  <1>7. CASE YieldInput \/ Complete
    <2>1. UNCHANGED <<pending, updating>> /\ next' = "end"
          /\ (pending = Nothing \/ exit' = "input_pending")
      BY <1>7, <1>0 DEF YieldInput, Complete, Run, PendingFits, entry
    <2>2. ~updating
      BY <1>7, <1>0 DEF YieldInput, Complete, Run, PendingFits
    <2> QED BY <1>0, <2>1, <2>2 DEF PendingFits, Nothing
  <1>8. CASE UseTools
    <2>1. CASE UNCHANGED <<next, updating, pending, exit>>
      BY <1>0, <2>1 DEF PendingFits
    <2>2. CASE next' = "enter" /\ UNCHANGED <<pending, exit>>
               /\ (updating' = TRUE \/ (next = "none" /\ UNCHANGED updating))
      BY <1>0, <2>2 DEF PendingFits, Nothing
    <2>3. UNCHANGED <<pending, exit>>
      BY <1>8 DEF UseTools
    <2>4. CASE UNCHANGED <<basis, update, updating, next>>
      BY <2>1, <2>3, <2>4
    <2>5. CASE next' = "enter" /\ updating' = TRUE
      BY <1>0, <2>3, <2>5 DEF PendingFits, Nothing
    <2>6. CASE next' = "enter" /\ next = "none" /\ UNCHANGED updating
      BY <2>2, <2>3, <2>6
    <2> QED BY <1>8, <2>4, <2>5, <2>6, Zenon DEF UseTools
  <1>9. CASE DeleteThread
    BY <1>9, <1>0 DEF DeleteThread, PendingFits, Nothing, graph, entry
  <1>10. CASE Beside
    BY <1>10, <1>0, BesideKeeps DEF PendingFits, entry
  <1> QED BY <1>1, <1>2, <1>3, <1>4, <1>5, <1>6, <1>7, <1>8, <1>9, <1>10, NextCases

LEMMA PlaceStep == ASSUME IInv, Next PROVE PlaceFits'
  <1>0. TypeOK /\ PlaceFits /\ PendingFits
    BY DEF IInv
  <1>pending. pending \in Pendings
    BY <1>0, TypeParts DEF PendingType
  <1>1. CASE place' = "outside"
    BY <1>1 DEF PlaceFits
  <1>2. CASE UNCHANGED <<within, next, pending, receipts>> /\ reply'.at = reply.at
    BY <1>0, <1>2 DEF PlaceFits, within, Receipt
  <1>attempt. ASSUME reply.at = "tools", next = "execute"
              PROVE  <<pending.call, pending.attempts>> \in Attempts
    BY <1>attempt, <1>0, <1>pending, Bounds DEF PendingFits, Nothing, Pendings, Attempts
  <1>3. CASE ExecuteClaimed
    <2>1. /\ reply.at = "tools" /\ next = "execute" /\ UNCHANGED <<reply, next, pending, outcome>>
          /\ place' = "claimed"
          /\ receipts' = [receipts EXCEPT ![<<pending.call, pending.attempts>>] = "running"]
      BY <1>3 DEF ExecuteClaimed, Run, graph
    <2> QED BY <2>1, <1>attempt, <1>0 DEF PlaceFits, Receipt, TypeOK
  <1>4. CASE CallTool
    <2>1. /\ reply.at = "tools" /\ place = "claimed" /\ UNCHANGED <<reply, next, pending, receipts>>
          /\ place' = "called" /\ outcome' \in Outcomes
      BY <1>4 DEF CallTool, graph
    <2> QED BY <2>1, <1>0 DEF PlaceFits, Receipt, Outcomes
  <1>5. CASE FinishExecution
    <2>1. /\ reply.at = "tools" /\ place = "called" /\ UNCHANGED <<reply, next, pending, outcome>>
          /\ place' = "saved"
          /\ receipts' = [receipts EXCEPT ![<<pending.call, pending.attempts>>] = outcome]
      BY <1>5 DEF FinishExecution, graph
    <2>2. next = "execute" /\ outcome # "none"
      BY <2>1, <1>0 DEF PlaceFits
    <2> QED BY <2>1, <2>2, <1>attempt, <1>0 DEF PlaceFits, Receipt, TypeOK
  <1>6. CASE Leaving
    BY <1>6, <1>1 DEF Leaving, ExecuteHeld, ExecuteReplayed, Executed, Leave
  <1>7. CASE Enter \/ Plan \/ Decide \/ ReviewPlan \/ SelectCall \/ BeginAttempt \/ Accept
             \/ Replan \/ YieldInput \/ Complete
    <2>1. place = "outside"
      BY <1>7, <1>0 DEF Enter, Plan, Decide, ReviewPlan, SelectCall, BeginAttempt, Accept, Replan,
                        YieldInput, Complete, Run, PlaceFits
    <2>2. UNCHANGED within
      BY <1>7 DEF Enter, Plan, Decide, ReviewPlan, SelectCall, BeginAttempt, Accept, Replan,
                  YieldInput, Complete, Volatile
    <2> QED BY <2>1, <2>2, <1>1 DEF within
  <1>8. CASE Deliver \/ ThinkRefreshed \/ ThinkAgain \/ UseTools \/ ToolsUsed \/ Respond
             \/ RespondFallback \/ FinalizeUserReply \/ DeleteThread \/ ClearExecutions
    <2>1. place = "outside"
      BY <1>8, <1>0 DEF Deliver, ThinkRefreshed, ThinkAgain, UseTools, ToolsUsed, Respond,
                        RespondFallback, FinalizeUserReply, DeleteThread, ClearExecutions, PlaceFits
    <2>2. UNCHANGED within
      BY <1>8 DEF Deliver, ThinkRefreshed, ThinkAgain, UseTools, ToolsUsed, Respond,
                  RespondFallback, FinalizeUserReply, DeleteThread, ClearExecutions, ReplyOnly
    <2> QED BY <2>1, <2>2, <1>1 DEF within
  <1>9. CASE Arrive \/ ArriveApart
    BY <1>9, <1>2 DEF Arrive, ArriveApart, graph
  <1>10. CASE Interrupted
    BY <1>10, <1>1 DEF Interrupted
  <1> QED BY <1>3, <1>4, <1>5, <1>6, <1>7, <1>8, <1>9, <1>10 DEF Next, GraphStep, ReplyStep, Leaving

LEMMA PhasesStep == ASSUME IInv, Next PROVE Phases'
  <1>0. TypeOK /\ Phases
    BY DEF IInv
  <1>reply. reply \in Replies
    BY <1>0, TypeParts DEF ReplyType
  <1>1. CASE GraphStep
    <2>1. reply.at = "tools" /\ next # "end" /\ UNCHANGED <<reply, terminal>>
      BY <1>1, <1>0 DEF GraphStep, Enter, Plan, Decide, ReviewPlan, SelectCall, BeginAttempt,
         ExecuteHeld, ExecuteReplayed, ExecuteClaimed, CallTool, FinishExecution, Executed, Leave,
         Accept, Replan, YieldInput, Complete, Run, Volatile, durable, IInv, PlaceFits
    <2> QED BY <1>0, <2>1 DEF Phases
  <1>2. CASE Deliver
    <2>1. UNCHANGED <<terminal, next, exit>>
      BY <1>2 DEF Deliver, ReplyOnly, durable, graph
    <2>2. CASE terminal
      BY <1>2, <2>1, <2>2, StartedType DEF Deliver, Phases
    <2>3. CASE ~terminal
      <3>1. reply'.at = "think" /\ reply'.fallback = FALSE
        BY <1>2, <2>3, <1>0, StartedType, CollectedIs DEF Deliver
      <3> QED BY <2>1, <2>3, <3>1 DEF Phases
    <2> QED BY <2>2, <2>3
  <1>3. CASE ThinkRefreshed \/ ThinkAgain
    <2>1. UNCHANGED <<terminal, next, exit>> /\ reply.at = "think"
      BY <1>3 DEF ThinkRefreshed, ThinkAgain, ReplyOnly, durable, graph
    <2>2. reply'.at = "think" /\ reply'.fallback = reply.fallback
      BY <1>3, <1>reply DEF ThinkRefreshed, ThinkAgain, Collected, Replies
    <2> QED BY <1>0, <2>1, <2>2 DEF Phases
  <1>4. CASE UseTools
    <2>1. UNCHANGED terminal /\ reply.at = "think" /\ ~reply.fallback
      BY <1>4 DEF UseTools, durable
    <2>2. reply'.at = "tools" /\ reply'.fallback = reply.fallback
      <3>1. PICK r \in Thought : reply' = [r EXCEPT !.at = "tools"]
        BY <1>4 DEF UseTools
      <3> QED BY <3>1, <1>0, ThoughtIs DEF Replies
    <2> QED BY <1>0, <2>1, <2>2 DEF Phases
  <1>5. CASE ToolsUsed
    <2>1. UNCHANGED <<terminal, next, exit>> /\ reply.at = "tools" /\ next = "end"
      BY <1>5 DEF ToolsUsed, ReplyOnly, durable, graph
    <2>2. /\ reply'.at \in {"think", "respond"} /\ reply'.fallback = reply.fallback
          /\ reply'.at = "respond" => exit # "input_pending"
      BY <1>5, <1>reply DEF ToolsUsed, Collected, Replies
    <2> QED BY <1>0, <2>1, <2>2 DEF Phases, TypeOK
  <1>6. CASE Respond
    <2>1. UNCHANGED <<terminal, next, exit>> /\ reply.at = "respond"
      BY <1>6 DEF Respond, ReplyOnly, durable, graph
    <2>2. reply'.at \in {"think", "finalize"}
      BY <1>6, <1>reply DEF Respond, Collected, Replies
    <2> QED BY <1>0, <2>1, <2>2 DEF Phases
  <1>7. CASE RespondFallback
    <2>1. UNCHANGED <<terminal, next, exit>> /\ reply.at = "think" /\ reply.fallback
      BY <1>7 DEF RespondFallback, ReplyOnly, durable, graph
    <2>2. reply'.at = "finalize"
      BY <1>7, <1>reply DEF RespondFallback, Replies
    <2> QED BY <1>0, <2>1, <2>2 DEF Phases
  <1>8. CASE FinalizeUserReply
    <2>1. UNCHANGED <<next, exit>> /\ reply.at = "finalize" /\ (terminal' <=> ~ReplyPending)
      BY <1>8 DEF FinalizeUserReply, graph
    <2>2. /\ ReplyPending => reply'.at = "think"
          /\ ~ReplyPending => reply'.at = "archive"
      BY <1>8, <1>reply DEF FinalizeUserReply, Collected, Replies
    <2> QED BY <1>0, <2>1, <2>2 DEF Phases
  <1>9. CASE DeleteThread \/ ClearExecutions
    <2>1. UNCHANGED terminal /\ reply.at \in {"archive", "clear"}
      BY <1>9 DEF DeleteThread, ClearExecutions, durable
    <2>2. reply'.at \in {"clear", "done"}
      BY <1>9, <1>reply DEF DeleteThread, ClearExecutions, Replies
    <2> QED BY <1>0, <2>1, <2>2 DEF Phases
  <1>10. CASE Arrive \/ ArriveApart
    BY <1>10, <1>0 DEF Arrive, ArriveApart, graph, Phases
  <1>11. CASE Interrupted
    <2>1. UNCHANGED terminal /\ reply'.at = "down" /\ reply'.fallback = FALSE
      BY <1>11, StartedType DEF Interrupted, durable
    <2> QED BY <2>1 DEF Phases
  <1> QED BY <1>1, <1>2, <1>3, <1>4, <1>5, <1>6, <1>7, <1>8, <1>9, <1>10, <1>11 DEF Next, ReplyStep

LEMMA InputsStep == ASSUME IInv, Next PROVE InputsKnown'
  <1> USE Bounds
  <1>0. TypeOK /\ InputsKnown
    BY DEF IInv
  <1>reply. reply \in Replies
    BY <1>0, TypeParts DEF ReplyType
  <1>types. log \in Nat /\ basis.inputs \in Nat /\ update.inputs \in Nat /\ reply.inputs \in Nat
    BY <1>0, <1>reply DEF TypeOK, Basis, Replies
  <1>collected. ASSUME NEW r \in Replies, r.inputs = reply.inputs, r.closed = reply.closed,
                       reply' = Collected(r)
                PROVE  log >= reply'.inputs /\ (reply'.closed => reply'.inputs = log /\ (fence \/ log = MaxInputs))
    <2>1. r.closed => r.inputs = log /\ (fence \/ log = MaxInputs)
      BY <1>collected, <1>0 DEF InputsKnown, ClosedKnows
    <2> QED BY <2>1, <1>collected, <1>0, <1>types, CollectedIs
  <1>1. CASE GraphStep
    <2>1. UNCHANGED <<log, fence, reply, update>>
      BY <1>1
      DEF GraphStep, Enter, EnterAfresh, EnterUpdated, Plan, Decide, ReviewPlan, SelectCall,
          BeginAttempt,
         ExecuteHeld, ExecuteReplayed, ExecuteClaimed, CallTool, FinishExecution, Executed, Leave,
         Accept, Replan, YieldInput, Complete, Volatile, durable, graph, entry
    <2>2. basis' = basis \/ basis' = update
      BY <1>1
      DEF GraphStep, Enter, EnterAfresh, EnterUpdated, Plan, Decide, ReviewPlan, SelectCall,
          BeginAttempt,
         ExecuteHeld, ExecuteReplayed, ExecuteClaimed, CallTool, FinishExecution, Executed, Leave,
         Accept, Replan, YieldInput, Complete, graph, entry
    <2>3. next' \in {"select_call", "begin_attempt", "execute", "accept"} => decidedOn' = basis'.inputs
      <3>1. CASE Enter \/ Plan \/ ReviewPlan \/ Replan \/ YieldInput \/ Complete
        BY <3>1 DEF Enter, Plan, ReviewPlan, Replan, YieldInput, Complete
      <3>2. CASE Decide
        BY <3>2 DEF Decide, entry
      <3>3. CASE SelectCall \/ BeginAttempt \/ ExecuteHeld \/ ExecuteReplayed \/ Executed \/ Accept
                 \/ ExecuteClaimed \/ CallTool \/ FinishExecution
        <4>1. next \in {"select_call", "begin_attempt", "execute", "accept"}
          BY <3>3 DEF SelectCall, BeginAttempt, ExecuteHeld, ExecuteReplayed, Executed, Accept,
             ExecuteClaimed, CallTool, FinishExecution, Run, IInv, PlaceFits
        <4>2. UNCHANGED <<decidedOn, basis>>
          BY <3>3 DEF SelectCall, BeginAttempt, ExecuteHeld, ExecuteReplayed, Executed, Accept,
             ExecuteClaimed, CallTool, FinishExecution, Leave, graph, entry
        <4> QED BY <4>1, <4>2, <1>0 DEF InputsKnown
      <3> QED BY <1>1, <3>1, <3>2, <3>3 DEF GraphStep
    <2> QED BY <1>0, <2>1, <2>2, <2>3 DEF InputsKnown, ClosedKnows
  <1>2. CASE Deliver \/ Interrupted \/ ThinkRefreshed \/ ThinkAgain \/ ToolsUsed \/ Respond \/ RespondFallback
             \/ FinalizeUserReply \/ ClearExecutions
    <2>1. UNCHANGED <<log, fence, basis, update, next, decidedOn>>
      BY <1>2
      DEF Deliver, Interrupted, ThinkRefreshed, ThinkAgain, ToolsUsed, Respond, RespondFallback,
         FinalizeUserReply, ClearExecutions, ReplyOnly, durable, graph, entry
    <2>2. log >= reply'.inputs /\ (reply'.closed => reply'.inputs = log /\ (fence \/ log = MaxInputs))
      <3>1. CASE \E at \in {"down", "think", "archive"} : reply' = Started(at) \/ reply' = Collected(Started(at))
        BY <3>1, <1>0, <1>types, StartedType, CollectedIs DEF TypeOK
      <3>2. CASE reply'.inputs = reply.inputs /\ reply'.closed = reply.closed
        BY <3>2, <1>0 DEF InputsKnown, ClosedKnows
      <3>3. CASE Deliver \/ Interrupted
        BY <3>3, <3>1 DEF Deliver, Interrupted
      <3>4. CASE ThinkRefreshed \/ ThinkAgain
        <4>1. CASE reply' = Collected(reply)
          BY <4>1, <1>collected, <1>reply
        <4>2. ASSUME NEW t \in 0 .. MaxThoughts, reply' = Collected([reply EXCEPT !.thoughts = t])
              PROVE  log >= reply'.inputs
                     /\ (reply'.closed => reply'.inputs = log /\ (fence \/ log = MaxInputs))
          <5> DEFINE r == [reply EXCEPT !.thoughts = t]
          <5>1. r \in Replies /\ r.inputs = reply.inputs /\ r.closed = reply.closed
            BY <1>reply DEF Replies
          <5> QED BY <4>2, <5>1, <1>collected
        <4>3. reply.thoughts < MaxThoughts => reply.thoughts + 1 \in 0 .. MaxThoughts
          BY <1>reply DEF Replies
        <4>4. MaxThoughts \in 0 .. MaxThoughts /\ reply.thoughts \in 0 .. MaxThoughts
          BY <1>reply DEF Replies
        <4> QED BY <3>4, <4>1, <4>2, <4>3, <4>4 DEF ThinkRefreshed, ThinkAgain
      <3>5. CASE ToolsUsed
        <4>1. PICK action \in {"after_tools", "answer"} :
                LET r == [reply EXCEPT !.action = action]
                IN  reply' \in {Collected(r), [r EXCEPT !.at = "respond"]}
          BY <3>5 DEF ToolsUsed
        <4> DEFINE r == [reply EXCEPT !.action = action]
        <4>2. r \in Replies /\ r.inputs = reply.inputs /\ r.closed = reply.closed
          BY <1>reply DEF Replies
        <4> HIDE DEF r
        <4>3. CASE reply' = Collected(r)
          BY <4>2, <4>3, <1>collected
        <4>4. CASE reply' = [r EXCEPT !.at = "respond"]
          BY <4>2, <4>4, <3>2 DEF Replies
        <4> QED BY <4>1, <4>3, <4>4 DEF r
      <3>6. CASE Respond
        <4>1. PICK fallback \in BOOLEAN :
                LET r == [reply EXCEPT !.fallback = fallback]
                IN  reply' \in {Collected(r), [r EXCEPT !.at = "finalize"]}
          BY <3>6 DEF Respond
        <4> DEFINE r == [reply EXCEPT !.fallback = fallback]
        <4>2. r \in Replies /\ r.inputs = reply.inputs /\ r.closed = reply.closed
          BY <1>reply DEF Replies
        <4> HIDE DEF r
        <4>3. CASE reply' = Collected(r)
          BY <4>2, <4>3, <1>collected
        <4>4. CASE reply' = [r EXCEPT !.at = "finalize"]
          BY <4>2, <4>4, <3>2 DEF Replies
        <4> QED BY <4>1, <4>3, <4>4 DEF r
      <3>7. CASE RespondFallback \/ ClearExecutions
        BY <3>7, <3>2, <1>reply DEF RespondFallback, ClearExecutions, Replies
      <3>8. CASE FinalizeUserReply
        <4>1. CASE reply' = Collected(reply)
          BY <4>1, <1>collected, <1>reply
        <4>2. CASE reply' = [reply EXCEPT !.at = "archive"]
          BY <4>2, <3>2, <1>reply DEF Replies
        <4> QED BY <3>8, <4>1, <4>2 DEF FinalizeUserReply
      <3> QED BY <1>2, <3>3, <3>4, <3>5, <3>6, <3>7, <3>8
    <2> QED BY <1>0, <2>1, <2>2 DEF InputsKnown, ClosedKnows
  <1>3. CASE UseTools
    <2>1. PICK r \in Thought :
            /\ reply' = [r EXCEPT !.at = "tools"]
            /\ basis' \in {basis, Wanted(r)} /\ update' \in {update, Wanted(r)}
            /\ next' \in {"enter", next}
            /\ next' = "enter" \/ basis' = basis
      BY <1>3 DEF UseTools
    <2>2. r \in Replies /\ r.inputs = reply.inputs /\ r.closed = reply.closed
      BY <2>1, <1>0, ThoughtIs
    <2>3. UNCHANGED <<log, fence, decidedOn>>
      BY <1>3 DEF UseTools, durable
    <2>4. reply'.inputs = reply.inputs /\ reply'.closed = reply.closed
      BY <2>1, <2>2 DEF Replies
    <2>5. ASSUME NEW b, b \in {basis, update, Wanted(r)}
          PROVE  log >= b.inputs /\ (b.closed => b.inputs = log /\ (fence \/ log = MaxInputs))
      BY <2>2, <2>5, <1>0 DEF InputsKnown, ClosedKnows, Wanted
    <2> QED BY <1>0, <2>1, <2>3, <2>4, <2>5 DEF InputsKnown, ClosedKnows
  <1>4. CASE DeleteThread
    <2>1. UNCHANGED <<log, fence, decidedOn>> /\ reply'.inputs = reply.inputs /\ reply'.closed = reply.closed
      BY <1>4, <1>reply DEF DeleteThread, durable, Replies
    <2>2. \/ UNCHANGED <<basis, update, next>>
          \/ basis' = NoBasis /\ update' = NoBasis /\ next' = "none"
      BY <1>4 DEF DeleteThread, graph, entry
    <2> QED BY <1>0, <1>types, <2>1, <2>2 DEF InputsKnown, ClosedKnows, NoBasis
  <1>5. CASE Arrive \/ ArriveApart
    <2>1. UNCHANGED <<reply, basis, update, next, decidedOn>> /\ ~fence /\ log < MaxInputs
          /\ log' \in {log, log + 1}
      BY <1>5 DEF Arrive, ArriveApart, graph, entry
    <2>2. ~reply.closed /\ ~basis.closed /\ ~update.closed
      BY <2>1, <1>0, <1>types DEF InputsKnown, ClosedKnows
    <2> QED BY <1>0, <1>types, <2>1, <2>2 DEF InputsKnown, ClosedKnows
  <1> QED BY <1>1, <1>2, <1>3, <1>4, <1>5 DEF Next, ReplyStep

--------------------------------------------------------------------------------
(* Every step keeps records, receipts and runs in agreement *)

LEMMA LedgerFrame ==
    ASSUME Ledger, ~terminal, UNCHANGED <<records, pending, receipts, ran>>,
           place' = place \/ place' = "outside"
    PROVE  Ledger'
  <1>1. RecordsFit' /\ PendingRetried'
    BY DEF Ledger, RecordsFit, PendingRetried, Recorded
  <1>2. ReceiptsKnown' /\ PendingMatches'
    BY DEF Ledger, ReceiptsKnown, PendingMatches, Recorded, Receipt
  <1>3. RunsKnown'
    BY DEF Ledger, RunsKnown
  <1>4. RecordsMatchReceipts'
    <2> SUFFICES ASSUME NEW c \in Calls, Recorded(c)
                 PROVE  records[c].status = "success" <=> receipts[<<c, records[c].attempts>>] = "result"
      BY DEF RecordsMatchReceipts, Recorded
    <2> QED BY DEF Ledger, RecordsMatchReceipts
  <1> QED BY <1>1, <1>2, <1>3, <1>4 DEF Ledger

LEMMA LedgerInsert ==
    ASSUME IInv, Ledger, ~terminal,
           NEW p \in Pendings, p.call = pending.call, p.attempts = pending.attempts,
           p.call \in Calls, p.attempts > 0,
           p.status \in Final \cup {"retry_wait"},
           p.status = "retry_wait" => p.call \in ReadOnly,
           p.call \notin ReadOnly => p.status # "exhausted",
           p.status = "success" <=> Receipt = "result",
           Insert(p), pending' = Nothing, UNCHANGED <<receipts, ran>>, place' = "outside"
    PROVE  Ledger'
  <1>1. TypeOK
    BY DEF IInv
  <1>2. \A c \in Calls :
          records'[c] = IF c = p.call THEN [status |-> p.status, attempts |-> p.attempts]
                        ELSE records[c]
    BY <1>1, InsertIs
  <1>3. RecordsFit'
    BY <1>2 DEF Ledger, RecordsFit, Recorded, Final
  <1>4. PendingRetried' /\ PendingMatches'
    BY CallsAssumption DEF PendingRetried, PendingMatches, Nothing, Final
  <1>5. ReceiptsKnown'
    BY <1>2 DEF Ledger, ReceiptsKnown, Recorded, Final
  <1>6. RunsKnown'
    BY DEF Ledger, RunsKnown
  <1>7. RecordsMatchReceipts'
    <2> SUFFICES ASSUME NEW c \in Calls, Recorded(c)'
                 PROVE  records'[c].status = "success" <=> receipts[<<c, records'[c].attempts>>] = "result"
      BY DEF RecordsMatchReceipts
    <2>1. CASE c = p.call
      BY <1>2, <2>1 DEF Receipt
    <2>2. CASE c # p.call
      BY <1>2, <2>2 DEF Ledger, RecordsMatchReceipts, Recorded
    <2> QED BY <2>1, <2>2
  <1> QED BY <1>3, <1>4, <1>5, <1>6, <1>7 DEF Ledger

LEMMA LedgerEnter == ASSUME IInv, Ledger, ~terminal, Enter PROVE Ledger'
  <1>0. TypeOK /\ PendingFits /\ PlaceFits
    BY DEF IInv
  <1>pending. pending \in Pendings
    BY <1>0, TypeParts DEF PendingType
  <1>1. place = "outside" /\ UNCHANGED <<receipts, ran, place>>
    BY <1>0 DEF Enter, Run, PlaceFits, Volatile, within
  <1>2. CASE EnterAfresh
    BY <1>1, <1>2, LedgerFrame DEF EnterAfresh, results
  <1>3. CASE EnterUpdated /\ pending.attempts = 0
    <2>1. UNCHANGED records /\ pending' = Nothing
      BY <1>3 DEF EnterUpdated, results
    <2>2. PendingRetried' /\ PendingMatches'
      BY <2>1, CallsAssumption DEF PendingRetried, PendingMatches, Nothing, Final
    <2> QED BY <1>1, <1>3, <2>1, <2>2 DEF Ledger, RecordsFit, ReceiptsKnown, RunsKnown,
                                        RecordsMatchReceipts, Recorded
  <1>4. CASE EnterUpdated /\ pending.attempts > 0
    <2>1. Insert(Resolved) /\ pending' = Nothing
      BY <1>4, <1>pending DEF EnterUpdated, Pendings
    <2>2. pending.call \in Calls /\ pending.status \in {"running", "retry_wait"} \cup Final
      BY <1>4, <1>0, <1>pending DEF PendingFits, Nothing, Pendings, Statuses, Final
    <2>3. /\ Resolved.status \in Final \cup {"retry_wait"}
          /\ Resolved.status = "retry_wait" => pending.call \in ReadOnly
          /\ pending.call \notin ReadOnly => Resolved.status # "exhausted"
          /\ Resolved.status = "success" <=> Receipt = "result"
      <3>1. CASE pending.status = "running"
        BY <3>1, <1>0, ResolvedIs DEF Final
      <3>2. CASE pending.status # "running"
        <4>1. Resolved = pending
          BY <3>2, <1>0, ResolvedIs
        <4>2. pending.status \in Final \cup {"retry_wait"}
          BY <3>2, <2>2
        <4> QED BY <4>1, <4>2, <1>0 DEF PendingFits, Ledger, PendingMatches
      <3> QED BY <3>1, <3>2
    <2>4. Resolved \in Pendings /\ Resolved.call = pending.call /\ Resolved.attempts = pending.attempts
      BY <1>0, ResolvedIs
    <2>5. place' = "outside"
      BY <1>1
    <2> QED BY <1>1, <1>4, <2>1, <2>2, <2>3, <2>4, <2>5, LedgerInsert
  <1>5. pending.attempts \in Nat
    BY <1>pending DEF Pendings
  <1> QED BY <1>2, <1>3, <1>4, <1>5 DEF Enter

LEMMA LedgerAccept == ASSUME IInv, Ledger, ~terminal, Accept PROVE Ledger'
  <1>0. TypeOK /\ PendingFits /\ PlaceFits
    BY DEF IInv
  <1>pending. pending \in Pendings
    BY <1>0, TypeParts DEF PendingType
  <1>1. UNCHANGED <<receipts, ran>> /\ place' = "outside"
    BY <1>0 DEF Accept, Run, PlaceFits, Volatile, within
  <1>2. Insert(pending) /\ pending' = Nothing /\ pending.status \in Final
    BY <1>0 DEF Accept, Run, PendingFits
  <1>3. pending.call \in Calls /\ pending.attempts > 0
    BY <1>2, <1>0, <1>pending DEF PendingFits, Nothing, Pendings, Final
  <1>4. /\ pending.status # "retry_wait"
        /\ pending.call \notin ReadOnly => pending.status # "exhausted"
        /\ pending.status = "success" <=> Receipt = "result"
    BY <1>2, <1>0 DEF PendingFits, Ledger, PendingMatches, Final
  <1> QED BY <1>1, <1>2, <1>3, <1>4, <1>pending, LedgerInsert

LEMMA LedgerSelect == ASSUME IInv, Ledger, ~terminal, SelectCall PROVE Ledger'
  <1>0. TypeOK /\ PendingFits /\ PlaceFits
    BY DEF IInv
  <1>1. pending = Nothing /\ place = "outside" /\ UNCHANGED <<records, receipts, ran, place>>
    BY <1>0 DEF SelectCall, Run, PendingFits, PlaceFits, Volatile, within, results
  <1>2. CASE pending' = Nothing
    BY <1>1, <1>2, LedgerFrame
  <1>3. ASSUME NEW c \in Calls, Startable(c),
               pending' = [call |-> c, attempts |-> records[c].attempts,
                           status |-> IF Recorded(c) THEN "retry_wait" ELSE "pending"]
        PROVE  Ledger'
    <2>0. pending'.call = c /\ pending'.attempts = records[c].attempts
          /\ pending'.status = IF Recorded(c) THEN "retry_wait" ELSE "pending"
      BY <1>3
    <2>1. PendingRetried'
      <3>1. records[c].attempts \in Nat
        BY <1>0, <1>3 DEF TypeOK
      <3> QED BY <1>1, <1>3, <2>0, <3>1 DEF Startable, PendingRetried, Recorded
    <2>2. PendingMatches'
      <3>1. CASE Recorded(c)
        <4>1. records[c].status = "retry_wait" /\ receipts[<<c, records[c].attempts>>] # "result"
          BY <1>3, <3>1 DEF Startable, Ledger, RecordsMatchReceipts
        <4> QED BY <1>1, <2>0, <3>1, <4>1 DEF PendingMatches, Receipt, Final
      <3>2. CASE ~Recorded(c)
        BY <2>0, <3>2 DEF PendingMatches, Final
      <3> QED BY <3>1, <3>2
    <2>3. ReceiptsKnown'
      BY <1>1, CallsAssumption DEF Ledger, ReceiptsKnown, Recorded, Nothing
    <2> QED BY <1>1, <2>1, <2>2, <2>3
        DEF Ledger, RecordsFit, RunsKnown, RecordsMatchReceipts, Recorded
  <1> QED BY <1>0, <1>2, <1>3, SelectedCall

LEMMA LedgerBegin == ASSUME IInv, Ledger, ~terminal, BeginAttempt PROVE Ledger'
  <1>0. TypeOK /\ PendingFits /\ PlaceFits
    BY DEF IInv
  <1>pending. pending \in Pendings
    BY <1>0, TypeParts DEF PendingType
  <1>1. place = "outside" /\ UNCHANGED <<records, receipts, ran, place>>
    BY <1>0 DEF BeginAttempt, Run, PlaceFits, Volatile, within, results
  <1>2. CASE UNCHANGED pending
    BY <1>1, <1>2, LedgerFrame
  <1>3. CASE pending' = [pending EXCEPT !.attempts = @ + 1, !.status = "running"]
    <2>1. pending.status \in {"pending", "retry_wait"} /\ pending.call \in Calls
      BY <1>0, <1>pending DEF BeginAttempt, Run, PendingFits, Nothing, Pendings
    <2>2. pending'.call = pending.call /\ pending'.attempts = pending.attempts + 1
          /\ pending'.status = "running" /\ pending.attempts \in Nat
      BY <1>3, <1>pending DEF Pendings
    <2>3. PendingRetried'
      <3>1. records[pending.call].attempts \in Nat
        BY <2>1, <1>0 DEF TypeOK
      <3> QED BY <1>1, <2>1, <2>2, <3>1 DEF Ledger, PendingRetried, Recorded
    <2>4. PendingMatches'
      BY <2>2 DEF PendingMatches, Final
    <2>5. ReceiptsKnown'
      <3> SUFFICES ASSUME NEW c \in Calls \ ReadOnly, receipts[<<c, 1>>] # "none"
                   PROVE  Recorded(c)
        BY <1>1 DEF ReceiptsKnown, Recorded
      <3>1. pending.call = c => pending.attempts = 0
        BY <2>1, <1>0 DEF PendingFits
      <3> QED BY <3>1 DEF Ledger, ReceiptsKnown
    <2> QED BY <1>1, <2>3, <2>4, <2>5
        DEF Ledger, RecordsFit, RunsKnown, RecordsMatchReceipts, Recorded
  <1> QED BY <1>2, <1>3 DEF BeginAttempt

LEMMA LedgerLeaving == ASSUME IInv, Ledger, ~terminal, Leaving PROVE Ledger'
  <1>0. TypeOK /\ PendingFits /\ PlaceFits
    BY DEF IInv
  <1>pending. pending \in Pendings
    BY <1>0, TypeParts DEF PendingType
  <1>1. place' = "outside" /\ UNCHANGED <<records, receipts, ran>>
    BY DEF Leaving, ExecuteHeld, ExecuteReplayed, Executed, Leave, results
  <1>2. next = "execute" /\ pending.status = "running" /\ pending.call \in Calls /\ pending.attempts \in Nat
    BY <1>0, <1>pending
    DEF Leaving, ExecuteHeld, ExecuteReplayed, Executed, Leave, Run, PlaceFits, PendingFits,
        Nothing, Pendings
  <1>3. /\ pending'.call = pending.call /\ pending'.attempts = pending.attempts
        /\ pending'.status \in Final \cup {"retry_wait"}
    BY <1>0, LeavingIs
  <1>4. pending'.status = "success" <=> Receipt = "result"
    <2>1. CASE pending' = [pending EXCEPT !.status = "uncertain"] /\ Receipt # "result"
      BY <2>1, <1>pending DEF Pendings
    <2>2. ASSUME NEW result, pending' = Received(pending, result), result = "result" <=> Receipt = "result"
          PROVE  pending'.status = "success" <=> Receipt = "result"
      BY <2>2, <1>pending, ReceivedIs
    <2>3. CASE ExecuteHeld
      BY <2>3, <2>1, <2>2 DEF ExecuteHeld, Leave
    <2>4. CASE ExecuteReplayed
      BY <2>4, <2>1, <2>2 DEF ExecuteReplayed, Leave
    <2>5. CASE Executed
      BY <2>5, <1>0, <2>2 DEF Executed, Leave, PlaceFits
    <2> QED BY <2>3, <2>4, <2>5 DEF Leaving
  <1>5. PendingRetried'
    BY <1>1, <1>2, <1>3 DEF Ledger, PendingRetried, Recorded
  <1>6. PendingMatches'
    BY <1>1, <1>3, <1>4 DEF PendingMatches, Receipt
  <1>7. ReceiptsKnown'
    BY <1>1, <1>3 DEF Ledger, ReceiptsKnown, Recorded
  <1> QED BY <1>1, <1>5, <1>6, <1>7
      DEF Ledger, RecordsFit, RunsKnown, RecordsMatchReceipts, Recorded

\* The receipt of the attempt at hand changes while its call runs.
LEMMA LedgerReceipt ==
    ASSUME IInv, Ledger, ~terminal, NEW state \in ReceiptStates \ {"none"},
           next = "execute", UNCHANGED <<records, pending, ran>>,
           receipts' = [receipts EXCEPT ![<<pending.call, pending.attempts>>] = state],
           \A c \in Calls \ ReadOnly : place' = "claimed" /\ pending.call = c => ran[c] = 0
    PROVE  Ledger'
  <1>0. TypeOK /\ PendingFits
    BY DEF IInv
  <1>pending. pending \in Pendings
    BY <1>0, TypeParts DEF PendingType
  <1>1. pending.status = "running" /\ pending.call \in Calls /\ pending.attempts \in 1 .. MaxAttempts
        /\ (pending.call \notin ReadOnly => pending.attempts = 1)
    BY <1>0, <1>pending DEF PendingFits, Nothing, Pendings
  <1>2. <<pending.call, pending.attempts>> \in Attempts /\ receipts \in [Attempts -> ReceiptStates]
    BY <1>0, <1>1 DEF Attempts, TypeOK
  <1>3. /\ receipts'[<<pending.call, pending.attempts>>] = state
        /\ \A a \in Attempts : a # <<pending.call, pending.attempts>> => receipts'[a] = receipts[a]
    BY <1>2
  <1>4. \A c \in Calls : <<c, 1>> \in Attempts
    BY Bounds DEF Attempts
  <1>5. PendingRetried' /\ PendingMatches' /\ RecordsFit'
    BY <1>1 DEF Ledger, PendingRetried, PendingMatches, RecordsFit, Recorded, Final
  <1>6. ReceiptsKnown'
    <2> SUFFICES ASSUME NEW c \in Calls \ ReadOnly, receipts'[<<c, 1>>] # "none",
                        ~(pending.call = c /\ pending.attempts = 1)
                 PROVE  Recorded(c)
      BY DEF ReceiptsKnown, Recorded
    <2>1. receipts'[<<c, 1>>] = receipts[<<c, 1>>]
      BY <1>3, <1>4
    <2> QED BY <2>1 DEF Ledger, ReceiptsKnown
  <1>7. RunsKnown'
    <2> SUFFICES ASSUME NEW c \in Calls \ ReadOnly, ran[c] > 0
                 PROVE  receipts'[<<c, 1>>] # "none"
      BY DEF RunsKnown
    <2>1. receipts[<<c, 1>>] # "none"
      BY DEF Ledger, RunsKnown
    <2>2. <<c, 1>> \in Attempts
      BY <1>4
    <2>3. CASE <<c, 1>> = <<pending.call, pending.attempts>>
      BY <2>3, <1>3
    <2>4. CASE <<c, 1>> # <<pending.call, pending.attempts>>
      BY <2>1, <2>2, <2>4, <1>3
    <2> QED BY <2>3, <2>4
  <1>8. RecordsMatchReceipts'
    <2> SUFFICES ASSUME NEW c \in Calls, Recorded(c)
                 PROVE  receipts'[<<c, records[c].attempts>>] = receipts[<<c, records[c].attempts>>]
      BY DEF Ledger, RecordsMatchReceipts, Recorded
    <2>1. records[c].attempts \in 1 .. MaxAttempts
      BY <1>0 DEF Ledger, RecordsFit, TypeOK, Recorded
    <2>2. <<c, records[c].attempts>> \in Attempts
      BY <2>1 DEF Attempts
    <2>3. c = pending.call => records[c].attempts < pending.attempts
      BY <1>1, CallsAssumption DEF Ledger, PendingRetried
    <2>4. <<c, records[c].attempts>> # <<pending.call, pending.attempts>>
      BY <2>1, <2>3, <1>1
    <2> QED BY <2>2, <2>4, <1>3
  <1> QED BY <1>5, <1>6, <1>7, <1>8 DEF Ledger

LEMMA LedgerStep == ASSUME IInv, Next, ~terminal' PROVE Ledger'
  <1>0. TypeOK /\ PendingFits /\ PlaceFits /\ Phases
    BY DEF IInv
  <1>pending. pending \in Pendings
    BY <1>0, TypeParts DEF PendingType
  <1>open. ~terminal
    <2>1. CASE FinalizeUserReply
      BY <2>1, <1>0 DEF FinalizeUserReply, Phases
    <2>2. CASE ~FinalizeUserReply
      BY <2>2
      DEF Next, GraphStep, ReplyStep, Enter, Plan, Decide, ReviewPlan, SelectCall, BeginAttempt,
         ExecuteHeld, ExecuteReplayed, ExecuteClaimed, CallTool, FinishExecution, Executed, Leave,
         Accept, Replan, YieldInput, Complete, Deliver, ThinkRefreshed, ThinkAgain, UseTools,
         ToolsUsed, Respond, RespondFallback, DeleteThread, ClearExecutions, Arrive, ArriveApart,
         Interrupted, Volatile, ReplyOnly, durable
    <2> QED BY <2>1, <2>2
  <1>ledger. Ledger
    BY <1>open DEF IInv
  <1>1. CASE Enter \/ Accept \/ SelectCall \/ BeginAttempt \/ Leaving
    BY <1>1, <1>open, <1>ledger, LedgerEnter, LedgerAccept, LedgerSelect, LedgerBegin, LedgerLeaving
  <1>2. CASE Plan \/ Decide \/ ReviewPlan \/ Replan \/ YieldInput \/ Complete
    <2>1. UNCHANGED <<records, pending, receipts, ran, place>>
      BY <1>2 DEF Plan, Decide, ReviewPlan, Replan, YieldInput, Complete, Volatile, within, results
    <2> QED BY <2>1, <1>open, <1>ledger, LedgerFrame
  <1>3. CASE UseTools \/ Deliver \/ ThinkRefreshed \/ ThinkAgain \/ ToolsUsed \/ Respond
             \/ RespondFallback \/ FinalizeUserReply \/ Arrive \/ ArriveApart \/ Interrupted
    <2>1. UNCHANGED <<records, pending, receipts, ran>> /\ (place' = place \/ place' = "outside")
      BY <1>3
      DEF UseTools, Deliver, ThinkRefreshed, ThinkAgain, ToolsUsed, Respond, RespondFallback,
         FinalizeUserReply, Arrive, ArriveApart, Interrupted, ReplyOnly, graph, within, results
    <2> QED BY <2>1, <1>open, <1>ledger, LedgerFrame
  <1>4. CASE DeleteThread \/ ClearExecutions
    BY <1>4, <1>0, <1>open DEF DeleteThread, ClearExecutions, Phases
  <1>5. CASE ExecuteClaimed
    <2>1. /\ next = "execute" /\ UNCHANGED <<records, pending, ran>>
          /\ receipts' = [receipts EXCEPT ![<<pending.call, pending.attempts>>] = "running"]
      BY <1>5 DEF ExecuteClaimed, Run, graph, results
    <2>2. ASSUME NEW c \in Calls \ ReadOnly, pending.call = c PROVE ran[c] = 0
      <3>1. pending.attempts = 1
        BY <2>1, <2>2, <1>0, <1>pending DEF PendingFits, Pendings
      <3>2. Receipt = "none"
        BY <1>5, <2>2 DEF ExecuteClaimed, MayCall
      <3>3. ~(ran[c] > 0) /\ ran[c] \in Nat
        BY <2>2, <3>1, <3>2, <1>ledger, <1>0 DEF Ledger, RunsKnown, Receipt, TypeOK
      <3> QED BY <3>3
    <2>3. "running" \in ReceiptStates \ {"none"}
      BY DEF ReceiptStates
    <2> QED BY <2>1, <2>2, <2>3, <1>open, <1>ledger, LedgerReceipt
  <1>6. CASE FinishExecution
    <2>1. /\ place = "called" /\ place' = "saved" /\ UNCHANGED <<records, pending, ran>>
          /\ receipts' = [receipts EXCEPT ![<<pending.call, pending.attempts>>] = outcome]
      BY <1>6 DEF FinishExecution, graph, results
    <2>2. next = "execute" /\ outcome \in ReceiptStates \ {"none"}
      BY <2>1, <1>0 DEF PlaceFits, TypeOK, ReceiptStates
    <2> QED BY <2>1, <2>2, <1>open, <1>ledger, LedgerReceipt
  <1>7. CASE CallTool
    <2>1. /\ place = "claimed" /\ place' = "called" /\ UNCHANGED <<records, pending, receipts>>
          /\ ran' = [ran EXCEPT ![pending.call] = @ + 1]
      BY <1>7 DEF CallTool, graph, results
    <2>2. Receipt # "none" /\ next = "execute"
      BY <2>1, <1>0 DEF PlaceFits
    <2>3. pending.call \notin ReadOnly => pending.attempts = 1
      BY <2>2, <1>0, <1>pending DEF PendingFits, Pendings
    <2>4. RunsKnown'
      BY <2>1, <2>2, <2>3, <1>0, <1>ledger DEF Ledger, RunsKnown, Receipt, TypeOK
    <2>5. RecordsFit' /\ PendingRetried'
      BY <2>1, <1>ledger DEF Ledger, RecordsFit, PendingRetried, Recorded
    <2>6. ReceiptsKnown' /\ PendingMatches' /\ RecordsMatchReceipts'
      BY <2>1, <1>open, <1>ledger
      DEF Ledger, ReceiptsKnown, PendingMatches, RecordsMatchReceipts, Recorded, Receipt
    <2> QED BY <2>4, <2>5, <2>6 DEF Ledger
  <1> QED BY <1>1, <1>2, <1>3, <1>4, <1>5, <1>6, <1>7 DEF Next, GraphStep, ReplyStep, Leaving

LEMMA OnceStep == ASSUME IInv, Next PROVE SideEffectOnce'
  <1>0. TypeOK /\ PlaceFits /\ Phases /\ SideEffectOnce
    BY DEF IInv
  <1>1. CASE CallTool
    <2>1. reply.at = "tools" /\ place = "claimed" /\ ran' = [ran EXCEPT ![pending.call] = @ + 1]
      BY <1>1 DEF CallTool
    <2>2. RunsKnown
      BY <2>1, <1>0 DEF IInv, Phases, Ledger
    <2> SUFFICES ASSUME NEW c \in Calls \ ReadOnly PROVE ran'[c] <= 1
      BY DEF SideEffectOnce
    <2>3. CASE pending.call = c
      <3>1. ran[c] = 0 /\ ran'[c] = ran[c] + 1
        BY <2>1, <2>2, <2>3, <1>0 DEF RunsKnown, TypeOK
      <3> QED BY <3>1
    <2>4. CASE pending.call # c
      <3>1. ran'[c] = ran[c]
        BY <2>1, <2>4, <1>0 DEF TypeOK
      <3> QED BY <3>1, <1>0 DEF SideEffectOnce
    <2> QED BY <2>3, <2>4
  <1>2. CASE ~CallTool
    <2>1. UNCHANGED ran
      BY <1>2
      DEF Next, GraphStep, ReplyStep, Enter, Plan, Decide, ReviewPlan, SelectCall, BeginAttempt,
         ExecuteHeld, ExecuteReplayed, ExecuteClaimed, FinishExecution, Executed, Leave,
         Accept, Replan, YieldInput, Complete, Deliver, ThinkRefreshed, ThinkAgain, UseTools,
         ToolsUsed, Respond, RespondFallback, FinalizeUserReply, DeleteThread, ClearExecutions, Arrive,
         ArriveApart, Interrupted, Volatile, ReplyOnly
    <2> QED BY <2>1, <1>0 DEF SideEffectOnce
  <1> QED BY <1>1, <1>2

--------------------------------------------------------------------------------
(* The theorems *)

LEMMA InvStep == IInv /\ [Next]_vars => IInv'
  <1> SUFFICES ASSUME IInv, [Next]_vars PROVE IInv'
    OBVIOUS
  <1>1. CASE Next
    <2>1. TypeOK' /\ RoundsLeft' /\ PendingFits'
      BY <1>1, TypeStep, RoundsStep, PendingStep
    <2>2. PlaceFits' /\ Phases' /\ InputsKnown'
      BY <1>1, PlaceStep, PhasesStep, InputsStep
    <2>3. SideEffectOnce' /\ (~terminal' => Ledger')
      BY <1>1, OnceStep, LedgerStep
    <2> QED BY <2>1, <2>2, <2>3 DEF IInv
  <1>2. CASE UNCHANGED vars
    <2>1. /\ UNCHANGED <<log, fence, terminal, receipts, next, basis, updating, update, pending>>
          /\ UNCHANGED <<records, latest, outputs, rounds, replans, replanning, plan, reviewed>>
          /\ UNCHANGED <<calls, exit, place, outcome, reply, ran, decidedOn, crashes>>
      BY <1>2 DEF vars, durable, graph, results, budget, entry, within
    <2>2. TypeOK'
      BY <2>1, Frames, TypePartsNext DEF IInv, durable, results, budget, entry, within
    <2>3. (RoundsLeft /\ PendingFits)'
      BY <2>1 DEF IInv, RoundsLeft, PendingFits
    <2>4. (PlaceFits /\ Phases)'
      BY <2>1 DEF IInv, PlaceFits, Phases, Receipt
    <2>5. InputsKnown'
      BY <2>1 DEF IInv, InputsKnown, ClosedKnows
    <2>6. SideEffectOnce' /\ (~terminal' => Ledger')
      BY <2>1, LedgerFrame DEF IInv, SideEffectOnce
    <2> QED BY <2>2, <2>3, <2>4, <2>5, <2>6 DEF IInv
  <1> QED BY <1>1, <1>2

LEMMA Invariant == Spec => []IInv
  BY InitInv, InvStep, PTL DEF Spec

\* The variables keep their types: no counter of the graph passes its budget and no
\* more results are handed on than the block takes.
THEOREM TypeCorrect == Spec => []TypeOK
  <1>1. IInv => TypeOK
    BY DEF IInv
  <1> QED BY <1>1, Invariant, PTL

\* However often the reply is interrupted, and whatever the model asks for again, a
\* call with side effects is started at most once: its receipt is claimed before it
\* starts and never leaves the sight of the graph.
THEOREM SideEffectsOnce == Spec => []SideEffectOnce
  <1>1. IInv => SideEffectOnce
    BY DEF IInv
  <1> QED BY <1>1, Invariant, PTL

\* As long as the reply is open, a record says success exactly when the receipt of
\* its last attempt holds a result.
THEOREM RecordsTrue == Spec => []RecordsMatchReceipts
  <1>1. IInv => RecordsMatchReceipts
    BY DEF IInv, Ledger, RecordsMatchReceipts
  <1> QED BY <1>1, Invariant, PTL

\* A reply that answers has every action it started on record, as done or as unknown.
THEOREM ActionsKept == Spec => []ActionsReported
  <1>1. IInv => ActionsReported
    <2> SUFFICES ASSUME IInv, reply.at \in {"respond", "finalize"},
                        NEW c \in Calls \ ReadOnly, ran[c] > 0
                 PROVE  records[c].status \in {"success", "uncertain"}
      BY DEF ActionsReported
    <2>1. ~terminal /\ next = "end" /\ exit = "complete"
      BY DEF IInv, Phases
    <2>2. pending = Nothing
      BY <2>1 DEF IInv, PendingFits
    <2>3. Recorded(c)
      BY <2>1, <2>2, CallsAssumption DEF IInv, Ledger, RunsKnown, ReceiptsKnown, Nothing
    <2>4. records[c].status \notin {"none", "pending", "running", "retry_wait", "exhausted"}
      BY <2>1, <2>3 DEF IInv, Ledger, RecordsFit, Recorded
    <2>5. records[c].status \in Statuses
      BY DEF IInv, TypeOK
    <2> QED BY <2>4, <2>5 DEF Statuses, Final
  <1> QED BY <1>1, Invariant, PTL

\* A receipt is only claimed for a call decided with every input that is admitted at
\* that moment.
THEOREM DecisionsFresh == Spec => FreshDecision
  <1>1. IInv /\ [Next]_vars => (place = "outside" /\ place' = "claimed" => decidedOn = log)
    <2> SUFFICES ASSUME IInv, [Next]_vars, place = "outside", place' = "claimed"
                 PROVE  decidedOn = log
      OBVIOUS
    <2>1. ExecuteClaimed
      BY DEF Next, GraphStep, ReplyStep, Enter, Plan, Decide, ReviewPlan, SelectCall, BeginAttempt,
         ExecuteHeld, ExecuteReplayed, CallTool, FinishExecution, Executed, Leave,
         Accept, Replan, YieldInput, Complete, Deliver, ThinkRefreshed, ThinkAgain, UseTools,
         ToolsUsed, Respond, RespondFallback, FinalizeUserReply, DeleteThread, ClearExecutions, Arrive,
         ArriveApart, Interrupted, Volatile, ReplyOnly, within, vars
    <2>2. next = "execute" /\ ~InputPending(basis)
      BY <2>1 DEF ExecuteClaimed, Run
    <2>3. decidedOn = basis.inputs /\ log >= basis.inputs /\ ClosedKnows(basis)
      BY <2>2 DEF IInv, InputsKnown
    <2>4. log \in Nat /\ basis.inputs \in Nat
      BY DEF IInv, TypeOK, Basis
    <2> QED BY <2>2, <2>3, <2>4 DEF InputPending, ClosedKnows
  <1> QED BY <1>1, Invariant, PTL DEF Spec, FreshDecision
================================================================================
