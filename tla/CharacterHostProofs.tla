------------------------ MODULE CharacterHostProofs ------------------------
(***************************************************************************)
(* The safety of CharacterHost for every number of samples, commands,      *)
(* requests and faults.                                                    *)
(***************************************************************************)
EXTENDS CharacterHost, TLAPS, FiniteSetTheorems, WellFoundedInduction, SequenceTheorems

USE DEF children

-----------------------------------------------------------------------------
(* The inductive invariant *)

Statuses == {"none", "STARTING", "RUNNING", "FAILED", "STOPPING", "ARCHIVED"}
Deliveries == {"none", "pending", "succeeded", "cancelled"}
Flushes == {"idle", "picking", "applying", "marking"}
Operation ==
    {Idle} \cup [by : {"start"}, pc : Starting]
           \cup [by : {"unload"}, pc : Stopping \cup {"cancelling", "archiving"}]
           \cup [by : {"retry"}, pc : Stopping]

RecordsTyped ==
    status \in Statuses /\ reset \in BOOLEAN /\ selected \in BOOLEAN /\ baseline \in 0..taken

\* There is no row for a sample that was not observed.
PresenceTyped ==
    /\ taken \in 0..MaxSamples
    /\ accepted \subseteq 1..taken
    /\ delivery \in [Samples -> Deliveries]
    /\ \A s \in Pending : s <= taken

OwnTyped == log \in Seq(accepted) /\ mark \in 0..taken

HostTyped ==
    /\ host \in {"up", "closing", "down"}
    /\ starts \in BOOLEAN /\ app \in BOOLEAN
    /\ op \in Operation

TasksTyped ==
    /\ flush \in [pc : Flushes, s : 0..taken]
    /\ loops \in {"none", "running", "failing", "draining"}
    /\ request \in BOOLEAN /\ child \in BOOLEAN /\ stray \in BOOLEAN

Typed == RecordsTyped /\ PresenceTyped /\ OwnTyped /\ HostTyped /\ TasksTyped

\* Where the status, the host and the database stand for each operation.
StartStands ==
    op.by = "start" =>
        /\ status = "STARTING"
        /\ op.pc = "building" => ~ app
        /\ op.pc # "building" => app
        /\ flush # NoFlush => op.pc = "flushing"

UnloadStands ==
    op.by = "unload" =>
        /\ host = "up" => status \in {"STOPPING", "FAILED"}
        /\ op.pc \in Stopping => app
        /\ op.pc \in {"cancelling", "archiving"} => ~ app

RetryStands == op.by = "retry" => status = "FAILED" /\ app

\* What has ended once an operation has come so far, and cannot begin again.
EndedSoFar ==
    /\ op.by = "start" => ~ Live
    /\ op.pc = "ending" => ~ request /\ loops # "running"
    /\ op.pc = "collecting" => ~ request /\ loops = "none"
    /\ op.pc = "closing" => ~ Live

HostStands ==
    /\ host = "down" => ~ app /\ ~ starts /\ op = Idle
    /\ status = "ARCHIVED" => ~ app

Standing ==
    StartStands /\ UnloadStands /\ RetryStands /\ EndedSoFar /\ HostStands /\ NoUseAfterClose

\* What is flushed is the oldest sample that waits; and no sample that waits is older than one
\* the character has seen.
OldestFlushed ==
    flush.pc \in {"applying", "marking"} => flush.s \in Pending /\ \A s \in Pending : flush.s <= s

SeenBefore == \A s \in Pending \cap accepted : \A i \in 1..Len(log) : log[i] <= s

HostInv == Typed /\ Standing /\ OldestFlushed /\ SeenBefore

-----------------------------------------------------------------------------
(* Lemmas *)

\* A set of numbers that is not empty has a least one.
LEMMA Least ==
    ASSUME NEW S \in SUBSET Nat, S # {}
    PROVE  \E n \in S : \A o \in S : n <= o
  <1> DEFINE T == {0..n : n \in S}
  <1>1. T \subseteq FiniteSubsetsOf(Nat)
    <2> SUFFICES ASSUME NEW n \in S PROVE 0..n \in FiniteSubsetsOf(Nat)
      OBVIOUS
    <2>1. IsFiniteSet(0..n)
      BY FS_Interval
    <2> QED BY <2>1 DEF FiniteSubsetsOf
  <1>2. T # {}
    OBVIOUS
  <1> HIDE DEF T
  <1>3. PICK t \in T : \A u \in T : ~ (<<u, t>> \in StrictSubsetOrdering(Nat))
    BY <1>1, <1>2, FS_StrictSubsetOrderingWellFounded, WFMin
  <1>4. PICK n \in S : t = 0..n
    BY <1>3 DEF T
  <1>5. ASSUME NEW o \in S, o < n PROVE FALSE
    <2>1. 0..o \in T
      BY DEF T
    <2>2. 0..o \subseteq 0..n /\ n \in 0..n /\ ~ (n \in 0..o)
      BY <1>5
    <2>3. <<0..o, 0..n>> \in StrictSubsetOrdering(Nat)
      BY <2>2 DEF StrictSubsetOrdering
    <2> QED BY <1>3, <1>4, <2>1, <2>3
  <1> QED BY <1>5

\* And one that has a bound has a greatest.
LEMMA Greatest ==
    ASSUME NEW n \in Nat, NEW S \in SUBSET (1..n), S # {}
    PROVE  \E m \in S : \A o \in S : o <= m
  <1> DEFINE B == {k \in Nat : \A o \in S : o <= k}
  <1>1. n \in B
    OBVIOUS
  <1>2. PICK m \in B : \A k \in B : m <= k
    BY <1>1, Least
  <1>3. m \in S
    <2> SUFFICES ASSUME m \notin S PROVE FALSE
      OBVIOUS
    <2>1. \A o \in S : o \in Nat \ {0} /\ o <= m /\ o # m
      OBVIOUS
    <2>2. m \in Nat /\ m # 0
      <3>1. PICK o \in S : TRUE
        OBVIOUS
      <3>2. o \in Nat \ {0} /\ o <= m
        BY <2>1
      <3> QED BY <3>2
    <2>3. m - 1 \in Nat /\ \A o \in S : o <= m - 1
      BY <2>1, <2>2
    <2>4. m - 1 \in B
      BY <2>3
    <2> QED BY <1>2, <2>2, <2>4
  <1> QED BY <1>2, <1>3

LEMMA SeqOfMore == ASSUME NEW S, NEW T, S \subseteq T, NEW q \in Seq(S) PROVE q \in Seq(T)
  OBVIOUS

LEMMA Bounds == MaxSamples \in Nat
  BY ConstantsOK

LEMMA LatestOf ==
    ASSUME PresenceTyped
    PROVE  /\ Latest \in 0..taken
           /\ accepted # {} => Latest \in accepted
           /\ \A s \in accepted : s <= Latest
  <1>1. taken \in Nat /\ accepted \in SUBSET (1..taken)
    BY Bounds DEF PresenceTyped
  <1>2. CASE accepted = {}
    BY <1>1, <1>2 DEF Latest
  <1>3. CASE accepted # {}
    <2>1. \E s \in accepted : \A t \in accepted : t <= s
      BY <1>1, <1>3, Greatest
    <2>2. Latest \in accepted /\ \A t \in accepted : t <= Latest
      BY <1>3, <2>1 DEF Latest
    <2> QED BY <1>1, <2>2
  <1> QED BY <1>2, <1>3

LEMMA OldestOf ==
    ASSUME PresenceTyped, Pending # {}
    PROVE  Oldest \in Pending /\ (\A s \in Pending : Oldest <= s) /\ Oldest \in 0..taken
  <1>1. Pending \in SUBSET Nat
    BY Bounds DEF Pending, Samples
  <1>2. \E s \in Pending : \A t \in Pending : s <= t
    BY <1>1, Least
  <1>3. Oldest \in Pending /\ \A t \in Pending : Oldest <= t
    BY <1>2 DEF Oldest
  <1>4. Oldest \in Nat /\ taken \in Nat /\ Oldest <= taken
    BY <1>1, <1>3, Bounds DEF PresenceTyped
  <1> QED BY <1>3, <1>4

LEMMA GoAfter ==
    ASSUME op \in Operation, NEW pc, Go(pc)
    PROVE  op' = [by |-> op.by, pc |-> pc] /\ op'.by = op.by /\ op'.pc = pc
  BY DEF Go, Operation, Idle

LEMMA AtOf ==
    ASSUME NEW by, NEW pc, At(by, pc)
    PROVE  op.by = by /\ op.pc = pc
  BY DEF At

\* Who may stand where.
LEMMA OperationIs ==
    ASSUME op \in Operation
    PROVE  /\ op.by \in {"nobody", "start", "unload", "retry"}
           /\ op.by = "nobody" <=> op = Idle
           /\ op.by = "start" <=> op.pc \in Starting
           /\ op.pc \in Stopping => op.by \in {"unload", "retry"}
           /\ op.pc \in {"cancelling", "archiving"} => op.by = "unload"
           /\ op.by = "retry" => op.pc \in Stopping
           /\ op.by = "unload" => op.pc \in Stopping \cup {"cancelling", "archiving"}
           /\ op = Idle => op.pc = "idle"
  BY DEF Operation, Idle, Starting, Stopping

LEMMA Operations ==
    /\ Idle \in Operation
    /\ \A pc \in Starting : [by |-> "start", pc |-> pc] \in Operation
    /\ \A pc \in Stopping \cup {"cancelling", "archiving"} : [by |-> "unload", pc |-> pc] \in Operation
    /\ \A pc \in Stopping : [by |-> "retry", pc |-> pc] \in Operation
  BY DEF Operation

-----------------------------------------------------------------------------
(* Types *)

\* What a step leaves alone keeps its types.
LEMMA KeptTyped ==
    ASSUME Typed
    PROVE  /\ UNCHANGED <<status, reset, selected, baseline, taken>> => RecordsTyped'
           /\ UNCHANGED <<taken, accepted, delivery>> => PresenceTyped'
           /\ UNCHANGED <<log, mark, taken, accepted>> => OwnTyped'
           /\ UNCHANGED <<host, starts, app, op>> => HostTyped'
           /\ UNCHANGED <<flush, loops, request, child, stray, taken>> => TasksTyped'
  <1>1. UNCHANGED <<taken, accepted, delivery>> => Pending' = Pending
    BY DEF Pending
  <1> QED
    BY <1>1 DEF Typed, RecordsTyped, PresenceTyped, OwnTyped, HostTyped, TasksTyped

LEMMA ApplyTyped ==
    ASSUME Typed, NEW s \in 0..taken, Apply(s), UNCHANGED <<taken, accepted>>
    PROVE  OwnTyped'
  <1>1. mark' \in 0..taken
    BY DEF Apply, Typed, OwnTyped
  <1>2. log' = log \/ (s \in accepted /\ log' = Append(log, s))
    BY DEF Apply
  <1>3. log' \in Seq(accepted)
    BY <1>2, AppendProperties DEF Typed, OwnTyped
  <1> QED BY <1>1, <1>3 DEF OwnTyped

LEMMA FlushTyped ==
    ASSUME Typed, NEW pc \in Flushes, NEW s \in 0..taken
    PROVE  /\ NoFlush \in [pc : Flushes, s : 0..taken]
           /\ [pc |-> pc, s |-> s] \in [pc : Flushes, s : 0..taken]
           /\ [flush EXCEPT !.pc = pc] \in [pc : Flushes, s : 0..taken]
           /\ [NoFlush EXCEPT !.pc = pc] \in [pc : Flushes, s : 0..taken]
           /\ [NoFlush EXCEPT !.pc = pc] # NoFlush \/ pc = "idle"
           /\ flush.s \in 0..taken
  <1>1. 0 \in 0..taken
    BY Bounds DEF Typed, PresenceTyped
  <1> QED BY <1>1 DEF Typed, TasksTyped, NoFlush, Flushes

LEMMA PresenceStepTyped ==
    ASSUME Typed, (\E late \in BOOLEAN : Observe(late)) \/ BeginFlush \/ Flush \/ FlushFails
    PROVE  Typed'
  <1>0. taken \in Nat /\ 0 \in 0..taken
    BY Bounds DEF Typed, PresenceTyped
  <1>1. ASSUME NEW late \in BOOLEAN, Observe(late) PROVE Typed'
    <2>1. /\ taken < MaxSamples /\ taken' = taken + 1
          /\ accepted' = IF late THEN accepted ELSE accepted \cup {taken + 1}
          /\ UNCHANGED <<records, own, host, starts, op, app, tasks>>
          /\ delivery' = delivery \/ delivery' = [delivery EXCEPT ![taken + 1] = "pending"]
      BY <1>1 DEF Observe
    <2>2. 0..taken \subseteq 0..taken' /\ 1..taken \subseteq 1..taken' /\ taken + 1 \in 1..taken'
          /\ taken' \in 0..MaxSamples /\ taken + 1 \in Samples
      BY <1>0, <2>1, Bounds DEF Samples
    <2>3. accepted \subseteq accepted' /\ accepted' \subseteq 1..taken'
      BY <2>1, <2>2 DEF Typed, PresenceTyped
    <2>4. PresenceTyped'
      <3>1. delivery \in [Samples -> Deliveries] /\ Pending' \subseteq Pending \cup {taken + 1}
        BY <2>1 DEF Typed, PresenceTyped, Pending
      <3>2. \A s \in Pending : s \in Nat /\ s <= taken
        BY Bounds DEF Typed, PresenceTyped, Pending, Samples
      <3>3. \A s \in Pending' : s <= taken'
        BY <1>0, <2>1, <3>1, <3>2
      <3>4. delivery' \in [Samples -> Deliveries]
        BY <2>1, <3>1 DEF Deliveries
      <3> QED BY <2>2, <2>3, <3>3, <3>4 DEF PresenceTyped
    <2>5. OwnTyped'
      <3>1. log \in Seq(accepted')
        BY <2>3, SeqOfMore DEF Typed, OwnTyped
      <3> QED BY <2>1, <2>2, <3>1 DEF Typed, OwnTyped, own
    <2>6. RecordsTyped' /\ TasksTyped'
      BY <2>1, <2>2 DEF Typed, RecordsTyped, TasksTyped, records, tasks
    <2>7. HostTyped'
      BY <2>1, KeptTyped
    <2> QED BY <2>4, <2>5, <2>6, <2>7 DEF Typed
  <1>2. CASE BeginFlush
    <2>1. TasksTyped'
      BY <1>2, <1>0, FlushTyped DEF BeginFlush, Typed, TasksTyped, Flushes, presence
    <2> QED BY <1>2, <2>1, KeptTyped DEF BeginFlush, Typed, records, presence, own
  <1>3. CASE PickSample
    <2>1. flush' = NoFlush \/ (Pending # {} /\ flush' = [pc |-> "applying", s |-> Oldest])
      BY <1>3 DEF PickSample
    <2>2. flush' \in [pc : Flushes, s : 0..taken]
      BY <1>0, <2>1, FlushTyped, OldestOf DEF Typed, Flushes
    <2>3. TasksTyped'
      BY <1>3, <2>2 DEF PickSample, Typed, TasksTyped, presence
    <2> QED BY <1>3, <2>3, KeptTyped DEF PickSample, Typed, records, presence, own
  <1>4. CASE ApplySample
    <2>1. TasksTyped'
      BY <1>4, <1>0, FlushTyped DEF ApplySample, Typed, TasksTyped, Flushes, presence
    <2>2. flush.s \in 0..taken
      BY <1>0, FlushTyped DEF Flushes
    <2>3. OwnTyped'
      BY <1>4, <2>2, ApplyTyped DEF ApplySample, presence
    <2> QED BY <1>4, <2>1, <2>3, KeptTyped DEF ApplySample, Typed, records, presence
  <1>5. CASE MarkDelivered
    <2>1. TasksTyped'
      BY <1>5, <1>0, FlushTyped DEF MarkDelivered, Typed, TasksTyped, Flushes
    <2>2. Pending' \subseteq Pending /\ delivery' \in [Samples -> Deliveries]
      BY <1>5 DEF MarkDelivered, Typed, PresenceTyped, Pending, Deliveries
    <2>3. PresenceTyped'
      BY <1>5, <2>2 DEF MarkDelivered, Typed, PresenceTyped
    <2> QED BY <1>5, <2>1, <2>3, KeptTyped DEF MarkDelivered, Typed, records, own
  <1>6. CASE FlushFails
    <2>1. TasksTyped'
      BY <1>6, <1>0, FlushTyped DEF FlushFails, Typed, TasksTyped, Flushes, presence
    <2> QED BY <1>6, <2>1, KeptTyped DEF FlushFails, Typed, records, presence, own
  <1> QED BY <1>1, <1>2, <1>3, <1>4, <1>5, <1>6 DEF Flush

LEMMA StartStepTyped ==
    ASSUME Typed, Start \/ StartFails \/ (\E installed \in BOOLEAN : Register(installed))
    PROVE  Typed'
  <1>0. taken \in Nat /\ 0 \in 0..taken
    BY Bounds DEF Typed, PresenceTyped
  <1>a. status \in Statuses /\ reset \in BOOLEAN /\ selected \in BOOLEAN /\ baseline \in 0..taken
        /\ op \in Operation /\ host \in {"up", "closing", "down"} /\ starts \in BOOLEAN
        /\ app \in BOOLEAN
    BY DEF Typed, RecordsTyped, HostTyped
  <1>b. \A s \in {"STARTING", "RUNNING", "FAILED"} : s \in Statuses
    BY DEF Statuses
  <1>c. \A pc \in Starting : At("start", pc) => \A q \in Starting : Go(q) => op' \in Operation
    BY <1>a, GoAfter, AtOf, Operations
  <1>1. ASSUME NEW installed \in BOOLEAN, Register(installed) PROVE Typed'
    BY <1>1, <1>a, <1>b, KeptTyped DEF Register, Typed, RecordsTyped, HostTyped, presence, own, tasks
  <1>2. CASE BeginStart
    <2>1. [by |-> "start", pc |-> "building"] \in Operation
      BY Operations DEF Starting
    <2> QED BY <1>2, <1>a, <1>b, <2>1, KeptTyped
               DEF BeginStart, Typed, RecordsTyped, HostTyped, presence, own, tasks
  <1>3. CASE Build
    <2>1. op' \in Operation
      BY <1>3, <1>c DEF Build, Starting
    <2> QED BY <1>3, <1>a, <2>1, KeptTyped DEF Build, Typed, HostTyped, presence, records, own, tasks
  <1>4. CASE TakeBaseline
    <2>1. op' \in Operation
      BY <1>4, <1>c DEF TakeBaseline, Starting
    <2>2. OwnTyped'
      BY <1>4, <1>a DEF TakeBaseline, Typed, OwnTyped, presence
    <2> QED BY <1>4, <1>a, <2>1, <2>2, KeptTyped
               DEF TakeBaseline, Typed, HostTyped, presence, records, tasks
  <1>5. CASE ApplyLatest
    <2>1. op' \in Operation
      BY <1>5, <1>c DEF ApplyLatest, Starting
    <2>2. OwnTyped'
      BY <1>5, LatestOf, ApplyTyped, KeptTyped DEF ApplyLatest, Typed, presence, own
    <2> QED BY <1>5, <1>a, <2>1, <2>2, KeptTyped
               DEF ApplyLatest, Typed, HostTyped, presence, records, tasks
  <1>6. CASE SaveBaseline
    <2>1. op' \in Operation
      BY <1>6, <1>c DEF SaveBaseline, Starting
    <2>2. TasksTyped'
      BY <1>6, <1>0, FlushTyped DEF SaveBaseline, Typed, TasksTyped, Flushes, presence
    <2> QED BY <1>6, <1>a, <1>0, <2>1, <2>2, KeptTyped
               DEF SaveBaseline, Typed, HostTyped, RecordsTyped, presence, own
  <1>7. CASE Flushed
    <2>1. op' \in Operation
      BY <1>7, <1>c DEF Flushed, Starting
    <2> QED BY <1>7, <1>a, <2>1, KeptTyped DEF Flushed, Typed, HostTyped, presence, records, own, tasks
  <1>8. CASE Activate
    <2>1. TasksTyped'
      BY <1>8 DEF Activate, Typed, TasksTyped, presence
    <2> QED BY <1>8, <1>a, <1>b, <2>1, Operations, KeptTyped
               DEF Activate, Typed, RecordsTyped, HostTyped, presence, own
  <1>9. CASE StartFails
    BY <1>9, <1>a, <1>b, <1>0, Operations, KeptTyped
       DEF StartFails, Typed, RecordsTyped, HostTyped, presence, own, tasks
  <1> QED BY <1>1, <1>2, <1>3, <1>4, <1>5, <1>6, <1>7, <1>8, <1>9 DEF Start

LEMMA RunStepTyped ==
    ASSUME Typed,
           \/ \E this \in BOOLEAN : Select(this)
           \/ AdmitRequest \/ SpawnChild \/ LoseHandle \/ RequestEnds \/ ChildEnds \/ StrayEnds
           \/ LoopsFail \/ SaveFailed \/ LoopsEnd
    PROVE  Typed'
  <1>a. TasksTyped /\ RecordsTyped /\ "FAILED" \in Statuses
    BY DEF Typed, Statuses
  <1>1. ASSUME NEW this \in BOOLEAN, Select(this) PROVE Typed'
    BY <1>1, <1>a, KeptTyped DEF Select, Typed, RecordsTyped, presence, own, tasks
  <1>2. CASE AdmitRequest
    BY <1>2, <1>a, KeptTyped DEF AdmitRequest, Typed, TasksTyped, records, presence, own
  <1>3. CASE SpawnChild
    BY <1>3, <1>a, KeptTyped DEF SpawnChild, Typed, TasksTyped, records, presence, own
  <1>4. CASE RequestEnds
    BY <1>4, <1>a, KeptTyped DEF RequestEnds, Typed, TasksTyped, records, presence, own
  <1>5. CASE ChildEnds
    BY <1>5, <1>a, KeptTyped DEF ChildEnds, Typed, TasksTyped, records, presence, own
  <1>6. CASE LoopsFail
    BY <1>6, <1>a, KeptTyped DEF LoopsFail, Typed, TasksTyped, records, presence, own
  <1>7. CASE SaveFailed
    BY <1>7, <1>a, KeptTyped DEF SaveFailed, Typed, TasksTyped, RecordsTyped, presence, own
  <1>8. CASE LoopsEnd
    BY <1>8, <1>a, KeptTyped DEF LoopsEnd, Typed, TasksTyped, records, presence, own
  <1>9. CASE LoseHandle
    BY <1>9, <1>a, KeptTyped DEF LoseHandle, Typed, TasksTyped, records, presence, own
  <1>10. CASE StrayEnds
    BY <1>10, <1>a, KeptTyped DEF StrayEnds, Typed, TasksTyped, records, presence, own
  <1> QED BY <1>1, <1>2, <1>3, <1>4, <1>5, <1>6, <1>7, <1>8, <1>9, <1>10

LEMMA StopStepTyped ==
    ASSUME Typed, Unload \/ RetryStart \/ UnloadStep \/ StopTimesOut
    PROVE  Typed'
  <1>a. TasksTyped /\ RecordsTyped /\ HostTyped /\ PresenceTyped /\ op \in Operation
    BY DEF Typed, HostTyped
  <1>b. "STOPPING" \in Statuses /\ "STARTING" \in Statuses /\ "ARCHIVED" \in Statuses
        /\ "cancelled" \in Deliveries
    BY DEF Statuses, Deliveries
  <1>c. \A pc \in Stopping : op.pc \in Stopping /\ Go(pc) => op' \in Operation
    BY <1>a, GoAfter, OperationIs, Operations
  <1>d. \A pc \in {"cancelling", "archiving"} : op.by = "unload" /\ Go(pc) => op' \in Operation
    BY <1>a, GoAfter, Operations
  <1>1. CASE Unload
    <2>1. op' \in Operation
      BY <1>1, Operations DEF Unload, Stopping
    <2>2. status' \in Statuses
      BY <1>1, <1>a, <1>b DEF Unload, RecordsTyped
    <2> QED BY <1>1, <1>a, <2>1, <2>2, KeptTyped
               DEF Unload, Typed, RecordsTyped, HostTyped, presence, own, tasks
  <1>2. CASE RetryStart
    <2>1. op' \in Operation
      BY <1>2, <1>a, Operations DEF RetryStart, Stopping
    <2>2. status' \in Statuses /\ starts' \in BOOLEAN
      BY <1>2, <1>a, <1>b DEF RetryStart, RecordsTyped, HostTyped
    <2> QED BY <1>2, <1>a, <2>1, <2>2, KeptTyped
               DEF RetryStart, Typed, RecordsTyped, HostTyped, presence, own, tasks
  <1>3. CASE Stop
    <2>1. op' \in Operation
      BY <1>3, <1>c DEF Stop, Stopping
    <2>2. loops' \in {"none", "running", "failing", "draining"}
      BY <1>3, <1>a DEF Stop, TasksTyped
    <2>3. UNCHANGED <<records, presence, own, host, starts, app, flush, request, child, stray>>
      BY <1>3 DEF Stop
    <2> QED BY <1>a, <2>1, <2>2, <2>3, KeptTyped
               DEF Typed, TasksTyped, HostTyped, presence, own, records
  <1>4. CASE CloseDatabase
    <2>1. op' \in Operation
      <3>1. CASE op.by = "retry"
        BY <1>4, <3>1, Operations DEF CloseDatabase
      <3>2. CASE op.by # "retry"
        <4>1. op.by = "unload"
          BY <1>4, <1>a, <3>2, OperationIs DEF CloseDatabase, Stopping
        <4>2. op' = Idle \/ Go("cancelling")
          BY <1>4, <3>2 DEF CloseDatabase
        <4> QED BY <1>d, <4>1, <4>2, Operations
      <3> QED BY <3>1, <3>2
    <2>2. status' \in Statuses /\ starts' \in BOOLEAN
      BY <1>4, <1>a, <1>b DEF CloseDatabase, RecordsTyped, HostTyped
    <2> QED BY <1>4, <1>a, <2>1, <2>2, KeptTyped
               DEF CloseDatabase, Typed, RecordsTyped, HostTyped, presence, own, tasks
  <1>5. CASE CancelPresence
    <2>1. op' \in Operation
      BY <1>5, <1>d, AtOf DEF CancelPresence
    <2>2. PresenceTyped'
      BY <1>5, <1>a, <1>b DEF CancelPresence, PresenceTyped, Pending
    <2> QED BY <1>5, <1>a, <2>1, <2>2, KeptTyped DEF CancelPresence, Typed, HostTyped, own, tasks, records
  <1>6. CASE Archive
    BY <1>6, <1>a, <1>b, Operations, KeptTyped
       DEF Archive, Typed, RecordsTyped, HostTyped, presence, own, tasks
  <1>7. CASE StopTimesOut
    BY <1>7, <1>a, <1>b, Operations, KeptTyped
       DEF StopTimesOut, Typed, RecordsTyped, HostTyped, presence, own, tasks
  <1> QED BY <1>1, <1>2, <1>3, <1>4, <1>5, <1>6, <1>7 DEF UnloadStep

LEMMA HostStepTyped ==
    ASSUME Typed, Restore \/ Close \/ Closed \/ Crash \/ Open
    PROVE  Typed'
  <1>a. TasksTyped /\ RecordsTyped /\ HostTyped /\ PresenceTyped
    BY DEF Typed
  <1>b. "STARTING" \in Statuses /\ "ARCHIVED" \in Statuses /\ "cancelled" \in Deliveries
    BY DEF Statuses, Deliveries
  <1>1. CASE Restore
    BY <1>1, <1>a, <1>b, LatestOf, KeptTyped
       DEF Restore, Typed, RecordsTyped, HostTyped, presence, own, tasks
  <1>2. CASE Close
    BY <1>2, <1>a, KeptTyped DEF Close, Typed, HostTyped, records, presence, own, tasks
  <1>3. CASE Closed
    BY <1>3, <1>a, KeptTyped DEF Closed, Typed, HostTyped, records, presence, own, tasks
  <1>4. CASE Crash
    <2>1. "idle" \in Flushes /\ 0 \in 0..taken
      BY <1>a, Bounds DEF Flushes, PresenceTyped
    <2>2. TasksTyped'
      BY <1>4, <1>a, <2>1, FlushTyped DEF Crash, TasksTyped, presence
    <2> QED BY <1>4, <1>a, <2>2, Operations, KeptTyped DEF Crash, Typed, HostTyped, records, presence, own
  <1>5. CASE Open
    <2>1. PresenceTyped' /\ status' \in Statuses /\ starts' \in BOOLEAN
      <3>1. CASE status = "STOPPING"
        BY <1>5, <1>a, <1>b, <3>1 DEF Open, PresenceTyped, Pending, HostTyped
      <3>2. CASE status # "STOPPING"
        BY <1>5, <1>a, <3>2, KeptTyped DEF Open, RecordsTyped
      <3> QED BY <3>1, <3>2
    <2> QED BY <1>5, <1>a, <2>1, KeptTyped DEF Open, Typed, RecordsTyped, HostTyped, own, tasks
  <1> QED BY <1>1, <1>2, <1>3, <1>4, <1>5

LEMMA TypedAfter == ASSUME Typed, Next PROVE Typed'
  BY PresenceStepTyped, StartStepTyped, RunStepTyped, StopStepTyped, HostStepTyped DEF Next

LEMMA TypedAtFirst == ASSUME Init PROVE Typed
  <1>1. 0 \in 0..MaxSamples /\ 0 \in 0..0 /\ <<>> \in Seq({}) /\ 1..0 = {}
    BY Bounds
  <1>2. Pending = {}
    BY DEF Init, Pending
  <1> QED
    BY <1>1, <1>2, Operations DEF Init, Typed, RecordsTyped, PresenceTyped, OwnTyped, HostTyped,
       TasksTyped, Statuses, Deliveries, Flushes, NoFlush

-----------------------------------------------------------------------------
(* Where an operation stands *)

\* A step that touches nothing of what the operations share.
LEMMA StandsStill ==
    ASSUME Standing, UNCHANGED <<status, host, starts, op, app, loops, request, child>>,
           flush' = NoFlush \/ flush # NoFlush
    PROVE  Standing'
  BY DEF Standing, StartStands, UnloadStands, RetryStands, EndedSoFar, HostStands, NoUseAfterClose, Live

LEMMA PresenceStands ==
    ASSUME Typed, Standing, (\E late \in BOOLEAN : Observe(late)) \/ BeginFlush \/ Flush \/ FlushFails
    PROVE  Standing'
  <1>1. ASSUME NEW late \in BOOLEAN, Observe(late) PROVE Standing'
    BY <1>1, StandsStill DEF Observe, records, tasks
  <1>2. CASE BeginFlush
    <2>1. op.by # "start" /\ app /\ UNCHANGED <<status, host, starts, op, app, loops, request, child>>
      BY <1>2 DEF BeginFlush, Standing, StartStands, records
    <2> QED BY <2>1 DEF Standing, StartStands, UnloadStands, RetryStands, EndedSoFar, HostStands,
                        NoUseAfterClose, Live
  <1>3. CASE Flush \/ FlushFails
    <2>1. flush # NoFlush
      BY <1>3 DEF Flush, FlushFails, PickSample, ApplySample, MarkDelivered, NoFlush
    <2>2. UNCHANGED <<status, host, starts, op, app, loops, request, child>>
      BY <1>3 DEF Flush, FlushFails, PickSample, ApplySample, MarkDelivered, records
    <2> QED BY <2>1, <2>2, StandsStill
  <1> QED BY <1>1, <1>2, <1>3

LEMMA StartStepStands ==
    ASSUME Typed, Standing, Start \/ StartFails \/ (\E installed \in BOOLEAN : Register(installed))
    PROVE  Standing'
  <1> USE DEF Standing
  <1>a. op \in Operation /\ op' \in Operation
    BY StartStepTyped DEF Typed, HostTyped
  <1>b. NoUseAfterClose /\ HostStands /\ StartStands /\ EndedSoFar
    OBVIOUS
  <1>1. ASSUME NEW installed \in BOOLEAN, Register(installed) PROVE Standing'
    <2>1. /\ status = "none" /\ host = "up" /\ status' \in {"STARTING", "FAILED"}
          /\ UNCHANGED <<host, op, app, flush, loops, request, child>>
      BY <1>1 DEF Register, Command, tasks
    <2>2. op = Idle
      BY <1>a, <2>1, OperationIs DEF StartStands, UnloadStands, RetryStands
    <2> QED BY <2>1, <2>2 DEF StartStands, UnloadStands, RetryStands, EndedSoFar, HostStands,
                              NoUseAfterClose, Live, Idle
  <1>2. CASE BeginStart
    <2>0. starts /\ op = Idle /\ host # "down" /\ UNCHANGED <<host, app, flush, loops, request, child>>
          /\ starts' = FALSE
      BY <1>2, <1>b DEF BeginStart, tasks, HostStands
    <2>1. CASE UNCHANGED <<status, op>>
      BY <2>0, <2>1 DEF StartStands, UnloadStands, RetryStands, EndedSoFar, HostStands,
                        NoUseAfterClose, Live, Idle
    <2>2. CASE ~ app /\ status' = "STARTING" /\ op' = [by |-> "start", pc |-> "building"]
      <3>1. ~ Live /\ flush = NoFlush
        BY <1>b, <2>2 DEF NoUseAfterClose
      <3> QED BY <2>0, <2>2, <3>1 DEF StartStands, UnloadStands, RetryStands, EndedSoFar, HostStands,
                                      NoUseAfterClose, Live
    <2> QED BY <1>2, <2>1, <2>2 DEF BeginStart
  <1>3. ASSUME NEW pc \in Starting \ {"building"}, op.by = "start", Go(pc), app',
               UNCHANGED <<status, host, starts, loops, request, child>>,
               flush' = NoFlush \/ pc = "flushing"
        PROVE  Standing'
    <2>1. op'.by = "start" /\ op'.pc = pc
      BY <1>3, <1>a, GoAfter
    <2>2. status = "STARTING" /\ ~ Live /\ host # "down"
      BY <1>3, <1>b DEF StartStands, EndedSoFar, HostStands, Idle
    <2>3. pc \notin {"building", "ending", "collecting", "closing", "idle"}
      BY DEF Starting
    <2> QED BY <1>3, <2>1, <2>2, <2>3 DEF StartStands, UnloadStands, RetryStands, EndedSoFar,
                                          HostStands, NoUseAfterClose, Live
  <1>c. \A pc \in Starting \ {"building"} : At("start", pc) =>
          op.by = "start" /\ op.pc = pc /\ app /\ (flush # NoFlush => pc = "flushing")
    BY <1>b, AtOf DEF StartStands
  <1>4. CASE Build
    <2>1. op.by = "start" /\ op.pc = "building"
      BY <1>4, AtOf DEF Build
    <2>2. flush = NoFlush
      BY <1>b, <2>1 DEF StartStands
    <2>3. PICK pc \in {"publishing", "basing", "current"} : Go(pc)
      BY <1>4 DEF Build
    <2>4. app' /\ UNCHANGED <<status, host, starts, flush, loops, request, child>>
      BY <1>4 DEF Build, records, tasks
    <2> QED BY <1>3, <2>1, <2>2, <2>3, <2>4 DEF Starting
  <1>5. CASE TakeBaseline
    BY <1>5, <1>3, <1>c DEF TakeBaseline, records, tasks, Starting
  <1>6. CASE ApplyLatest
    BY <1>6, <1>3, <1>c DEF ApplyLatest, records, tasks, Starting
  <1>7. CASE SaveBaseline
    BY <1>7, <1>3, <1>c DEF SaveBaseline, Starting
  <1>8. CASE Flushed
    BY <1>8, <1>3, <1>c DEF Flushed, records, tasks, Starting
  <1>9. CASE Activate
    <2>1. op.by = "start" /\ app /\ flush = NoFlush
      BY <1>9, <1>c DEF Activate, Starting
    <2>2. host # "down"
      BY <1>b, <2>1 DEF HostStands, Idle
    <2>3. op'.by = "nobody" /\ op'.pc = "idle" /\ status' = "RUNNING" /\ app' /\ UNCHANGED host
      BY <1>9, <2>1 DEF Activate, Idle
    <2> QED BY <2>2, <2>3 DEF StartStands, UnloadStands, RetryStands, EndedSoFar, HostStands,
                              NoUseAfterClose
  <1>10. CASE StartFails
    <2>1. op.by = "start" /\ flush' = NoFlush /\ ~ app' /\ status' = "FAILED" /\ op' = Idle
          /\ UNCHANGED <<host, starts, loops, request, child>>
      BY <1>10 DEF StartFails, tasks
    <2>2. ~ Live /\ host # "down"
      BY <1>b, <2>1 DEF EndedSoFar, HostStands, Idle
    <2> QED BY <2>1, <2>2 DEF StartStands, UnloadStands, RetryStands, EndedSoFar, HostStands,
                              NoUseAfterClose, Live, Idle
  <1> QED BY <1>1, <1>2, <1>4, <1>5, <1>6, <1>7, <1>8, <1>9, <1>10 DEF Start

LEMMA RunStepStands ==
    ASSUME Typed, Standing,
           \/ \E this \in BOOLEAN : Select(this)
           \/ AdmitRequest \/ SpawnChild \/ LoseHandle \/ RequestEnds \/ ChildEnds \/ StrayEnds
           \/ LoopsFail \/ SaveFailed \/ LoopsEnd
    PROVE  Standing'
  <1> USE DEF Standing
  <1>a. op \in Operation /\ loops \in {"none", "running", "failing", "draining"}
        /\ request \in BOOLEAN /\ child \in BOOLEAN
    BY DEF Typed, HostTyped, TasksTyped
  <1>b. NoUseAfterClose /\ HostStands /\ StartStands /\ EndedSoFar /\ UnloadStands /\ RetryStands
    OBVIOUS
  <1>c. op.pc \in {"ending", "collecting", "closing"} => op.by \in {"unload", "retry"}
    BY <1>a, OperationIs DEF Stopping
  <1>1. ASSUME NEW this \in BOOLEAN, Select(this) PROVE Standing'
    BY <1>1, <1>b, StandsStill DEF Select, tasks
  <1>2. CASE AdmitRequest
    <2>1. /\ host = "up" /\ status = "RUNNING" /\ app
          /\ UNCHANGED <<status, host, starts, op, app, flush, loops, child>>
      BY <1>2 DEF AdmitRequest, records
    <2>2. op.by \notin {"start", "unload", "retry"}
      BY <1>b, <2>1 DEF StartStands, UnloadStands, RetryStands
    <2>3. op.pc \notin {"ending", "collecting", "closing"}
      BY <1>c, <2>2
    <2> QED BY <1>b, <2>1, <2>2, <2>3 DEF StartStands, UnloadStands, RetryStands, EndedSoFar,
                                          HostStands, NoUseAfterClose, Live
  <1>3. CASE SpawnChild
    <2>1. /\ request \/ loops \in {"running", "draining"}
          /\ UNCHANGED <<status, host, starts, op, app, flush, loops, request>>
      BY <1>3 DEF SpawnChild, records
    <2>2. Live
      BY <2>1 DEF Live
    <2>3. app /\ op.by # "start" /\ op.pc # "closing"
      BY <1>b, <2>2 DEF NoUseAfterClose, EndedSoFar
    <2> QED BY <1>b, <2>1, <2>3 DEF StartStands, UnloadStands, RetryStands, EndedSoFar,
                                          HostStands, NoUseAfterClose, Live
  <1>4. CASE RequestEnds \/ ChildEnds \/ LoopsEnd \/ LoseHandle \/ StrayEnds
    <2>1. /\ UNCHANGED <<status, host, starts, op, app, flush>>
          /\ request' => request
          /\ child' => child
          /\ loops' = loops \/ loops' = "none"
      BY <1>4 DEF RequestEnds, ChildEnds, LoopsEnd, LoseHandle, StrayEnds, records
    <2>2. Live' => Live
      BY <2>1 DEF Live
    <2>3. EndedSoFar'
      BY <1>b, <2>1, <2>2 DEF EndedSoFar
    <2> QED BY <1>b, <2>1, <2>2, <2>3 DEF StartStands, UnloadStands, RetryStands,
                                          HostStands, NoUseAfterClose
  <1>5. CASE LoopsFail
    <2>1. /\ loops = "running" /\ loops' = "failing"
          /\ UNCHANGED <<status, host, starts, op, app, flush, request, child>>
      BY <1>5 DEF LoopsFail, records
    <2>2. Live /\ Live'
      BY <2>1 DEF Live
    <2>3. EndedSoFar'
      BY <1>b, <2>1, <2>2 DEF EndedSoFar
    <2> QED BY <1>b, <2>1, <2>2, <2>3 DEF StartStands, UnloadStands, RetryStands,
                                          HostStands, NoUseAfterClose
  <1>6. CASE SaveFailed
    <2>1. /\ loops = "failing" /\ loops' = "none" /\ status' = "FAILED"
          /\ UNCHANGED <<host, starts, op, app, flush, request, child>>
      BY <1>6 DEF SaveFailed
    <2>2. Live /\ (Live' => Live)
      BY <2>1 DEF Live
    <2>3. op.by # "start" /\ EndedSoFar'
      BY <1>b, <2>1, <2>2 DEF EndedSoFar
    <2> QED BY <1>b, <2>1, <2>2, <2>3 DEF StartStands, UnloadStands, RetryStands,
                                          HostStands, NoUseAfterClose
  <1> QED BY <1>1, <1>2, <1>3, <1>4, <1>5, <1>6

LEMMA StopStepStands ==
    ASSUME Typed, Standing, Unload \/ RetryStart \/ UnloadStep \/ StopTimesOut
    PROVE  Standing'
  <1> USE DEF Standing
  <1>a. op \in Operation /\ host \in {"up", "closing", "down"}
        /\ loops \in {"none", "running", "failing", "draining"}
    BY DEF Typed, HostTyped, TasksTyped
  <1>b. NoUseAfterClose /\ HostStands /\ StartStands /\ EndedSoFar /\ UnloadStands /\ RetryStands
    OBVIOUS
  <1>1. CASE Unload
    <2>1. /\ op = Idle /\ status # "ARCHIVED" /\ host # "down"
          /\ op' = [by |-> "unload", pc |-> IF app THEN "settling" ELSE "cancelling"]
          /\ host = "up" => status' = "STOPPING"
          /\ status' # "ARCHIVED"
          /\ UNCHANGED <<host, starts, app, flush, loops, request, child>>
      BY <1>1 DEF Unload, tasks
    <2>2. op'.by = "unload" /\ (app => op'.pc = "settling") /\ (~ app => op'.pc = "cancelling")
      BY <2>1
    <2>3. StartStands' /\ RetryStands' /\ EndedSoFar'
      BY <2>2 DEF StartStands, RetryStands, EndedSoFar
    <2>4. UnloadStands'
      BY <2>1, <2>2 DEF UnloadStands, Stopping
    <2>5. HostStands' /\ NoUseAfterClose'
      BY <1>b, <2>1 DEF HostStands, NoUseAfterClose, Live
    <2> QED BY <2>3, <2>4, <2>5
  <1>2. CASE RetryStart
    <2>1. /\ op = Idle /\ status = "FAILED" /\ host = "up"
          /\ UNCHANGED <<host, app, flush, loops, request, child>>
          /\ status' \in {"FAILED", "STARTING"}
      BY <1>2 DEF RetryStart, Command, tasks
    <2>2. CASE app
      <3>1. op'.by = "retry" /\ op'.pc = "settling" /\ status' = "FAILED"
        BY <1>2, <2>1, <2>2 DEF RetryStart
      <3> QED BY <1>b, <2>1, <2>2, <3>1 DEF StartStands, UnloadStands, RetryStands, EndedSoFar,
                                            HostStands, NoUseAfterClose, Live
    <2>3. CASE ~ app
      <3>1. op' = Idle /\ op'.by = "nobody" /\ op'.pc = "idle"
        BY <1>2, <2>1, <2>3 DEF RetryStart, Idle
      <3> QED BY <1>b, <2>1, <2>3, <3>1 DEF StartStands, UnloadStands, RetryStands, EndedSoFar,
                                            HostStands, NoUseAfterClose, Live
    <2> QED BY <2>2, <2>3
  <1>3. CASE Stop
    <2>1. /\ UNCHANGED <<status, host, starts, app, flush, request, child>>
          /\ op.pc \in Stopping
          /\ \/ ~ request /\ Go("ending") /\ loops' = IF loops = "running" THEN "draining" ELSE loops
             \/ loops = "none" /\ ~ request /\ Go("collecting") /\ UNCHANGED loops
             \/ loops = "none" /\ ~ request /\ ~ child /\ Go("closing") /\ UNCHANGED loops
      BY <1>3, <1>b DEF Stop, records, EndedSoFar, Stopping
    <2>2. PICK pc \in {"ending", "collecting", "closing"} : Go(pc)
      BY <2>1
    <2>3. op'.by = op.by /\ op'.pc = pc
      BY <1>a, <2>2, GoAfter
    <2>4. op.by \in {"unload", "retry"} /\ app /\ host # "down"
      BY <1>a, <1>b, <2>1, OperationIs DEF UnloadStands, RetryStands, HostStands, Idle
    <2>5. EndedSoFar'
      <3>1. \A q : Go(q) => op'.pc = q
        BY <1>a, GoAfter
      <3>2. op'.by # "start"
        BY <2>3, <2>4
      <3>3. CASE ~ request /\ Go("ending") /\ loops' = IF loops = "running" THEN "draining" ELSE loops
        <4>1. op'.pc = "ending" /\ ~ request' /\ loops' # "running"
          BY <2>1, <3>1, <3>3
        <4> QED BY <3>2, <4>1 DEF EndedSoFar
      <3>4. CASE loops = "none" /\ ~ request /\ Go("collecting") /\ UNCHANGED loops
        <4>1. op'.pc = "collecting" /\ ~ request' /\ loops' = "none"
          BY <2>1, <3>1, <3>4
        <4> QED BY <3>2, <4>1 DEF EndedSoFar
      <3>5. CASE loops = "none" /\ ~ request /\ ~ child /\ Go("closing") /\ UNCHANGED loops
        <4>1. op'.pc = "closing" /\ ~ Live'
          BY <2>1, <3>1, <3>5 DEF Live
        <4> QED BY <3>2, <4>1 DEF EndedSoFar
      <3> QED BY <2>1, <3>3, <3>4, <3>5
    <2>6. StartStands' /\ UnloadStands' /\ RetryStands'
      BY <1>b, <2>1, <2>3, <2>4 DEF StartStands, UnloadStands, RetryStands
    <2>7. HostStands' /\ NoUseAfterClose'
      BY <1>b, <2>1, <2>4 DEF HostStands, NoUseAfterClose
    <2> QED BY <2>5, <2>6, <2>7
  <1>4. CASE CloseDatabase
    <2>1. /\ op.pc = "closing" /\ flush = NoFlush /\ ~ app'
          /\ UNCHANGED <<host, flush, loops, request, child>>
      BY <1>4 DEF CloseDatabase, tasks
    <2>2. ~ Live /\ op.by \in {"unload", "retry"} /\ host # "down"
      BY <1>a, <1>b, <2>1, OperationIs DEF EndedSoFar, HostStands, Idle, Stopping
    <2>3. NoUseAfterClose' /\ HostStands'
      BY <2>1, <2>2 DEF NoUseAfterClose, HostStands, Live
    <2>4. CASE op' = Idle
      <3>1. op'.by = "nobody" /\ op'.pc = "idle"
        BY <2>4 DEF Idle
      <3> QED BY <2>3, <3>1 DEF StartStands, UnloadStands, RetryStands, EndedSoFar
    <2>5. CASE op' # Idle
      <3>1. op.by = "unload" /\ Go("cancelling") /\ UNCHANGED status
        BY <1>4, <2>2, <2>5 DEF CloseDatabase
      <3>2. op'.by = "unload" /\ op'.pc = "cancelling"
        BY <1>a, <3>1, GoAfter
      <3>3. StartStands' /\ RetryStands' /\ EndedSoFar'
        BY <3>2 DEF StartStands, RetryStands, EndedSoFar
      <3>4. UnloadStands'
        BY <1>b, <2>1, <3>1, <3>2 DEF UnloadStands, Stopping
      <3> QED BY <2>3, <3>3, <3>4
    <2> QED BY <2>4, <2>5
  <1>5. CASE CancelPresence
    <2>1. op.by = "unload" /\ op.pc = "cancelling" /\ Go("archiving")
          /\ UNCHANGED <<status, host, starts, app, flush, loops, request, child>>
      BY <1>5, AtOf DEF CancelPresence, records, tasks
    <2>2. op'.by = "unload" /\ op'.pc = "archiving" /\ ~ app /\ host # "down"
      BY <1>a, <1>b, <2>1, GoAfter DEF UnloadStands, HostStands, Idle
    <2>3. StartStands' /\ RetryStands' /\ EndedSoFar'
      BY <2>2 DEF StartStands, RetryStands, EndedSoFar
    <2>4. UnloadStands'
      BY <1>b, <2>1, <2>2 DEF UnloadStands, Stopping
    <2>5. HostStands' /\ NoUseAfterClose'
      BY <1>b, <2>1, <2>2 DEF HostStands, NoUseAfterClose, Live
    <2> QED BY <2>3, <2>4, <2>5
  <1>6. CASE Archive
    <2>1. op.by = "unload" /\ op.pc = "archiving" /\ op'.by = "nobody" /\ op'.pc = "idle"
          /\ UNCHANGED <<host, starts, app, flush, loops, request, child>> /\ op' = Idle
      BY <1>6, AtOf DEF Archive, tasks, Idle
    <2>2. ~ app
      BY <1>b, <2>1 DEF UnloadStands
    <2> QED BY <1>b, <2>1, <2>2 DEF StartStands, UnloadStands, RetryStands, EndedSoFar, HostStands,
                                    NoUseAfterClose, Live
  <1>7. CASE StopTimesOut
    <2>1. /\ op' = Idle /\ op'.by = "nobody" /\ op'.pc = "idle"
          /\ UNCHANGED <<host, starts, app, flush, loops, request, child>>
          /\ status' = status \/ status' = "STOPPING"
      BY <1>7 DEF StopTimesOut, tasks, Idle
    <2> QED BY <1>b, <2>1 DEF StartStands, UnloadStands, RetryStands, EndedSoFar, HostStands,
                              NoUseAfterClose, Live
  <1> QED BY <1>1, <1>2, <1>3, <1>4, <1>5, <1>6, <1>7 DEF UnloadStep

LEMMA HostStepStands ==
    ASSUME Typed, Standing, Restore \/ Close \/ Closed \/ Crash \/ Open
    PROVE  Standing'
  <1> USE DEF Standing
  <1>a. op \in Operation
    BY DEF Typed, HostTyped
  <1>b. NoUseAfterClose /\ HostStands /\ StartStands /\ EndedSoFar /\ UnloadStands /\ RetryStands
    OBVIOUS
  <1>1. CASE Restore
    <2>1. /\ status = "ARCHIVED" /\ host = "up" /\ status' = "STARTING"
          /\ UNCHANGED <<host, op, app, flush, loops, request, child>>
      BY <1>1 DEF Restore, Command, tasks
    <2>2. op = Idle /\ op.by = "nobody" /\ op.pc = "idle"
      BY <1>a, <1>b, <2>1, OperationIs DEF StartStands, UnloadStands, RetryStands
    <2> QED BY <1>b, <2>1, <2>2 DEF StartStands, UnloadStands, RetryStands, EndedSoFar, HostStands,
                                    NoUseAfterClose, Live
  <1>2. CASE Close
    <2>1. /\ host = "up" /\ host' = "closing"
          /\ UNCHANGED <<status, op, app, flush, loops, request, child>>
      BY <1>2 DEF Close, records, tasks
    <2> QED BY <1>b, <2>1 DEF StartStands, UnloadStands, RetryStands, EndedSoFar, HostStands,
                              NoUseAfterClose, Live
  <1>3. CASE Closed
    <2>1. /\ ~ app /\ op = Idle /\ op.by = "nobody" /\ op.pc = "idle" /\ ~ starts'
          /\ UNCHANGED <<status, op, app, flush, loops, request, child>>
      BY <1>3 DEF Closed, records, tasks, Idle
    <2> QED BY <1>b, <2>1 DEF StartStands, UnloadStands, RetryStands, EndedSoFar, HostStands,
                              NoUseAfterClose, Live
  <1>4. CASE Crash
    <2>1. /\ ~ app' /\ ~ starts' /\ op' = Idle /\ op'.by = "nobody" /\ op'.pc = "idle"
          /\ flush' = NoFlush /\ loops' = "none" /\ ~ request' /\ ~ child'
      BY <1>4 DEF Crash, Idle
    <2> QED BY <2>1 DEF StartStands, UnloadStands, RetryStands, EndedSoFar, HostStands,
                        NoUseAfterClose, Live
  <1>5. CASE Open
    <2>1. /\ host = "down" /\ host' = "up" /\ UNCHANGED <<op, app, flush, loops, request, child>>
      BY <1>5 DEF Open, tasks
    <2>2. ~ app /\ op.by = "nobody" /\ op.pc = "idle"
      BY <1>b, <2>1 DEF HostStands, Idle
    <2> QED BY <1>b, <2>1, <2>2 DEF StartStands, UnloadStands, RetryStands, EndedSoFar, HostStands,
                                    NoUseAfterClose, Live
  <1> QED BY <1>1, <1>2, <1>3, <1>4, <1>5

LEMMA StandingAfter == ASSUME Typed, Standing, Next PROVE Standing'
  BY PresenceStands, StartStepStands, RunStepStands, StopStepStands, HostStepStands DEF Next

-----------------------------------------------------------------------------
(* The order of the presence *)

LEMMA PendingIs ==
    ASSUME Typed
    PROVE  /\ Pending \subseteq Samples /\ taken \in Nat
           /\ \A s \in Pending : s \in Nat /\ s <= taken
           /\ \A s \in accepted : s \in Nat /\ s <= taken
           /\ Len(log) \in Nat /\ \A i \in 1..Len(log) : log[i] \in accepted /\ log[i] \in Nat
  <1>1. taken \in Nat /\ accepted \subseteq 1..taken /\ log \in Seq(accepted)
    BY Bounds DEF Typed, PresenceTyped, OwnTyped
  <1>2. Pending \subseteq Samples /\ \A s \in Pending : s \in Nat /\ s <= taken
    BY Bounds DEF Typed, PresenceTyped, Pending, Samples
  <1>3. \A s \in accepted : s \in Nat /\ s <= taken
    BY <1>1
  <1>4. Len(log) \in Nat /\ \A i \in 1..Len(log) : log[i] \in accepted
    BY <1>1
  <1> QED BY <1>1, <1>2, <1>3, <1>4

\* What a sample that is observed adds to what waits.
LEMMA ObservedPending ==
    ASSUME Typed, NEW late, Observe(late)
    PROVE  /\ Pending' = Pending \/ Pending' = Pending \cup {taken + 1}
           /\ accepted' \subseteq accepted \cup {taken + 1}
           /\ UNCHANGED <<log, mark, flush, op>>
  <1>1. taken + 1 \in Samples /\ delivery \in [Samples -> Deliveries]
    BY Bounds DEF Observe, Samples, Typed, PresenceTyped
  <1>2. delivery' = delivery \/ delivery' = [delivery EXCEPT ![taken + 1] = "pending"]
    BY DEF Observe
  <1>3. Pending' = Pending \/ Pending' = Pending \cup {taken + 1}
    BY <1>1, <1>2 DEF Pending
  <1> QED BY <1>3 DEF Observe, own, tasks

\* The other steps, but for an end of the flush and the loss of what waited.
LEMMA PendingAfter ==
    ASSUME Typed, Standing, Next, \A late \in BOOLEAN : ~ Observe(late)
    PROVE  /\ UNCHANGED accepted /\ Pending' \subseteq Pending
           /\ MarkDelivered \/ CancelPresence \/ Open \/ Pending' = Pending
           /\ CancelPresence \/ Open => flush = NoFlush
  <1>1. UNCHANGED accepted
    BY DEF Next, BeginFlush, Flush, PickSample, ApplySample, MarkDelivered, FlushFails, Register,
       Start, BeginStart, Build, TakeBaseline, ApplyLatest, SaveBaseline, Flushed, Activate, StartFails,
       Select, AdmitRequest, SpawnChild, LoseHandle, RequestEnds, ChildEnds, StrayEnds, LoopsFail,
       SaveFailed, LoopsEnd, Unload, RetryStart, UnloadStep, Stop, CloseDatabase, CancelPresence, Archive, StopTimesOut, Restore,
       Close, Closed, Crash, Open, presence
  <1>2. MarkDelivered \/ CancelPresence \/ Open \/ UNCHANGED delivery
    BY DEF Next, BeginFlush, Flush, PickSample, ApplySample, FlushFails, Register,
       Start, BeginStart, Build, TakeBaseline, ApplyLatest, SaveBaseline, Flushed, Activate, StartFails,
       Select, AdmitRequest, SpawnChild, LoseHandle, RequestEnds, ChildEnds, StrayEnds, LoopsFail,
       SaveFailed, LoopsEnd, Unload, RetryStart, UnloadStep, Stop, CloseDatabase, Archive, StopTimesOut, Restore, Close, Closed, Crash,
       presence
  <1>3. UNCHANGED delivery => Pending' = Pending
    BY DEF Pending
  <1>4. MarkDelivered => Pending' \subseteq Pending
    BY DEF MarkDelivered, Pending, Typed, PresenceTyped, Deliveries
  <1>5. CancelPresence \/ Open => Pending' \subseteq Pending
    <2>1. CancelPresence \/ Open =>
            \/ delivery' = [s \in Samples |-> IF s \in Pending THEN "cancelled" ELSE delivery[s]]
            \/ UNCHANGED delivery
      BY DEF CancelPresence, Open
    <2>2. delivery' = [s \in Samples |-> IF s \in Pending THEN "cancelled" ELSE delivery[s]]
            => Pending' \subseteq Pending
      <3> SUFFICES ASSUME delivery' = [s \in Samples |-> IF s \in Pending THEN "cancelled" ELSE delivery[s]],
                          NEW s \in Samples, delivery'[s] = "pending"
                   PROVE  delivery[s] = "pending"
        BY DEF Pending
      <3>1. s \notin Pending
        OBVIOUS
      <3> QED BY <3>1
    <2> QED BY <1>3, <2>1, <2>2
  <1>6. CancelPresence \/ Open => flush = NoFlush
    <2>1. CancelPresence => ~ app
      BY AtOf DEF CancelPresence, Standing, UnloadStands
    <2>2. Open => ~ app
      BY DEF Open, Standing, HostStands
    <2> QED BY <2>1, <2>2 DEF Standing, NoUseAfterClose
  <1> QED BY <1>1, <1>2, <1>3, <1>4, <1>5, <1>6

LEMMA OldestAfter ==
    ASSUME Typed, Standing, OldestFlushed, Next
    PROVE  OldestFlushed'
  <1>1. ASSUME NEW late \in BOOLEAN, Observe(late) PROVE OldestFlushed'
    <2>1. \A s \in Pending' : s \in Pending \/ s = taken + 1
      BY <1>1, ObservedPending
    <2>2. Pending \subseteq Pending' /\ UNCHANGED flush
      BY <1>1, ObservedPending
    <2>3. \A s \in Pending : s <= taken + 1
      BY PendingIs
    <2> QED BY <2>1, <2>2, <2>3 DEF OldestFlushed
  <1>2. CASE \A late \in BOOLEAN : ~ Observe(late)
    <2>1. CASE PickSample
      <3>1. flush' = NoFlush \/ (Pending # {} /\ flush' = [pc |-> "applying", s |-> Oldest])
        BY <2>1 DEF PickSample
      <3>2. Pending' = Pending
        BY <2>1 DEF PickSample, presence, Pending
      <3>3. Pending # {} => Oldest \in Pending /\ \A s \in Pending : Oldest <= s
        BY OldestOf DEF Typed
      <3> QED BY <3>1, <3>2, <3>3 DEF OldestFlushed, NoFlush
    <2>2. CASE flush'.pc \in {"idle", "picking"}
      BY <2>2 DEF OldestFlushed
    <2>3. CASE flush'.pc \notin {"idle", "picking"} /\ ~ PickSample
      <3>1. flush'.s = flush.s /\ (flush'.pc = flush.pc \/ flush.pc \in {"applying", "marking"})
            /\ ~ MarkDelivered
        <4>1. UNCHANGED flush \/ ApplySample
          BY <1>2, <2>3 DEF Next, BeginFlush, Flush, MarkDelivered, FlushFails, Register,
             Start, BeginStart, Build, TakeBaseline, ApplyLatest, SaveBaseline, Flushed, Activate,
             StartFails, Select, AdmitRequest, SpawnChild, LoseHandle, RequestEnds, ChildEnds,
             StrayEnds, LoopsFail, SaveFailed, LoopsEnd, Unload, RetryStart, UnloadStep, Stop, CloseDatabase, CancelPresence, Archive,
             StopTimesOut, Restore, Close, Closed, Crash, Open, tasks, NoFlush
        <4>2. ApplySample => flush.pc = "applying" /\ flush'.s = flush.s
          BY DEF ApplySample, Typed, TasksTyped
        <4>3. ~ MarkDelivered
          BY <2>3 DEF MarkDelivered, NoFlush
        <4> QED BY <4>1, <4>2, <4>3
      <3>2. flush.pc \in {"applying", "marking"}
        <4>1. flush'.pc \in Flushes
          BY TypedAfter DEF Typed, TasksTyped
        <4> QED BY <2>3, <3>1, <4>1 DEF Flushes
      <3>3. Pending' = Pending
        <4>1. flush # NoFlush
          BY <3>2 DEF NoFlush
        <4> QED BY <1>2, <3>1, <4>1, PendingAfter
      <3> QED BY <3>1, <3>2, <3>3 DEF OldestFlushed
    <2> QED BY <2>1, <2>2, <2>3
  <1> QED BY <1>1, <1>2

\* The steps that write into the character's database.
LEMMA OwnAfter ==
    ASSUME Next
    PROVE  \/ ApplySample \/ TakeBaseline
           \/ ApplyLatest /\ mark = 0 /\ Pending = {} /\ Apply(Latest)
           \/ UNCHANGED <<log, mark>>
  BY DEF Next, Observe, BeginFlush, Flush, PickSample, MarkDelivered, FlushFails, Register,
     Start, BeginStart, Build, ApplyLatest, SaveBaseline, Flushed, Activate, StartFails,
     Select, AdmitRequest, SpawnChild, LoseHandle, RequestEnds, ChildEnds, StrayEnds, LoopsFail,
     SaveFailed, LoopsEnd, Unload, RetryStart, UnloadStep, Stop, CloseDatabase, CancelPresence,
     Archive, StopTimesOut, Restore, Close, Closed, Crash, Open, own

LEMMA AppendedTo ==
    ASSUME Typed, NEW s \in accepted
    PROVE  /\ Len(Append(log, s)) = Len(log) + 1
           /\ \A i \in 1..Len(log) : Append(log, s)[i] = log[i]
           /\ Append(log, s)[Len(log) + 1] = s
           /\ \A i \in 1..(Len(log) + 1) : i \in 1..Len(log) \/ i = Len(log) + 1
           /\ Len(log) + 1 \in DOMAIN Append(log, s)
  <1>1. log \in Seq(accepted)
    BY DEF Typed, OwnTyped
  <1>2. Append(log, s) \in Seq(accepted) /\ Len(log) \in Nat
    BY <1>1, AppendProperties
  <1> QED BY <1>1, <1>2, AppendProperties

LEMMA SeenAfter ==
    ASSUME Typed, Standing, OldestFlushed, SeenBefore, Next
    PROVE  SeenBefore'
  <1>1. ASSUME NEW late \in BOOLEAN, Observe(late) PROVE SeenBefore'
    <2>1. \A i \in 1..Len(log) : log[i] \in accepted /\ log[i] <= taken + 1
      BY PendingIs
    <2>2. taken + 1 \notin accepted /\ taken + 1 \notin Pending
      BY PendingIs
    <2>3. \A s \in Pending' \cap accepted' : s \in Pending \cap accepted \/ s = taken + 1
      BY <1>1, <2>2, ObservedPending
    <2> QED BY <1>1, <2>1, <2>3, ObservedPending DEF SeenBefore
  <1>2. CASE \A late \in BOOLEAN : ~ Observe(late)
    <2>1. Pending' \cap accepted' \subseteq Pending \cap accepted
      BY <1>2, PendingAfter
    <2>2. CASE UNCHANGED log
      BY <2>1, <2>2 DEF SeenBefore
    <2>3. CASE log' # log
      <3>1. PICK s \in accepted : log' = Append(log, s) /\ \A t \in Pending : s <= t
        <4>1. CASE ApplySample
          <5>1. flush.s \in accepted /\ log' = Append(log, flush.s)
            BY <2>3, <4>1 DEF ApplySample, Apply
          <5>2. \A t \in Pending : flush.s <= t
            BY <4>1 DEF ApplySample, OldestFlushed
          <5> QED BY <5>1, <5>2
        <4>2. CASE ApplyLatest /\ mark = 0 /\ Pending = {} /\ Apply(Latest)
          BY <2>3, <4>2 DEF Apply
        <4>3. ~ TakeBaseline
          BY <2>3 DEF TakeBaseline
        <4> QED BY <2>3, <4>1, <4>2, <4>3, OwnAfter
      <3>2. \A i \in 1..Len(log') : (i \in 1..Len(log) /\ log'[i] = log[i]) \/ log'[i] = s
        BY <3>1, AppendedTo
      <3> QED BY <2>1, <3>1, <3>2 DEF SeenBefore
    <2> QED BY <2>2, <2>3
  <1> QED BY <1>1, <1>2

-----------------------------------------------------------------------------
(* The theorems *)

LEMMA HostInvAtFirst == ASSUME Init PROVE HostInv
  <1>1. Standing
    BY DEF Init, Standing, StartStands, UnloadStands, RetryStands, EndedSoFar, HostStands,
       NoUseAfterClose, Live, Idle
  <1>2. OldestFlushed /\ SeenBefore
    BY DEF Init, OldestFlushed, SeenBefore, NoFlush, Pending
  <1> QED BY <1>1, <1>2, TypedAtFirst DEF HostInv

LEMMA HostInvAfter == ASSUME HostInv, [Next]_vars PROVE HostInv'
  <1>1. CASE Next
    BY <1>1, TypedAfter, StandingAfter, OldestAfter, SeenAfter DEF HostInv
  <1>2. CASE UNCHANGED vars
    <2>1. UNCHANGED <<status, reset, baseline, selected, taken, accepted, delivery, log, mark, host,
                      starts, op, app, flush, loops, request, child, stray>>
      BY <1>2 DEF vars, records, presence, own, tasks
    <2>2. Typed'
      BY <2>1, KeptTyped DEF HostInv, Typed
    <2>3. Standing'
      BY <2>1, StandsStill DEF HostInv
    <2>4. Pending' = Pending
      BY <2>1 DEF Pending
    <2>5. OldestFlushed' /\ SeenBefore'
      BY <2>1, <2>4 DEF HostInv, OldestFlushed, SeenBefore
    <2> QED BY <2>2, <2>3, <2>5 DEF HostInv
  <1> QED BY <1>1, <1>2

\* The inductive invariant.
THEOREM HostInvariant == Spec => []HostInv
  <1>1. Init => HostInv
    BY HostInvAtFirst
  <1>2. HostInv /\ [Next]_vars => HostInv'
    BY HostInvAfter
  <1> QED BY <1>1, <1>2, PTL DEF Spec

LEMMA InvTypeOK == ASSUME HostInv PROVE TypeOK
  <1>1. \/ op = Idle
        \/ op.by = "start" /\ op.pc \in Starting
        \/ op.by = "unload" /\ op.pc \in Stopping \cup {"cancelling", "archiving"}
        \/ op.by = "retry" /\ op.pc \in Stopping
    BY DEF HostInv, Typed, HostTyped, Operation
  <1>2. status = "ARCHIVED" => ~ app /\ ~ Live
    BY DEF HostInv, Standing, HostStands, NoUseAfterClose
  <1>3. host = "down" => ~ app /\ ~ starts /\ op = Idle
    BY DEF HostInv, Standing, HostStands
  <1>4. RecordsTyped /\ PresenceTyped /\ OwnTyped /\ HostTyped /\ TasksTyped
    BY DEF HostInv, Typed
  <1> QED
    BY <1>1, <1>2, <1>3, <1>4 DEF TypeOK, RecordsTyped, PresenceTyped, OwnTyped, HostTyped, TasksTyped,
       Statuses, Deliveries, Flushes

\* Every variable keeps its type; an archived character has neither an open database nor
\* anything alive, and a host that is down holds nothing.
THEOREM TypeCorrect == Spec => []TypeOK
  <1>1. HostInv => TypeOK
    BY InvTypeOK
  <1> QED BY <1>1, HostInvariant, PTL

\* No request, loop or flush, no background task of reading and no runner that the activity
\* facade's handle names is alive while the database of the character is closed, however
\* starts, unloads, retries, timeouts and the closing of the host follow one another.  The
\* theorem does not speak of runners whose handle was overwritten.
THEOREM NeverUsedAfterClose == Spec => []NoUseAfterClose
  <1>1. HostInv => NoUseAfterClose
    BY DEF HostInv, Standing
  <1> QED BY <1>1, HostInvariant, PTL

LEMMA StepInOrder ==
    ASSUME HostInv, [Next]_vars
    PROVE  /\ log' # log => \A i \in 1..Len(log) : log[i] < Last(log')
           /\ op.pc # "basing" =>
                \A s \in Pending \cap accepted : mark < s /\ s <= mark' => s \in Range(log')
  <1>0. Typed /\ Standing /\ OldestFlushed /\ SeenBefore /\ mark \in Nat
    BY Bounds DEF HostInv, Typed, OwnTyped, PresenceTyped
  <1>1. ASSUME NEW s \in 0..taken, Apply(s), log' # log,
               \A i \in 1..Len(log) : log[i] <= s
        PROVE  \A i \in 1..Len(log) : log[i] < Last(log')
    <2>1. s \in accepted /\ log' = Append(log, s) /\ \A i \in 1..Len(log) : log[i] # s
      BY <1>1 DEF Apply
    <2>2. Last(log') = s
      BY <1>0, <2>1, AppendedTo DEF Last
    <2>3. \A i \in 1..Len(log) : log[i] \in Nat
      BY <1>0, PendingIs
    <2>4. s \in Nat
      OBVIOUS
    <2> QED BY <1>1, <2>1, <2>2, <2>3, <2>4
  <1>2. CASE UNCHANGED <<log, mark>>
    <2>1. \A s \in Pending : s \in Nat
      BY <1>0, PendingIs
    <2> QED BY <1>0, <1>2, <2>1
  <1>3. CASE ApplySample
    <2> DEFINE s == flush.s
    <2>1. Apply(s) /\ s \in Pending /\ \A t \in Pending : s <= t
      BY <1>0, <1>3 DEF ApplySample, OldestFlushed
    <2>2. s \in Nat /\ s \in 0..taken
      BY <1>0 DEF Typed, TasksTyped
    <2>3. log' # log => \A i \in 1..Len(log) : log[i] < Last(log')
      <3> SUFFICES ASSUME log' # log PROVE \A i \in 1..Len(log) : log[i] < Last(log')
        OBVIOUS
      <3>1. s \in accepted
        BY <2>1 DEF Apply
      <3>2. \A i \in 1..Len(log) : log[i] <= s
        BY <1>0, <2>1, <3>1 DEF SeenBefore
      <3> QED BY <1>1, <2>1, <2>2, <3>2
    <2>4. ASSUME NEW t \in Pending \cap accepted, mark < t, t <= mark' PROVE t \in Range(log')
      <3>0. t \in Nat
        BY <1>0, PendingIs
      <3>1. ~ (mark >= s) /\ mark' = s
        BY <1>0, <2>1, <2>2, <2>4, <3>0 DEF Apply
      <3>2. t = s
        BY <2>1, <2>2, <2>4, <3>0, <3>1
      <3>3. (\E i \in 1..Len(log) : log[i] = s) \/ log' = Append(log, s)
        BY <2>1, <2>4, <3>1, <3>2 DEF Apply
      <3>4. CASE log' = Append(log, s)
        BY <1>0, <2>4, <3>2, <3>4, AppendedTo DEF Range
      <3>5. CASE \E i \in 1..Len(log) : log[i] = s
        <4>1. log' = log
          BY <2>1, <3>5 DEF Apply
        <4>2. DOMAIN log = 1..Len(log)
          BY <1>0 DEF Typed, OwnTyped
        <4> QED BY <3>2, <3>5, <4>1, <4>2 DEF Range
      <3> QED BY <3>3, <3>4, <3>5
    <2> QED BY <2>3, <2>4
  <1>4. CASE ApplyLatest /\ mark = 0 /\ Pending = {} /\ Apply(Latest)
    <2>1. Latest \in 0..taken /\ \A s \in accepted : s <= Latest
      BY <1>0, LatestOf DEF Typed
    <2>2. \A i \in 1..Len(log) : log[i] <= Latest
      BY <1>0, <2>1, PendingIs
    <2> QED BY <1>1, <1>4, <2>1, <2>2
  <1>5. CASE TakeBaseline
    <2>1. op.pc = "basing" /\ UNCHANGED log
      BY <1>5, AtOf DEF TakeBaseline
    <2> QED BY <2>1
  <1>6. CASE Next
    BY <1>2, <1>3, <1>4, <1>5, <1>6, OwnAfter
  <1>7. CASE UNCHANGED vars
    BY <1>2, <1>7 DEF vars, own
  <1> QED BY <1>6, <1>7

\* The character sees the presence in the order in which it was observed, and the checkpoint
\* passes nothing that waits: over late samples, failed flushes, restarts and restorations.
THEOREM PresenceKeepsOrder == Spec => PresenceInOrder
  <1>1. HostInv /\ [Next]_vars =>
          [/\ log' # log => \A i \in 1..Len(log) : log[i] < Last(log')
           /\ op.pc # "basing" =>
                \A s \in Pending \cap accepted : mark < s /\ s <= mark' => s \in Range(log')]_vars
    BY StepInOrder
  <1> QED BY <1>1, HostInvariant, PTL DEF Spec, PresenceInOrder
=============================================================================
