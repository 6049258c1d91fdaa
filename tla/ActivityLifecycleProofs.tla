----------------------- MODULE ActivityLifecycleProofs -----------------------
(***************************************************************************)
(* What ActivityLifecycle keeps for every set of activities, desires,      *)
(* tasks, callers, interrupters and runners.                               *)
(***************************************************************************)
EXTENDS ActivityLifecycle, TLAPS

\* Whoever is at work knows the activity it works on.
Engaged ==
    /\ \A r \in Runners : rpc[r] \in Live => ract[r] \in Activities
    /\ \A c \in Callers : cpc[c] \in {"chosen", "committed"} => started[c] \in Activities
    /\ \A i \in Interrupters : ipc[i] # "idle" => target[i] \in Activities

Base == TypeOK /\ Engaged

-----------------------------------------------------------------------------
(* The transactions *)

\* A transaction on the source of one activity leaves statuses statuses.
LEMMA TransactionTypes ==
    ASSUME TypeOK
    PROVE  /\ \A s : Suppressed(s) \in [Desires -> {"pending", "active", "suppressed",
                                                    "satisfied", "expired"}]
           /\ \A s : Released(s) \in [Desires -> {"pending", "active", "suppressed",
                                                  "satisfied", "expired"}]
           /\ \A s, st : st \in {"none", "pending", "running", "completed", "failed"} =>
                WithTask(s, st) \in [Tasks -> {"none", "pending", "running", "completed",
                                               "failed"}]
           /\ \A a : Halted(a) \in {"paused", "abandoned"}
           /\ \A a : TaskAfterHalt(a) \in {"failed", "pending"}
  BY DEF TypeOK, Suppressed, Released, WithTask, Halted, TaskAfterHalt

\* recover_stale_running settles every RUNNING activity together with what it was
\* started for.
LEMMA RecoverSettles ==
    ASSUME ConstantsOK, TypeOK, Recover
    PROVE  /\ act' \in [Activities -> {"none", "running", "completed", "incomplete",
                                       "paused", "abandoned"}]
           /\ desire' \in [Desires -> {"pending", "active", "suppressed", "satisfied",
                                       "expired"}]
           /\ task' \in [Tasks -> {"none", "pending", "running", "completed", "failed"}]
           /\ ended' = ended
           /\ \A d \in Desires : desire'[d] = "active" =>
                /\ desire[d] = "active"
                /\ \A a \in Activities : Source[a] = d => act[a] # "running"
           /\ \A a \in Surveys : Source[a] \in Tasks /\ task[Source[a]] = "running"
                => task'[Source[a]] # "pending"
  <1>1. PICK settled \in [Tasks -> {"completed", "failed", "pending"}] :
            /\ \A a \in Surveys : Source[a] \in Tasks => settled[Source[a]] # "pending"
            /\ task' = [t \in Tasks |->
                    IF \E a \in Stale : Source[a] = t
                    THEN TaskAfterHalt(CHOOSE a \in Stale : Source[a] = t)
                    ELSE IF task[t] = "running" THEN settled[t] ELSE task[t]]
    BY DEF Recover
  <1>2. task' \in [Tasks -> {"none", "pending", "running", "completed", "failed"}]
    BY <1>1, TransactionTypes DEF TypeOK
  <1>3. ASSUME NEW a \in Surveys, Source[a] \in Tasks, task[Source[a]] = "running"
        PROVE  task'[Source[a]] # "pending"
    <2> DEFINE b == CHOOSE b \in Stale : Source[b] = Source[a]
    <2>1. CASE \E x \in Stale : Source[x] = Source[a]
      <3>1. b \in Stale /\ Source[b] = Source[a]
        BY <2>1
      <3>2. b \in Surveys
        BY <1>3, <3>1 DEF Stale, ConstantsOK
      <3>3. task'[Source[a]] = TaskAfterHalt(b)
        BY <1>1, <1>3, <2>1
      <3> QED BY <3>2, <3>3 DEF TaskAfterHalt
    <2>2. CASE ~ \E x \in Stale : Source[x] = Source[a]
      BY <1>1, <1>3, <2>2
    <2> QED BY <2>1, <2>2
  <1> QED BY <1>2, <1>3, TransactionTypes DEF Recover, Stale, TypeOK

-----------------------------------------------------------------------------
(* Type correctness *)

LEMMA BaseInit == ConstantsOK /\ Init => Base
  <1> SUFFICES ASSUME ConstantsOK, Init PROVE Base
    OBVIOUS
  <1>1. TypeOK
    BY DEF Init, TypeOK
  <1>2. Engaged
    BY DEF Init, Engaged, Live
  <1> QED BY <1>1, <1>2 DEF Base

LEMMA CallerBase ==
    ASSUME ConstantsOK, Base, NEW c \in Callers, Caller(c) \/ CallerCancelled(c)
    PROVE  Base'
  <1> USE DEF Base, TypeOK, Engaged, stored, runnerVars, interrupterVars
  <1>1. CASE Enter(c)
    BY <1>1 DEF Enter
  <1>2. CASE CallerRecovers(c)
    BY <1>2, RecoverSettles DEF CallerRecovers
  <1>3. CASE Acquire(c)
    BY <1>3 DEF Acquire, Proceeds
  <1>4. CASE StillRunning(c)
    BY <1>4 DEF StillRunning, Leaves
  <1>5. CASE AlreadyRunning(c)
    BY <1>5 DEF AlreadyRunning, Leaves
  <1>6. CASE NoneRunning(c)
    BY <1>6 DEF NoneRunning, Proceeds
  <1>7. CASE Choose(c)
    BY <1>7 DEF Choose, Proceeds
  <1>8. CASE CommitStart(c)
    <2>1. task' \in [Tasks -> {"none", "pending", "running", "completed", "failed"}]
      BY <1>8, TransactionTypes DEF CommitStart
    <2>2. desire' \in [Desires -> {"pending", "active", "suppressed", "satisfied", "expired"}]
      BY <1>8 DEF CommitStart
    <2>3. act' \in [Activities -> {"none", "running", "completed", "incomplete",
                                   "paused", "abandoned"}]
      BY <1>8 DEF CommitStart
    <2> QED BY <1>8, <2>1, <2>2, <2>3 DEF CommitStart, Proceeds
  <1>9. CASE LosesClaim(c)
    BY <1>9 DEF LosesClaim, Leaves, Proceeds
  <1>10. CASE StartFails(c)
    BY <1>10 DEF StartFails, Leaves
  <1>11. CASE CreateRunner(c)
    <2>1. NewRunner \in Runners
      BY <1>11 DEF CreateRunner, NewRunner
    <2> QED BY <1>11, <2>1 DEF CreateRunner, Leaves, Live
  <1>12. CASE CallerCancelled(c)
    BY <1>12 DEF CallerCancelled, Leaves
  <1> QED BY <1>1, <1>2, <1>3, <1>4, <1>5, <1>6, <1>7, <1>8, <1>9, <1>10, <1>11, <1>12
      DEF Caller

LEMMA RunnerBase ==
    ASSUME ConstantsOK, Base, NEW r \in Runners, Runner(r)
    PROVE  Base'
  <1> USE DEF Base, TypeOK, Engaged, Live, stored, runnerVars, callerVars, interrupterVars
  <1>1. CASE Executed(r)
    BY <1>1 DEF Executed, Moves
  <1>2. CASE SaveCheckpoint(r)
    BY <1>2, TransactionTypes DEF SaveCheckpoint
  <1>3. CASE Complete(r)
    BY <1>3, TransactionTypes DEF Complete, Moves
  <1>4. CASE Fail(r)
    BY <1>4, TransactionTypes DEF Fail, Moves
  <1>5. CASE SettleFails(r)
    BY <1>5 DEF SettleFails, Moves
  <1>6. CASE RunnerRecovers(r)
    BY <1>6, RecoverSettles DEF RunnerRecovers, Moves
  <1>7. CASE Cancelled(r)
    BY <1>7 DEF Cancelled, Moves
  <1> QED BY <1>1, <1>2, <1>3, <1>4, <1>5, <1>6, <1>7 DEF Runner

LEMMA InterrupterBase ==
    ASSUME ConstantsOK, Base, NEW i \in Interrupters, Interrupter(i)
    PROVE  Base'
  <1> USE DEF Base, TypeOK, Engaged, stored, runnerVars, callerVars
  <1>1. CASE Interrupt(i)
    BY <1>1 DEF Interrupt, Stale
  <1>2. CASE CancelVictim(i)
    BY <1>2 DEF CancelVictim, Steps, IsLive
  <1>3. CASE VictimEnds(i)
    BY <1>3 DEF VictimEnds, Steps
  <1>4. CASE Reread(i)
    BY <1>4 DEF Reread, Steps
  <1>5. CASE MarkInterrupted(i)
    BY <1>5, TransactionTypes DEF MarkInterrupted, Steps
  <1>6. CASE InterruptFails(i)
    BY <1>6 DEF InterruptFails, Steps
  <1>7. CASE InterrupterRecovers(i)
    BY <1>7, RecoverSettles DEF InterrupterRecovers, Steps
  <1> QED BY <1>1, <1>2, <1>3, <1>4, <1>5, <1>6, <1>7 DEF Interrupter

LEMMA RestBase ==
    ASSUME ConstantsOK, Base,
           \/ \E a \in Activities : SettleDesire(a)
           \/ \E d \in Desires : Unsuppress(d)
           \/ \E t \in Tasks : Assign(t)
           \/ Quiesce \/ QuiesceRecovers \/ QuiesceTimesOut \/ StopEnds \/ StopFails
           \/ Crash \/ Restart
    PROVE  Base'
  <1> USE DEF Base, TypeOK, Engaged, stored, runnerVars, callerVars, interrupterVars
  <1>1. CASE \E a \in Activities : SettleDesire(a)
    BY <1>1 DEF SettleDesire
  <1>2. CASE \E d \in Desires : Unsuppress(d)
    BY <1>2 DEF Unsuppress
  <1>3. CASE \E t \in Tasks : Assign(t)
    BY <1>3 DEF Assign
  <1>4. CASE Quiesce
    BY <1>4 DEF Quiesce, IsLive
  <1>5. CASE QuiesceRecovers
    BY <1>5, RecoverSettles DEF QuiesceRecovers, StopGoesOn
  <1>6. CASE QuiesceTimesOut
    BY <1>6 DEF QuiesceTimesOut, StopGoesOn
  <1>7. CASE StopEnds
    BY <1>7 DEF StopEnds, StopGoesOn, StopOutcome
  <1>8. CASE StopFails
    BY <1>8 DEF StopFails, StopGoesOn
  <1>9. CASE Crash
    BY <1>9 DEF Crash, Down, Live
  <1>10. CASE Restart
    BY <1>10, RecoverSettles DEF Restart
  <1> QED BY <1>1, <1>2, <1>3, <1>4, <1>5, <1>6, <1>7, <1>8, <1>9, <1>10

LEMMA BaseStep == ConstantsOK /\ Base /\ [Next]_vars => Base'
  <1>1. CASE UNCHANGED vars
    BY <1>1 DEF Base, TypeOK, Engaged, vars, stored, runnerVars, callerVars, interrupterVars
  <1> QED BY <1>1, CallerBase, RunnerBase, InterrupterBase, RestBase DEF Next

-----------------------------------------------------------------------------
(* Desires and the activities they are held for *)

LEMMA OwnedCaller ==
    ASSUME ConstantsOK, Base, ActiveDesireOwned,
           NEW c \in Callers, Caller(c) \/ CallerCancelled(c)
    PROVE  ActiveDesireOwned'
  <1> USE DEF ActiveDesireOwned, stored
  <1>1. CASE CallerRecovers(c)
    BY <1>1, RecoverSettles DEF CallerRecovers, Base, Recover, Stale
  <1>2. CASE CommitStart(c)
    BY <1>2 DEF CommitStart, Proceeds, Base, TypeOK, Engaged
  <1>3. CASE UNCHANGED stored
    BY <1>3
  <1> QED BY <1>1, <1>2, <1>3 DEF Caller, Enter, Acquire, StillRunning, AlreadyRunning,
                                  NoneRunning, Choose, LosesClaim, StartFails, CreateRunner,
                                  CallerCancelled

LEMMA OwnedRunner ==
    ASSUME ConstantsOK, Base, ActiveDesireOwned, NEW r \in Runners, Runner(r)
    PROVE  ActiveDesireOwned'
  <1> USE DEF ActiveDesireOwned, Base, TypeOK, Engaged, stored, Live
  <1>1. CASE SaveCheckpoint(r)
    BY <1>1 DEF SaveCheckpoint
  <1>2. CASE Complete(r)
    BY <1>2 DEF Complete, Moves, Released
  <1>3. CASE Fail(r)
    BY <1>3 DEF Fail, Moves, Suppressed
  <1>4. CASE RunnerRecovers(r)
    BY <1>4, RecoverSettles DEF RunnerRecovers, Recover, Stale
  <1>5. CASE UNCHANGED stored
    BY <1>5
  <1> QED BY <1>1, <1>2, <1>3, <1>4, <1>5 DEF Runner, Executed, SettleFails, Cancelled

LEMMA OwnedInterrupter ==
    ASSUME ConstantsOK, Base, ActiveDesireOwned, NEW i \in Interrupters, Interrupter(i)
    PROVE  ActiveDesireOwned'
  <1> USE DEF ActiveDesireOwned, Base, TypeOK, Engaged, stored
  <1>1. CASE MarkInterrupted(i)
    BY <1>1 DEF MarkInterrupted, Steps, Suppressed
  <1>2. CASE InterrupterRecovers(i)
    BY <1>2, RecoverSettles DEF InterrupterRecovers, Recover, Stale
  <1>3. CASE UNCHANGED stored
    BY <1>3
  <1> QED BY <1>1, <1>2, <1>3 DEF Interrupter, Interrupt, CancelVictim, VictimEnds, Reread,
                                  InterruptFails

LEMMA OwnedRest ==
    ASSUME ConstantsOK, Base, ActiveDesireOwned,
           \/ \E a \in Activities : SettleDesire(a)
           \/ \E d \in Desires : Unsuppress(d)
           \/ \E t \in Tasks : Assign(t)
           \/ Quiesce \/ QuiesceRecovers \/ QuiesceTimesOut \/ StopEnds \/ StopFails
           \/ Crash \/ Restart
    PROVE  ActiveDesireOwned'
  <1> USE DEF ActiveDesireOwned, Base, TypeOK, stored
  <1>1. ASSUME NEW a \in Activities, SettleDesire(a)
        PROVE  ActiveDesireOwned'
    <2>1. ASSUME NEW d \in Desires, desire'[d] = "active"
          PROVE  desire[d] = "active" /\ (Source[a] = d => a \notin ended)
      BY <1>1, <2>1 DEF SettleDesire
    <2> QED BY <1>1, <2>1 DEF SettleDesire
  <1>2. CASE \E d \in Desires : Unsuppress(d)
    BY <1>2 DEF Unsuppress
  <1>3. CASE \E t \in Tasks : Assign(t)
    BY <1>3 DEF Assign
  <1>4. CASE QuiesceRecovers \/ Restart
    BY <1>4, RecoverSettles DEF QuiesceRecovers, Restart, Recover, Stale
  <1>5. CASE UNCHANGED stored
    BY <1>5
  <1> QED BY <1>1, <1>2, <1>3, <1>4, <1>5 DEF Quiesce, QuiesceTimesOut, StopEnds, StopFails,
                                            Crash, Down

LEMMA OwnedStep ==
    ConstantsOK /\ Base /\ ActiveDesireOwned /\ [Next]_vars => ActiveDesireOwned'
  <1>1. CASE UNCHANGED vars
    BY <1>1 DEF ActiveDesireOwned, vars, stored
  <1> QED BY <1>1, OwnedCaller, OwnedRunner, OwnedInterrupter, OwnedRest DEF Next

-----------------------------------------------------------------------------
(* Surveys *)

\* The transaction that hands a task back never hands a survey back.
LEMMA HaltedSurvey ==
    ASSUME ConstantsOK, NEW a \in Activities, NEW s \in Surveys,
           Source[s] \in Tasks, Source[a] = Source[s]
    PROVE  TaskAfterHalt(a) = "failed"
  BY DEF ConstantsOK, TaskAfterHalt

LEMMA SurveyStep ==
    ASSUME ConstantsOK, Base, [Next]_vars, NEW s \in Surveys,
           Source[s] \in Tasks, task[Source[s]] = "running"
    PROVE  task'[Source[s]] # "pending"
  <1> USE DEF Base, TypeOK, Engaged, stored
  <1>1. CASE Recover
    BY <1>1, RecoverSettles
  <1>2. CASE UNCHANGED task
    BY <1>2
  <1>3. ASSUME NEW c \in Callers, CommitStart(c)
        PROVE  task'[Source[s]] # "pending"
    BY <1>3 DEF CommitStart, WithTask
  <1>4. ASSUME NEW r \in Runners, SaveCheckpoint(r) \/ Complete(r) \/ Fail(r)
        PROVE  task'[Source[s]] # "pending"
    BY <1>4 DEF SaveCheckpoint, Complete, Fail, WithTask
  <1>5. ASSUME NEW i \in Interrupters, MarkInterrupted(i)
        PROVE  task'[Source[s]] # "pending"
    BY <1>5, HaltedSurvey DEF MarkInterrupted, Steps, WithTask
  <1>6. ASSUME NEW t \in Tasks, Assign(t)
        PROVE  task'[Source[s]] # "pending"
    BY <1>6 DEF Assign
  <1>7. CASE \E c \in Callers : Caller(c) \/ CallerCancelled(c)
    BY <1>1, <1>2, <1>3, <1>7
       DEF Caller, CallerRecovers, Enter, Acquire, StillRunning, AlreadyRunning, NoneRunning,
           Choose, LosesClaim, StartFails, CreateRunner, CallerCancelled
  <1>8. CASE \E r \in Runners : Runner(r)
    BY <1>1, <1>2, <1>4, <1>8 DEF Runner, RunnerRecovers, Executed, SettleFails, Cancelled
  <1>9. CASE \E i \in Interrupters : Interrupter(i)
    BY <1>1, <1>2, <1>5, <1>9
       DEF Interrupter, InterrupterRecovers, Interrupt, CancelVictim, VictimEnds, Reread,
           InterruptFails
  <1>10. CASE UNCHANGED vars
    BY <1>2, <1>10 DEF vars
  <1> QED BY <1>1, <1>2, <1>6, <1>7, <1>8, <1>9, <1>10
          DEF Next, SettleDesire, Unsuppress, Quiesce, QuiesceRecovers, QuiesceTimesOut,
              StopEnds, StopFails, Crash, Down, Restart

-----------------------------------------------------------------------------
(* The invariant, and the properties it implies *)

IInv == Base /\ ActiveDesireOwned

LEMMA Invariance == Spec => []IInv
  <1>1. Init => IInv
    BY ConstantsOK, BaseInit DEF IInv, Init, ActiveDesireOwned
  <1>2. IInv /\ [Next]_vars => IInv'
    BY ConstantsOK, BaseStep, OwnedStep DEF IInv
  <1> QED BY <1>1, <1>2, PTL DEF Spec

\* Every variable keeps its type through starts, runs, interrupts, stops and crashes.
THEOREM TypeCorrect == Spec => []TypeOK
  <1>1. IInv => TypeOK
    BY DEF IInv, Base
  <1> QED BY <1>1, Invariance, PTL

\* claim_for_activity, complete, fail, interrupt, recover_stale_running and the desire's
\* consumer keep an ACTIVE desire together with an activity, for any number of callers,
\* interrupters and runners.
THEOREM DesireOwned == Spec => []ActiveDesireOwned
  <1>1. IInv => ActiveDesireOwned
    BY DEF IInv
  <1> QED BY <1>1, Invariance, PTL

\* recover_stale_running, fail and interrupt never make a survey that was being answered
\* PENDING again.
THEOREM SurveyOnce == Spec => SurveyNotRedone
  <1>1. IInv /\ [Next]_vars =>
            [\A a \in Surveys : Source[a] \in Tasks /\ task[Source[a]] = "running"
                => task'[Source[a]] # "pending"]_vars
    BY ConstantsOK, SurveyStep DEF IInv
  <1> QED BY <1>1, Invariance, PTL DEF Spec, SurveyNotRedone
=============================================================================
