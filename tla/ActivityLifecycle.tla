-------------------------- MODULE ActivityLifecycle --------------------------
(***************************************************************************)
(* One character's activities (nyx/activity): the callers that start the   *)
(* next activity, the background runners, the requests that interrupt one, *)
(* the stop of the character, crashes and restarts, and what they do to    *)
(* the desire or the assigned task an activity was started for.            *)
(*                                                                         *)
(* A transaction is one step; whatever the code does between two awaits is *)
(* one step.  An activity that is only PENDING is never stored.            *)
(***************************************************************************)
EXTENDS Naturals, FiniteSets

CONSTANTS
    Activities,    \* activity ids
    Desires,       \* short-term desires
    Tasks,         \* assigned tasks
    Source,        \* Source[a]: the desire or task a is started for, or None
    Resumable,     \* READING, CREATION, FREE_EXPLORATION
    Surveys,       \* BROWSER_SURVEY: never redone
    Callers,       \* coroutines that call _maybe_start_activity
    Interrupters,  \* coroutines that call interrupt
    Runners,       \* asyncio tasks of runners, each used once: bounds the starts
    Faults,        \* which of "stop", "crash" and "bus" (EventBus.run fails) may happen:
                   \* bounds the environment
    None

ASSUME ConstantsOK ==
    /\ None \notin Activities \cup Desires \cup Tasks \cup Runners
    /\ Desires \cap Tasks = {}
    /\ Source \in [Activities -> Desires \cup Tasks \cup {None}]
    /\ Resumable \subseteq Activities
    /\ Surveys \subseteq Activities
    /\ \A a, b \in Activities :       \* the task decides that it is a survey
        Source[a] \in Tasks /\ Source[a] = Source[b] => (a \in Surveys <=> b \in Surveys)

VARIABLES
    \* durable
    act,         \* activity.status
    desire,      \* short_term_desire.status
    task,        \* assigned_task.status
    ended,       \* activities whose ACTIVITY_END the desire consumer has not applied
                 \* (still to be delivered, or a dead letter)
    \* volatile
    up,          \* the character is loaded
    handle,      \* ActivityFacade._task
    quiescing,   \* ActivityFacade._quiescing
    rpc,         \* where runner r stands
    ract,        \* the activity runner r executes
    cancelling,  \* runners whose cancel() was called
    cpc,         \* where caller c stands
    passed,      \* passed[c]: the runner c passed to start_next_if_idle
    started,     \* started[c]: the activity c has chosen to start, or has started
    ipc,         \* where interrupter i stands
    target,      \* target[i]: the activity i interrupts
    victim,      \* victim[i]: the runner i cancels
    stop         \* where stop_character stands

stored == <<act, desire, task, ended>>
runnerVars == <<rpc, ract, cancelling>>
callerVars == <<cpc, passed, started>>
interrupterVars == <<ipc, target, victim>>
vars == <<stored, up, handle, quiescing, runnerVars, callerVars, interrupterVars, stop>>

Live == {"working", "completing", "failing", "recovering"}

\* task is not None and not task.done()
IsLive(r) == r # None /\ rpc[r] \in Live

\* Loaded, and its event consumers not yet stopped.
Serving == up /\ stop # "stopped"

Executing(a) == \E r \in Runners : ract[r] = a /\ rpc[r] \in Live

TypeOK ==
    /\ act \in [Activities -> {"none", "running", "completed", "incomplete",
                               "paused", "abandoned"}]
    /\ desire \in [Desires -> {"pending", "active", "suppressed", "satisfied", "expired"}]
    /\ task \in [Tasks -> {"none", "pending", "running", "completed", "failed"}]
    /\ ended \subseteq Activities
    /\ up \in BOOLEAN
    /\ handle \in Runners \cup {None}
    /\ quiescing \in BOOLEAN
    /\ rpc \in [Runners -> {"unused", "done"} \cup Live]
    /\ ract \in [Runners -> Activities \cup {None}]
    /\ cancelling \subseteq Runners
    /\ cpc \in [Callers -> {"idle", "recovering", "waiting", "locked", "choosing",
                         "chosen", "committed"}]
    /\ passed \in [Callers -> Runners \cup {None}]
    /\ started \in [Callers -> Activities \cup {None}]
    /\ ipc \in [Interrupters -> {"idle", "cancelling", "awaiting", "rereading", "marking",
                              "recovering"}]
    /\ target \in [Interrupters -> Activities \cup {None}]
    /\ victim \in [Interrupters -> Runners \cup {None}]
    /\ stop \in {"no", "first", "drain", "second", "children", "stopped"}

Init ==
    /\ act = [a \in Activities |-> "none"]
    /\ desire = [d \in Desires |-> "pending"]
    /\ task = [t \in Tasks |-> "none"]
    /\ ended = {}
    /\ up = TRUE
    /\ handle = None
    /\ quiescing = FALSE
    /\ rpc = [r \in Runners |-> "unused"]
    /\ ract = [r \in Runners |-> None]
    /\ cancelling = {}
    /\ cpc = [c \in Callers |-> "idle"]
    /\ passed = [c \in Callers |-> None]
    /\ started = [c \in Callers |-> None]
    /\ ipc = [i \in Interrupters |-> "idle"]
    /\ target = [i \in Interrupters |-> None]
    /\ victim = [i \in Interrupters |-> None]
    /\ stop = "no"

-----------------------------------------------------------------------------
(* Transactions on activities, desires and tasks *)

\* (wrong on purpose) the desire stays with the activity that was halted
SuppressedNever(s) == desire

\* mark_suppressed: ACTIVE -> SUPPRESSED, any other status stays.
Suppressed(s) ==
    [d \in Desires |-> IF d = s /\ desire[d] = "active" THEN "suppressed" ELSE desire[d]]

\* release_active: ACTIVE -> PENDING.
Released(s) ==
    [d \in Desires |-> IF d = s /\ desire[d] = "active" THEN "pending" ELSE desire[d]]

WithTask(s, st) == [t \in Tasks |-> IF t = s THEN st ELSE task[t]]

Halted(a) == IF a \in Resumable THEN "paused" ELSE "abandoned"

\* (wrong on purpose) a survey whose browser session was cut off is handed back as well
TaskRedone(a) == "pending"

\* The task of an activity that did not finish: a survey is not redone.
TaskAfterHalt(a) == IF a \in Surveys THEN "failed" ELSE "pending"

Stale == {a \in Activities : act[a] = "running"}

\* recover_stale_running: every RUNNING activity is halted, its desire suppressed and
\* its task handed back; a task still RUNNING follows the last activity started for it.
Recover ==
    /\ act' = [a \in Activities |-> IF a \in Stale THEN Halted(a) ELSE act[a]]
    /\ desire' = [d \in Desires |->
                    IF desire[d] = "active" /\ \E a \in Stale : Source[a] = d
                    THEN "suppressed" ELSE desire[d]]
    /\ \E settled \in [Tasks -> {"completed", "failed", "pending"}] :
        /\ \A a \in Surveys : Source[a] \in Tasks => settled[Source[a]] # "pending"
        /\ task' = [t \in Tasks |->
                    IF \E a \in Stale : Source[a] = t
                    THEN TaskAfterHalt(CHOOSE a \in Stale : Source[a] = t)
                    ELSE IF task[t] = "running" THEN settled[t] ELSE task[t]]
    /\ UNCHANGED ended

-----------------------------------------------------------------------------
(* _maybe_start_activity and ActivityStarter.start_next_if_idle *)

\* (wrong on purpose) a finished runner is taken to have settled its activity
TrustsRunner == FALSE

\* The runner has ended: whatever it left RUNNING is settled first.
RunnerEnded == handle # None /\ ~ IsLive(handle)

Enter(c) ==
    /\ Serving /\ ~ quiescing
    /\ cpc[c] = "idle"
    /\ IF RunnerEnded
       THEN /\ cpc' = [cpc EXCEPT ![c] = "recovering"]
            /\ UNCHANGED passed
       ELSE /\ cpc' = [cpc EXCEPT ![c] = "waiting"]
            /\ passed' = [passed EXCEPT ![c] = handle]
    /\ UNCHANGED <<stored, up, handle, quiescing, runnerVars, started, interrupterVars, stop>>

CallerRecovers(c) ==
    /\ cpc[c] = "recovering"
    /\ Recover
    /\ cpc' = [cpc EXCEPT ![c] = "waiting"]
    /\ passed' = [passed EXCEPT ![c] = handle]
    /\ UNCHANGED <<up, handle, quiescing, runnerVars, started, interrupterVars, stop>>

Holding == {"locked", "choosing", "chosen", "committed"}

Leaves(c) ==
    /\ cpc' = [cpc EXCEPT ![c] = "idle"]
    /\ passed' = [passed EXCEPT ![c] = None]
    /\ started' = [started EXCEPT ![c] = None]
    /\ UNCHANGED <<up, quiescing, interrupterVars, stop>>

Proceeds(c, from, to) ==
    /\ cpc[c] = from
    /\ cpc' = [cpc EXCEPT ![c] = to]
    /\ UNCHANGED <<up, handle, quiescing, runnerVars, passed, interrupterVars, stop>>

\* async with self._lock; a live runner is returned as it was passed.
Acquire(c) ==
    /\ \A other \in Callers : cpc[other] \notin Holding
    /\ ~ IsLive(passed[c])
    /\ Proceeds(c, "waiting", "locked")
    /\ UNCHANGED <<stored, started>>

StillRunning(c) ==
    /\ cpc[c] = "waiting"
    /\ \A other \in Callers : cpc[other] \notin Holding
    /\ IsLive(passed[c])
    /\ handle' = passed[c]
    /\ Leaves(c)
    /\ UNCHANGED <<stored, runnerVars>>

\* get_current() is RUNNING: return current_task, which becomes _task.
AlreadyRunning(c) ==
    /\ cpc[c] = "locked"
    /\ Stale # {}
    /\ handle' = passed[c]
    /\ Leaves(c)
    /\ UNCHANGED <<stored, runnerVars>>

NoneRunning(c) ==
    /\ Stale = {}
    /\ Proceeds(c, "locked", "choosing")
    /\ UNCHANGED <<stored, started>>

\* A paused activity of this block goes first, then the oldest task, then a desire; a
\* tired or idle character rests or observes.
Choose(c) ==
    /\ Proceeds(c, "choosing", "chosen")
    /\ \E a \in Activities :
        /\ started' = [started EXCEPT ![c] = a]
        /\ \/ act[a] = "paused" /\ started[c] = None
           \/ /\ act[a] = "none"
              /\ Source[a] \in Tasks => task[Source[a]] = "pending"
              /\ Source[a] \in Desires => /\ desire[Source[a]] = "pending"
                                         /\ \A t \in Tasks : task[t] # "pending"
    /\ UNCHANGED stored

\* The claim of the source: a new activity takes a PENDING desire, a resumed one its
\* SUPPRESSED desire, and both a PENDING task.
Claimable(a) ==
    /\ Source[a] \in Desires =>
        desire[Source[a]] = IF act[a] = "none" THEN "pending" ELSE "suppressed"
    /\ Source[a] \in Tasks => task[Source[a]] = "pending"

\* ActivityLifecycle.start: claim, RUNNING and ACTIVITY_START in one transaction.
CommitStart(c) ==
    LET a == started[c] IN
    /\ Proceeds(c, "chosen", "committed")
    /\ Claimable(a)
    /\ \E r \in Runners : rpc[r] = "unused"   \* bound
    /\ act' = [act EXCEPT ![a] = "running"]
    /\ desire' = [d \in Desires |-> IF d = Source[a] THEN "active" ELSE desire[d]]
    /\ task' = WithTask(Source[a], "running")
    /\ UNCHANGED <<ended, started>>

\* The source was claimed by someone else: a new activity is given up, after a paused
\* one the starter goes on to the next.
LosesClaim(c) ==
    /\ cpc[c] = "chosen"
    /\ ~ Claimable(started[c])
    /\ \/ /\ act[started[c]] = "none"
          /\ handle' = None
          /\ Leaves(c)
          /\ UNCHANGED runnerVars
       \/ act[started[c]] # "none" /\ Proceeds(c, "chosen", "choosing") /\ UNCHANGED started
    /\ UNCHANGED stored

\* A read or the transaction fails, and the caller with it.
StartFails(c) ==
    /\ cpc[c] \in {"locked", "choosing", "chosen"}
    /\ Leaves(c)
    /\ UNCHANGED <<stored, handle, runnerVars>>

NewRunner == CHOOSE r \in Runners : rpc[r] = "unused"

\* After announce_committed: create the runner, release the lock, keep the handle.
CreateRunner(c) ==
    /\ cpc[c] = "committed"
    /\ \E r \in Runners : rpc[r] = "unused"
    /\ rpc' = [rpc EXCEPT ![NewRunner] = "working"]
    /\ ract' = [ract EXCEPT ![NewRunner] = started[c]]
    /\ handle' = NewRunner
    /\ Leaves(c)
    /\ UNCHANGED <<stored, cancelling>>

\* EventBus.run fails and cancels its workers, each at the await its handler stands at.
BusFails == "bus" \in Faults

\* A handler is cancelled with the bus, a request that outlasts the stop by the stop.
\* Between the commit and the runner (the await of announce_committed) this leaves the
\* row RUNNING with nobody to execute it, and the handle as it was.
CallerCancelled(c) ==
    /\ BusFails \/ stop = "drain"
    /\ cpc[c] # "idle"
    /\ Leaves(c)
    /\ UNCHANGED <<stored, handle, runnerVars>>

-----------------------------------------------------------------------------
(* ActivityFacade._execute *)

Moves(r, from, to) ==
    /\ rpc[r] = from
    /\ rpc' = [rpc EXCEPT ![r] = to]
    /\ ract' = IF to = "done" THEN [ract EXCEPT ![r] = None] ELSE ract
    /\ cancelling' = IF to = "done" THEN cancelling \ {r} ELSE cancelling
    /\ UNCHANGED <<up, handle, quiescing, callerVars, interrupterVars, stop>>

\* The runner has its result, or its error.
Executed(r) ==
    /\ \E to \in {"completing", "failing"} : Moves(r, "working", to)
    /\ UNCHANGED stored

\* A checkpoint writes the whole row back as the runner knows it, status RUNNING: the
\* activity's (creation, exploration) or the task's (web page, survey).
SaveCheckpoint(r) ==
    /\ rpc[r] = "working"
    /\ \/ /\ ract[r] \in Resumable
          /\ act' = [act EXCEPT ![ract[r]] = "running"]
          /\ UNCHANGED task
       \/ /\ task' = WithTask(Source[ract[r]], "running")
          /\ UNCHANGED act
    /\ UNCHANGED <<desire, ended, up, handle, quiescing, runnerVars, callerVars,
                   interrupterVars, stop>>

\* complete: COMPLETED, the task done, and ACTIVITY_END for the desire; progress that
\* settles nothing (goal_signal None) releases the desire at once.
Complete(r) ==
    LET a == ract[r] IN
    /\ Moves(r, "completing", "done")
    /\ act' = [act EXCEPT ![a] = "completed"]
    /\ task' = WithTask(Source[a], "completed")
    /\ \/ desire' = Released(Source[a]) /\ UNCHANGED ended
       \/ UNCHANGED desire /\ ended' = ended \cup {a}

\* fail: INCOMPLETE, the desire suppressed, the task failed.
Fail(r) ==
    LET a == ract[r] IN
    /\ Moves(r, "failing", "done")
    /\ act' = [act EXCEPT ![a] = "incomplete"]
    /\ desire' = Suppressed(Source[a])
    /\ task' = WithTask(Source[a], "failed")
    /\ UNCHANGED ended

\* That transaction fails, or is cancelled: _recover_after_lifecycle_error.
SettleFails(r) ==
    /\ \E from \in {"completing", "failing"} : Moves(r, from, "recovering")
    /\ UNCHANGED stored

RunnerRecovers(r) ==
    /\ Moves(r, "recovering", "done")
    /\ Recover \/ UNCHANGED stored

\* A cancelled runner that was still working ends and leaves its row RUNNING.
Cancelled(r) ==
    /\ r \in cancelling
    /\ Moves(r, "working", "done")
    /\ UNCHANGED stored

-----------------------------------------------------------------------------
(* ActivityLifecycle.interrupt *)

\* A user message or an initiative finds a RUNNING activity.
Interrupt(i) ==
    /\ Serving
    /\ ipc[i] = "idle"
    /\ \E a \in Stale \ Surveys : target' = [target EXCEPT ![i] = a]
    /\ victim' = [victim EXCEPT ![i] = handle]
    /\ ipc' = [ipc EXCEPT ![i] = "cancelling"]
    /\ UNCHANGED <<stored, up, handle, quiescing, runnerVars, callerVars, stop>>

Steps(i, from, to) ==
    /\ ipc[i] = from
    /\ ipc' = [ipc EXCEPT ![i] = to]
    /\ target' = IF to = "idle" THEN [target EXCEPT ![i] = None] ELSE target
    /\ victim' = IF to = "idle" THEN [victim EXCEPT ![i] = None] ELSE victim
    /\ UNCHANGED <<up, handle, quiescing, rpc, ract, callerVars, stop>>

\* cancel_activity_runner: no task, or a finished one, needs no cancelling.
CancelVictim(i) ==
    /\ \/ /\ IsLive(victim[i])
          /\ cancelling' = cancelling \cup {victim[i]}
          /\ Steps(i, "cancelling", "awaiting")
       \/ /\ ~ IsLive(victim[i])
          /\ Steps(i, "cancelling", "rereading") /\ UNCHANGED cancelling
    /\ UNCHANGED stored

\* The runner has ended, or five seconds have passed and the interrupt is given up.
VictimEnds(i) ==
    /\ Steps(i, "awaiting", IF IsLive(victim[i]) THEN "idle" ELSE "rereading")
    /\ UNCHANGED <<stored, cancelling>>

\* An activity that has settled meanwhile is left alone.
Reread(i) ==
    /\ Steps(i, "rereading", IF act[target[i]] = "running" THEN "marking" ELSE "idle")
    /\ UNCHANGED <<stored, cancelling>>

\* PAUSED or ABANDONED, in one transaction with the desire and the task.
MarkInterrupted(i) ==
    LET a == target[i] IN
    /\ Steps(i, "marking", "idle")
    /\ act' = [act EXCEPT ![a] = Halted(a)]
    /\ desire' = Suppressed(Source[a])
    /\ task' = WithTask(Source[a], TaskAfterHalt(a))
    /\ UNCHANGED <<ended, cancelling>>

\* A read or that transaction fails, or the bus cancels the handler: the facade recovers,
\* also when the runner has not ended, or fails again.
InterruptFails(i) ==
    /\ \/ \E from \in {"cancelling", "rereading", "marking"} : Steps(i, from, "recovering")
       \/ BusFails /\ Steps(i, "awaiting", "recovering")
    /\ UNCHANGED <<stored, cancelling>>

InterrupterRecovers(i) ==
    /\ Steps(i, "recovering", "idle")
    /\ Recover \/ UNCHANGED stored
    /\ UNCHANGED cancelling

-----------------------------------------------------------------------------
(* The desire's and the task's other transitions *)

\* desire.activity_end: the event settles the desire: satisfied, expired, or pending
\* again (partial progress, a failed attempt).
SettleDesire(a) ==
    /\ Serving
    /\ a \in ended
    /\ ended' = ended \ {a}
    /\ IF Source[a] \in Desires /\ desire[Source[a]] \notin {"satisfied", "expired"}
       THEN \E s \in {"satisfied", "expired",
                     IF desire[Source[a]] = "active" THEN "pending" ELSE desire[Source[a]]} :
                desire' = [desire EXCEPT ![Source[a]] = s]
       ELSE UNCHANGED desire
    /\ UNCHANGED <<act, task, up, handle, quiescing, runnerVars, callerVars,
                   interrupterVars, stop>>

\* run_eval: a suppressed desire becomes expressible again.
Unsuppress(d) ==
    /\ Serving
    /\ desire[d] = "suppressed"
    /\ desire' = [desire EXCEPT ![d] = "pending"]
    /\ UNCHANGED <<act, task, ended, up, handle, quiescing, runnerVars, callerVars,
                   interrupterVars, stop>>

\* create_task
Assign(t) ==
    /\ Serving
    /\ task[t] = "none"
    /\ task' = [task EXCEPT ![t] = "pending"]
    /\ UNCHANGED <<act, desire, ended, up, handle, quiescing, runnerVars, callerVars,
                   interrupterVars, stop>>

-----------------------------------------------------------------------------
(* stop_character, crash, restart *)

\* ActivityFacade.quiesce: nothing new is admitted, the runner is cancelled; the second
\* time once the callers and the event consumers have ended.
Quiesce ==
    /\ up
    /\ \/ stop = "no" /\ "stop" \in Faults /\ stop' = "first"
       \/ /\ stop = "drain" /\ stop' = "second"
          /\ \A c \in Callers : cpc[c] = "idle"
          /\ \A i \in Interrupters : ipc[i] = "idle"
    /\ quiescing' = TRUE
    /\ cancelling' = IF IsLive(handle) THEN cancelling \cup {handle} ELSE cancelling
    /\ UNCHANGED <<stored, up, handle, rpc, ract, callerVars, interrupterVars>>

StopGoesOn(from, to) ==
    /\ stop = from
    /\ stop' = to
    /\ UNCHANGED <<up, handle, quiescing, runnerVars, callerVars, interrupterVars>>

\* The runner it cancelled has ended: settle the leftovers.
QuiesceRecovers ==
    /\ ~ IsLive(handle)
    /\ StopGoesOn("first", "drain") \/ StopGoesOn("second", "children")
    /\ Recover

\* It has not within its time: nothing is settled yet, the stop goes on.
QuiesceTimesOut ==
    /\ IsLive(handle)
    /\ StopGoesOn("first", "drain") \/ StopGoesOn("second", "children")
    /\ UNCHANGED stored

\* A runner that outlasts its last chance makes the stop fail.
StopOutcome == IF IsLive(handle) THEN "no" ELSE "stopped"

StopEnds ==
    /\ StopGoesOn("children", StopOutcome)
    /\ UNCHANGED stored

\* The event consumers do not drain in time, or a background loop does not end.
StopFails ==
    /\ StopGoesOn("drain", "no")
    /\ UNCHANGED stored

\* The process ends, or unloads the character: every runner, caller and handle goes.
Down ==
    /\ up' = FALSE
    /\ handle' = None
    /\ quiescing' = FALSE
    /\ rpc' = [r \in Runners |-> IF rpc[r] = "unused" THEN "unused" ELSE "done"]
    /\ ract' = [r \in Runners |-> None]
    /\ cancelling' = {}
    /\ cpc' = [c \in Callers |-> "idle"]
    /\ passed' = [c \in Callers |-> None]
    /\ started' = [c \in Callers |-> None]
    /\ ipc' = [i \in Interrupters |-> "idle"]
    /\ target' = [i \in Interrupters |-> None]
    /\ victim' = [i \in Interrupters |-> None]
    /\ stop' = "no"
    /\ UNCHANGED stored

Crash == "crash" \in Faults /\ up /\ Down

\* The character is loaded again; its activity plugin recovers before anything runs.
Restart ==
    /\ ~ up
    /\ Recover
    /\ up' = TRUE
    /\ UNCHANGED <<handle, quiescing, runnerVars, callerVars, interrupterVars, stop>>

Caller(c) ==
    \/ Enter(c)
    \/ CallerRecovers(c)
    \/ Acquire(c)
    \/ StillRunning(c)
    \/ AlreadyRunning(c)
    \/ NoneRunning(c)
    \/ Choose(c)
    \/ CommitStart(c)
    \/ LosesClaim(c)
    \/ StartFails(c)
    \/ CreateRunner(c)

Runner(r) ==
    \/ Executed(r)
    \/ SaveCheckpoint(r)
    \/ Complete(r)
    \/ Fail(r)
    \/ SettleFails(r)
    \/ RunnerRecovers(r)
    \/ Cancelled(r)

Interrupter(i) ==
    \/ Interrupt(i)
    \/ CancelVictim(i)
    \/ VictimEnds(i)
    \/ Reread(i)
    \/ MarkInterrupted(i)
    \/ InterruptFails(i)
    \/ InterrupterRecovers(i)

Next ==
    \/ \E c \in Callers : Caller(c) \/ CallerCancelled(c)
    \/ \E r \in Runners : Runner(r)
    \/ \E i \in Interrupters : Interrupter(i)
    \/ \E a \in Activities : SettleDesire(a)
    \/ \E d \in Desires : Unsuppress(d)
    \/ \E t \in Tasks : Assign(t)
    \/ Quiesce
    \/ QuiesceRecovers
    \/ QuiesceTimesOut
    \/ StopEnds
    \/ StopFails
    \/ Crash
    \/ Restart

Spec == Init /\ [][Next]_vars

\* A caller takes its steps and the clock keeps calling; a bus that fails is started again
\* with a growing delay, so that a recovery begun over and over is completed once; a
\* runner's work ends (every model and tool call has a timeout) and what it then starts it
\* finishes.  Interrupts, stops, crashes and failures of the bus may happen or not.
LiveSpec ==
    /\ Spec
    /\ \A c \in Callers : WF_vars(Caller(c)) /\ SF_vars(CallerRecovers(c))
    /\ \A r \in Runners :
        WF_vars(Executed(r) \/ Complete(r) \/ Fail(r) \/ RunnerRecovers(r))

-----------------------------------------------------------------------------
(* Properties *)

\* A desire is held ACTIVE only while an activity started for it is RUNNING, or until
\* the end of one is applied to it: claim, start, end, failure, interrupt and recovery
\* keep the desire and the activity together, whoever interleaves with whom.
ActiveDesireOwned ==
    \A d \in Desires : desire[d] = "active" =>
        \E a \in Activities : Source[a] = d /\ (act[a] = "running" \/ a \in ended)

\* One character runs one activity: two runners are never alive at once.
OneRunner ==
    \A r, q \in Runners : rpc[r] \in Live /\ rpc[q] \in Live => r = q

\* A questionnaire that was being answered is never handed out to be answered again,
\* whether its runner fails, is cut off by a stop or dies with the process.
SurveyNotRedone ==
    [][\A a \in Surveys : Source[a] \in Tasks /\ task[Source[a]] = "running"
        => task'[Source[a]] # "pending"]_vars

\* An activity, or a task, that is RUNNING while nobody executes it is settled, as long as
\* the character is loaded, admits activities and still has the handle of a runner: a
\* caller recovers only when that runner has ended.  Without a handle (the caller that
\* committed the start was cancelled before it created the first runner, or another wrote
\* an older None back) nobody recovers before a restart or an interrupt.
ActivityOrphaned(a) == act[a] = "running" /\ ~ Executing(a) /\ up /\ ~ quiescing

TaskOrphaned(t) ==
    /\ task[t] = "running" /\ up /\ ~ quiescing
    /\ \A a \in Activities : Source[a] = t => ~ Executing(a)

OrphansReconciled ==
    /\ \A a \in Activities : ActivityOrphaned(a) ~> ~ ActivityOrphaned(a) \/ handle = None
    /\ \A t \in Tasks : TaskOrphaned(t) ~> ~ TaskOrphaned(t) \/ handle = None
=============================================================================
