---------------------------- MODULE CharacterHost ----------------------------
(***************************************************************************)
(* The host of the characters (nyx/app_context.py _Host, nyx/runtime.py,   *)
(* the host routes of nyx/api/routes.py): starting, running, failing,      *)
(* unloading and restoring a character beside its HTTP requests, and the   *)
(* user's presence, which the host records once and hands to each          *)
(* character in order.                                                     *)
(*                                                                         *)
(* One character in full; the others show only in that one of them may be  *)
(* the selected one.  A transaction is one step.  The host's database and  *)
(* the character's are two: no step writes both.  A sample of the presence *)
(* is its sequence number.                                                 *)
(***************************************************************************)
EXTENDS Naturals, SequencesExt

CONSTANTS
    MaxSamples,   \* bound: samples observed
    MaxCommands,  \* bound: register, unload, restore, retry and select commands
    MaxRequests,  \* bound: HTTP requests to the character
    MaxFaults     \* bound: failures, crashes, and shutdowns

ASSUME ConstantsOK == {MaxSamples, MaxCommands, MaxRequests, MaxFaults} \subseteq Nat

Samples == 1..MaxSamples

VARIABLES
    \* durable, in the host's database
    status,    \* records[id].status; "none": not registered
    reset,     \* records[id].reset_presence
    baseline,  \* records[id].presence_baseline: its sequence, or 0
    selected,  \* selection.character_id names this character
    taken,     \* samples recorded so far
    accepted,  \* those newer than every one before (_presence_accepted)
    delivery,  \* presence_delivery.status of this character, by sequence
    \* durable, in the character's database
    log,       \* presence events in event_log, in order
    mark,      \* presence_checkpoint.sequence, or 0
    \* volatile
    host,      \* "up", "closing" or "down"
    starts,    \* a start of this character is scheduled
    op,        \* what holds operations[id], and where it stands
    app,       \* apps[id] exists and its database is open
    flush,     \* flush_presence under presence_locks[id]: [pc, s]
    loops,     \* the lifecycle task, run_character, with the workers of the bus
    request,   \* an HTTP request inside the character's application
    child,     \* a runner that app.activity._task names, or a background task of reading
    stray,     \* a runner that lives although the facade's handle no longer names it
    left       \* what is left of the bounds

records == <<status, reset, baseline, selected>>
presence == <<taken, accepted, delivery>>
own == <<log, mark>>
children == <<child, stray>>
tasks == <<flush, loops, request, children>>
vars == <<records, presence, own, host, starts, op, app, tasks, left>>

Starting == {"building", "basing", "current", "saving", "flushing", "publishing"}
Stopping == {"settling", "ending", "collecting", "closing"}
Idle == [by |-> "nobody", pc |-> "idle"]
NoFlush == [pc |-> "idle", s |-> 0]

\* What a stop can see of a running character.
Live == loops # "none" \/ request \/ child

TypeOK ==
    /\ status \in {"none", "STARTING", "RUNNING", "FAILED", "STOPPING", "ARCHIVED"}
    /\ reset \in BOOLEAN /\ selected \in BOOLEAN
    /\ baseline \in 0..taken
    /\ taken \in 0..MaxSamples
    /\ accepted \subseteq 1..taken
    /\ delivery \in [Samples -> {"none", "pending", "succeeded", "cancelled"}]
    /\ log \in Seq(accepted)
    /\ mark \in 0..taken
    /\ host \in {"up", "closing", "down"}
    /\ starts \in BOOLEAN /\ app \in BOOLEAN
    /\ \/ op = Idle
       \/ op.by = "start" /\ op.pc \in Starting
       \/ op.by = "unload" /\ op.pc \in Stopping \cup {"cancelling", "archiving"}
       \/ op.by = "retry" /\ op.pc \in Stopping
    /\ flush \in [pc : {"idle", "picking", "applying", "marking"}, s : 0..taken]
    /\ loops \in {"none", "running", "failing", "draining"}
    /\ request \in BOOLEAN /\ child \in BOOLEAN /\ stray \in BOOLEAN
    /\ status = "ARCHIVED" => ~ app /\ ~ Live
    /\ host = "down" => ~ app /\ ~ starts /\ op = Idle

Init ==
    /\ status = "none" /\ reset = FALSE /\ baseline = 0 /\ selected = FALSE
    /\ taken = 0 /\ accepted = {} /\ delivery = [s \in Samples |-> "none"]
    /\ log = <<>> /\ mark = 0
    /\ host = "up" /\ starts = FALSE /\ op = Idle /\ app = FALSE
    /\ flush = NoFlush /\ loops = "none" /\ request = FALSE
    /\ child = FALSE /\ stray = FALSE
    /\ left = [commands |-> MaxCommands, requests |-> MaxRequests, children |-> MaxRequests,
               faults |-> MaxFaults]

Spend(what) == left[what] > 0 /\ left' = [left EXCEPT ![what] = @ - 1]
Free == UNCHANGED left

Latest == IF accepted = {} THEN 0 ELSE CHOOSE s \in accepted : \A t \in accepted : t <= s
Pending == {s \in Samples : delivery[s] = "pending"}
Oldest == CHOOSE s \in Pending : \A t \in Pending : s <= t

At(by, pc) == op = [by |-> by, pc |-> pc]
Go(pc) == op' = [op EXCEPT !.pc = pc]

-----------------------------------------------------------------------------
(* The presence of the user *)

\* One ordered sample, late or not, and a row for the character unless it is gone.
Observe(late) ==
    /\ host = "up" /\ taken < MaxSamples
    /\ taken' = taken + 1
    /\ accepted' = IF late THEN accepted ELSE accepted \cup {taken + 1}
    /\ delivery' = IF status \in {"STARTING", "RUNNING", "FAILED"}
                   THEN [delivery EXCEPT ![taken + 1] = "pending"] ELSE delivery
    /\ UNCHANGED <<records, own, host, starts, op, app, tasks, left>>

\* apply_presence, in the character's database: one already behind the checkpoint changes
\* nothing; a late one moves only the checkpoint; an event is appended once.
Apply(s) ==
    /\ mark' = IF mark >= s THEN mark ELSE s
    /\ log' = IF mark >= s \/ s \notin accepted \/ \E i \in 1..Len(log) : log[i] = s
              THEN log ELSE Append(log, s)

\* The lock of the character is free, and nobody closes its database under it.
MayFlush == flush = NoFlush /\ ~ (op.by # "nobody" /\ op.pc = "closing")

\* By the presence loop, or by a chat request that waits for it.
BeginFlush ==
    /\ host = "up" /\ app /\ status = "RUNNING" /\ MayFlush /\ Pending # {}
    /\ flush' = [NoFlush EXCEPT !.pc = "picking"]
    /\ UNCHANGED <<records, presence, own, host, starts, op, app, loops, request, children, left>>

PickSample ==
    /\ flush.pc = "picking"
    /\ flush' = IF Pending = {} THEN NoFlush ELSE [pc |-> "applying", s |-> Oldest]
    /\ UNCHANGED <<records, presence, own, host, starts, op, app, loops, request, children, left>>

ApplySample ==
    /\ flush.pc = "applying"
    /\ Apply(flush.s)
    /\ flush' = [flush EXCEPT !.pc = "marking"]
    /\ UNCHANGED <<records, presence, host, starts, op, app, loops, request, children, left>>

MarkDelivered ==
    /\ flush.pc = "marking"
    /\ delivery' = [delivery EXCEPT ![flush.s] = "succeeded"]
    /\ flush' = [NoFlush EXCEPT !.pc = "picking"]
    /\ UNCHANGED <<records, taken, accepted, own, host, starts, op, app, loops, request, children,
                   left>>

\* The sample stays pending behind a backoff; or the flush of a closing host is cancelled.
FlushFails ==
    /\ flush.pc \in {"applying", "marking"}
    /\ IF host = "up" THEN Spend("faults") ELSE Free
    /\ flush' = NoFlush
    /\ UNCHANGED <<records, presence, own, host, starts, op, app, loops, request, children>>

Flush == PickSample \/ ApplySample \/ MarkDelivered

-----------------------------------------------------------------------------
(* Starting *)

Command == host = "up" /\ Spend("commands")

\* The slot is reserved before the card is installed; a failed installation keeps it.
Register(installed) ==
    /\ status = "none"
    /\ Command
    /\ status' = IF installed THEN "STARTING" ELSE "FAILED"
    /\ starts' = installed
    /\ UNCHANGED <<reset, baseline, selected, presence, own, host, op, app, tasks>>

\* A scheduled start takes its turn; it is refused unless the old instance has gone.
BeginStart ==
    /\ starts /\ op = Idle
    /\ starts' = FALSE
    /\ IF status \in {"STARTING", "FAILED", "RUNNING"} /\ ~ app /\ loops = "none"
       THEN status' = "STARTING" /\ op' = [by |-> "start", pc |-> "building"]
       ELSE UNCHANGED <<status, op>>
    /\ UNCHANGED <<reset, baseline, selected, presence, own, host, app, tasks, left>>

\* build_app_context and subscribe: the character's database is open.
Build ==
    /\ At("start", "building")
    /\ app' = TRUE
    /\ Go(IF Latest = 0 THEN "publishing" ELSE IF reset THEN "basing" ELSE "current")
    /\ UNCHANGED <<records, presence, own, host, starts, tasks, left>>

\* A restored character begins from the presence at its restoration, not from its old one.
TakeBaseline ==
    /\ At("start", "basing")
    /\ mark' = baseline
    /\ Go("current")
    /\ UNCHANGED <<records, presence, log, host, starts, app, tasks, left>>

\* (wrong on purpose) The latest sample is applied although older ones are on their way.
ApplyLatestAtOnce ==
    /\ At("start", "current")
    /\ IF mark = 0 THEN Apply(Latest) ELSE UNCHANGED own
    /\ Go("saving")
    /\ UNCHANGED <<records, presence, host, starts, app, tasks, left>>

\* Without a checkpoint, and with nothing on its way, the latest sample is applied.
ApplyLatest ==
    /\ At("start", "current")
    /\ IF mark = 0 /\ Pending = {} THEN Apply(Latest) ELSE UNCHANGED own
    /\ Go("saving")
    /\ UNCHANGED <<records, presence, host, starts, app, tasks, left>>

\* The baseline is used up; what is pending is flushed before the character runs.
SaveBaseline ==
    /\ At("start", "saving") /\ MayFlush
    /\ reset' = FALSE /\ baseline' = 0
    /\ flush' = [NoFlush EXCEPT !.pc = "picking"]
    /\ Go("flushing")
    /\ UNCHANGED <<status, selected, presence, own, host, starts, app, loops, request, children,
                   left>>

Flushed ==
    /\ At("start", "flushing") /\ flush = NoFlush
    /\ Go("publishing")
    /\ UNCHANGED <<records, presence, own, host, starts, app, tasks, left>>

\* RUNNING is saved, and the supervised loops begin.
Activate ==
    /\ At("start", "publishing")
    /\ status' = "RUNNING"
    /\ loops' = "running"
    /\ op' = Idle
    /\ UNCHANGED <<reset, baseline, selected, presence, own, host, starts, app, flush, request,
                   children, left>>

\* Any error: the database is closed again and the slot is kept.  The start uses the
\* baseline up when it has taken it.
StartFails ==
    /\ op.by = "start" /\ flush = NoFlush
    /\ IF host = "up" THEN Spend("faults") ELSE Free
    /\ app' = FALSE
    /\ status' = "FAILED"
    /\ IF op.pc \in {"current", "saving"}
       THEN reset' = FALSE /\ baseline' = 0 ELSE UNCHANGED <<reset, baseline>>
    /\ op' = Idle
    /\ UNCHANGED <<selected, presence, own, host, starts, tasks>>

Start ==
    \/ BeginStart \/ Build \/ TakeBaseline \/ ApplyLatest \/ SaveBaseline \/ Flushed \/ Activate

-----------------------------------------------------------------------------
(* Running *)

\* Persisted before the foreground changes; only what runs can be selected.
Select(this) ==
    /\ selected # this
    /\ this => status = "RUNNING"
    /\ Command
    /\ selected' = this
    /\ UNCHANGED <<status, reset, baseline, presence, own, host, starts, op, app, tasks>>

\* dispatch: the status is checked and the request registered without an await between.
AdmitRequest ==
    /\ host = "up" /\ status = "RUNNING" /\ app /\ ~ request
    /\ Spend("requests")
    /\ request' = TRUE
    /\ UNCHANGED <<records, presence, own, host, starts, op, app, flush, loops, children>>

\* What was admitted, by a request or by the bus, may leave work behind.
SpawnChild ==
    /\ ~ child /\ (request \/ loops \in {"running", "draining"})
    /\ Spend("children")
    /\ child' = TRUE
    /\ UNCHANGED <<records, presence, own, host, starts, op, app, flush, loops, request, stray>>

\* _maybe_start_activity writes an older handle over that of the runner: nobody cancels
\* the runner or waits for it any more (finding 2).
LoseHandle ==
    /\ child /\ ~ stray /\ (request \/ loops \in {"running", "draining"})
    /\ child' = FALSE /\ stray' = TRUE
    /\ UNCHANGED <<records, presence, own, host, starts, op, app, flush, loops, request, left>>

RequestEnds ==
    /\ request
    /\ request' = FALSE
    /\ UNCHANGED <<records, presence, own, host, starts, op, app, flush, loops, children, left>>

ChildEnds ==
    /\ child
    /\ child' = FALSE
    /\ UNCHANGED <<records, presence, own, host, starts, op, app, flush, loops, request, stray,
                   left>>

StrayEnds ==
    /\ stray
    /\ stray' = FALSE
    /\ UNCHANGED <<records, presence, own, host, starts, op, app, flush, loops, request, child,
                   left>>

\* run_character: a loop ends with an error; RUNNING is read now and FAILED saved later.
LoopsFail ==
    /\ loops = "running" /\ status = "RUNNING" /\ host = "up"
    /\ Spend("faults")
    /\ loops' = "failing"
    /\ UNCHANGED <<records, presence, own, host, starts, op, app, flush, request, children>>

SaveFailed ==
    /\ loops = "failing"
    /\ loops' = "none"
    /\ status' = "FAILED"
    /\ UNCHANGED <<reset, baseline, selected, presence, own, host, starts, op, app, flush,
                   request, children, left>>

-----------------------------------------------------------------------------
(* Stopping *)

\* (wrong on purpose) Nobody comes back to an unload that timed out.
UnloadOnce ==
    /\ op = Idle /\ status \notin {"none", "ARCHIVED"}
    /\ \/ host = "up" /\ ~ selected /\ status # "STOPPING" /\ Command /\ status' = "STOPPING"
       \/ host = "closing" /\ app /\ Free /\ UNCHANGED status
    /\ op' = [by |-> "unload", pc |-> IF app THEN "settling" ELSE "cancelling"]
    /\ UNCHANGED <<reset, baseline, selected, presence, own, host, starts, app, tasks>>

\* _unload: refused for the selected character, unless the host itself closes.  Then the
\* status stays, so that the character runs again with the next host.
Unload ==
    /\ op = Idle /\ status \notin {"none", "ARCHIVED"}
    /\ \/ host = "up" /\ ~ selected /\ status # "STOPPING" /\ Command /\ status' = "STOPPING"
       \/ host = "up" /\ ~ selected /\ status = "STOPPING" /\ Free /\ UNCHANGED status
       \/ host = "closing" /\ app /\ Free /\ UNCHANGED status
    /\ op' = [by |-> "unload", pc |-> IF app THEN "settling" ELSE "cancelling"]
    /\ UNCHANGED <<reset, baseline, selected, presence, own, host, starts, app, tasks>>

\* retry_start: what is left of a failed instance is stopped first.
RetryStart ==
    /\ op = Idle /\ status = "FAILED"
    /\ Command
    /\ IF app THEN op' = [by |-> "retry", pc |-> "settling"] /\ UNCHANGED <<status, starts>>
       ELSE status' = "STARTING" /\ starts' = TRUE /\ UNCHANGED op
    /\ UNCHANGED <<reset, baseline, selected, presence, own, host, app, tasks>>

\* (wrong on purpose) What the loops created while they ended is not collected.
StopOnce ==
    /\ \/ /\ op.pc = "settling" /\ ~ request /\ ~ child
          /\ Go("ending")
          /\ loops' = IF loops = "running" THEN "draining" ELSE loops
       \/ op.pc = "ending" /\ loops = "none" /\ Go("closing") /\ UNCHANGED loops
    /\ UNCHANGED <<records, presence, own, host, starts, app, flush, request, children, left>>

\* stop_character: admitted requests and their children first, then the bus drains, the
\* loops end, and what they created meanwhile is collected.  Of the activity's runners it
\* sees only the one that the facade's handle names.
Stop ==
    /\ \/ /\ op.pc = "settling" /\ ~ request /\ ~ child
          /\ Go("ending")
          /\ loops' = IF loops = "running" THEN "draining" ELSE loops
       \/ op.pc = "ending" /\ loops = "none" /\ Go("collecting") /\ UNCHANGED loops
       \/ op.pc = "collecting" /\ ~ child /\ Go("closing") /\ UNCHANGED loops
    /\ UNCHANGED <<records, presence, own, host, starts, app, flush, request, children, left>>

\* The bus, closed to new events, empties; the cancelled loops and handlers unwind, also
\* after the stop that asked for it has given up.
LoopsEnd ==
    /\ loops = "draining"
    /\ loops' = "none"
    /\ UNCHANGED <<records, presence, own, host, starts, op, app, flush, request, children, left>>

\* A writer that outlives its grace: the database stays open, and a stop that must come to
\* an end (STOPPING) is tried again by the presence loop.
StopTimesOut ==
    /\ \/ op.pc = "settling" /\ (request \/ child)
       \/ op.pc = "ending" /\ loops = "draining"
       \/ op.pc = "collecting" /\ child
       \/ op.by = "unload" /\ op.pc = "closing" /\ flush # NoFlush
    /\ status' = IF op.by = "unload" /\ host = "up" THEN "STOPPING" ELSE status
    /\ op' = Idle
    /\ UNCHANGED <<reset, baseline, selected, presence, own, host, starts, app, tasks, left>>

\* No sample is being applied: the database is closed and the instance forgotten.
CloseDatabase ==
    /\ op.pc = "closing" /\ flush = NoFlush
    /\ app' = FALSE
    /\ IF op.by = "retry"
       THEN status' = "STARTING" /\ starts' = TRUE /\ op' = Idle
       ELSE /\ IF host = "up" \/ status = "STOPPING" THEN Go("cancelling") ELSE op' = Idle
            /\ UNCHANGED <<status, starts>>
    /\ UNCHANGED <<reset, baseline, selected, presence, own, host, tasks, left>>

CancelPresence ==
    /\ At("unload", "cancelling")
    /\ delivery' = [s \in Samples |-> IF s \in Pending THEN "cancelled" ELSE delivery[s]]
    /\ Go("archiving")
    /\ UNCHANGED <<records, taken, accepted, own, host, starts, app, tasks, left>>

Archive ==
    /\ At("unload", "archiving")
    /\ status' = "ARCHIVED"
    /\ op' = Idle
    /\ UNCHANGED <<reset, baseline, selected, presence, own, host, starts, app, tasks, left>>

\* The presence at the restoration becomes the baseline of the next start.
Restore ==
    /\ status = "ARCHIVED"
    /\ Command
    /\ status' = "STARTING" /\ starts' = TRUE
    /\ reset' = TRUE /\ baseline' = Latest
    /\ UNCHANGED <<selected, presence, own, host, op, app, tasks>>

UnloadStep == Stop \/ CloseDatabase \/ CancelPresence \/ Archive

-----------------------------------------------------------------------------
(* The host *)

\* Background starts are cancelled, and each instance is unloaded with its status kept.
Close ==
    /\ host = "up"
    /\ Spend("faults")
    /\ host' = "closing"
    /\ starts' = FALSE
    /\ UNCHANGED <<records, presence, own, op, app, tasks>>

\* (wrong on purpose) The host is down after one round of stops, whether they succeeded or not.
ClosedAnyway ==
    /\ host = "closing" /\ op = Idle
    /\ host' = "down"
    /\ starts' = FALSE
    /\ UNCHANGED <<records, presence, own, op, app, tasks, left>>

\* Every instance has stopped, however often that had to be tried.
Closed ==
    /\ host = "closing" /\ ~ app /\ op = Idle
    /\ host' = "down"
    /\ starts' = FALSE
    /\ UNCHANGED <<records, presence, own, op, app, tasks, left>>

\* The process dies: everything volatile is gone.
Crash ==
    /\ host # "down"
    /\ Spend("faults")
    /\ host' = "down" /\ starts' = FALSE /\ op' = Idle /\ app' = FALSE
    /\ flush' = NoFlush /\ loops' = "none" /\ request' = FALSE /\ child' = FALSE
    /\ stray' = FALSE
    /\ UNCHANGED <<records, presence, own>>

\* _Host.open: an interrupted unload is complete, for nothing runs; whatever else is
\* registered starts.
Open ==
    /\ host = "down"
    /\ host' = "up"
    /\ IF status = "STOPPING"
       THEN /\ status' = "ARCHIVED"
            /\ delivery' = [s \in Samples |-> IF s \in Pending THEN "cancelled" ELSE delivery[s]]
            /\ UNCHANGED starts
       ELSE /\ starts' = (status \notin {"none", "ARCHIVED"})
            /\ UNCHANGED <<status, delivery>>
    /\ UNCHANGED <<reset, baseline, selected, taken, accepted, own, op, app, tasks, left>>

Next ==
    \/ \E late \in BOOLEAN : Observe(late)
    \/ BeginFlush \/ Flush \/ FlushFails
    \/ \E installed \in BOOLEAN : Register(installed)
    \/ Start \/ StartFails
    \/ \E this \in BOOLEAN : Select(this)
    \/ AdmitRequest \/ SpawnChild \/ LoseHandle \/ RequestEnds \/ ChildEnds \/ StrayEnds
    \/ LoopsFail \/ SaveFailed
    \/ LoopsEnd
    \/ Unload \/ RetryStart \/ UnloadStep \/ StopTimesOut \/ Restore
    \/ Close \/ Closed \/ Crash \/ Open

Spec == Init /\ [][Next]_vars

\* A step of a coroutine that is not waiting is taken; what was admitted ends; the presence
\* loop comes back to an unfinished unload, and a host that is down is started again.
Fairness ==
    /\ WF_vars(Flush) /\ WF_vars(Start) /\ WF_vars(RequestEnds) /\ WF_vars(ChildEnds)
    /\ WF_vars(SaveFailed \/ LoopsEnd) /\ WF_vars(UnloadStep) /\ WF_vars(Closed) /\ WF_vars(Open)
    /\ WF_vars(Unload /\ Free)

FairSpec == Spec /\ Fairness

-----------------------------------------------------------------------------
(* Properties *)

\* The database of a character is open as long as anything that the stop waits for uses it:
\* a request, a loop of the runtime, a sample being applied, a background task of reading,
\* the runner that the activity facade's handle names.  A runner that lost its handle
\* (stray) is not waited for and may go on with a closed database.
NoUseAfterClose == Live \/ flush # NoFlush => app

\* The character sees the presence in the order it was observed: what is appended is newer
\* than everything before, and the checkpoint passes no sample that still waits (apply_presence
\* would drop it as a repetition), unless a restoration starts from its baseline.
PresenceInOrder ==
    [][/\ log' # log => \A i \in 1..Len(log) : log[i] < Last(log')
       /\ op.pc # "basing" =>
            \A s \in Pending \cap accepted : mark < s /\ s <= mark' => s \in Range(log')]_vars

\* An unload that was accepted comes to its end, over timeouts, a closing host and crashes;
\* but a failure of the loops that was read before it and is saved after it replaces STOPPING
\* by FAILED, and a crash then starts the character again.
StoppingSettles == status = "STOPPING" /\ loops # "failing" ~> status = "ARCHIVED"
=============================================================================
