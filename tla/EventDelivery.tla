--------------------------- MODULE EventDelivery ---------------------------
(***************************************************************************)
(* The durable event bus (nyx/events/bus.py) with its supervisor and the   *)
(* stop and restart of the character that owns it (nyx/runtime.py).        *)
(*                                                                         *)
(* Durable state is what SQLite keeps: the log (seq), one delivery row per *)
(* (event, consumer) and the effect markers.  Everything else belongs to a *)
(* running process and is lost in a crash.  Every action is one            *)
(* transaction under the database lock, or one step of a worker between    *)
(* two awaits.                                                             *)
(***************************************************************************)
EXTENDS Naturals, FiniteSets

CONSTANTS
    Events,         \* event identities
    Consumers,      \* consumer identities
    NoEvent,        \* no event
    Route,          \* Route[e]: consumers routes_for_event returns for e
    Internal,       \* events whose source is INTERNAL: published while quiescing
    Stamp,          \* Stamp[e]: order of (timestamp, id), known before admission
    SeqOrdered,     \* consumers claimed in event_seq order: expression.user_message
    Transactional,  \* consumers that mark their effect in their own transaction
    Follow,         \* Follow[e, c]: event a transactional handler appends, or NoEvent
    MaxAttempts,    \* RouteSpec.max_attempts
    FirstHandlers,  \* consumers the first release registers
    MaxRuns,        \* bound: EventBus.run() starts at most so often
    PromptRestart   \* run() may start while an abandoned lease is still live

Pairs == Events \X Consumers

ASSUME ConstantsOK ==
    /\ NoEvent \notin Events
    /\ Route \in [Events -> SUBSET Consumers]
    /\ Internal \subseteq Events
    /\ Stamp \in [Events -> Nat]
    /\ \A e, f \in Events : Stamp[e] = Stamp[f] => e = f
    /\ SeqOrdered \subseteq Consumers
    /\ Transactional \subseteq Consumers
    /\ Follow \in [Pairs -> Events \cup {NoEvent}]
    /\ FirstHandlers \subseteq Consumers
    /\ MaxAttempts \in Nat \ {0}
    /\ MaxRuns \in Nat
    /\ PromptRestart \in BOOLEAN

VARIABLES
    \* durable
    seq,        \* event_log.event_seq; 0: no row
    lastSeq,    \* MAX(event_seq)
    status,     \* event_delivery.status; "none": no row
    attempts,   \* event_delivery.attempts
    due,        \* available_at <= now
    lease,      \* lease_until: absent, in the future, in the past
    effect,     \* rows of event_effect
    applied,    \* how often the consumer's domain change was committed (history)
    \* volatile
    bus,        \* the application and its EventBus.run()
    accepting,  \* EventBus._accepting
    stopping,   \* EventBus._stop_event
    handlers,   \* EventBus._handlers
    pc,         \* pc[c]: where worker c stands
    cur,        \* cur[c]: the event worker c holds
    runs        \* how often run() was entered (history, and the bound)

durable == <<seq, lastSeq, status, attempts, due, lease, effect, applied>>
vars == <<durable, bus, accepting, stopping, handlers, pc, cur, runs>>

Status == {"none", "pending", "processing", "retry_wait", "succeeded", "dead_letter"}
Terminal == {"succeeded", "dead_letter"}
Working == {"claimed", "handling", "committed", "succeeding", "failing"}

TypeOK ==
    /\ seq \in [Events -> Nat]
    /\ lastSeq \in Nat
    /\ status \in [Pairs -> Status]
    /\ attempts \in [Pairs -> Nat]
    /\ due \in [Pairs -> BOOLEAN]
    /\ lease \in [Pairs -> {"none", "live", "expired"}]
    /\ effect \subseteq Pairs
    /\ applied \in [Pairs -> Nat]
    /\ bus \in {"off", "ready", "running", "stopped", "failed"}
    /\ accepting \in BOOLEAN
    /\ stopping \in BOOLEAN
    /\ handlers \subseteq Consumers
    /\ pc \in [Consumers -> {"down", "idle"} \cup Working]
    /\ cur \in [Consumers -> Events \cup {NoEvent}]
    /\ runs \in Nat

Init ==
    /\ seq = [e \in Events |-> 0]
    /\ lastSeq = 0
    /\ status = [p \in Pairs |-> "none"]
    /\ attempts = [p \in Pairs |-> 0]
    /\ due = [p \in Pairs |-> TRUE]
    /\ lease = [p \in Pairs |-> "none"]
    /\ effect = {}
    /\ applied = [p \in Pairs |-> 0]
    /\ bus = "ready"
    /\ accepting = TRUE
    /\ stopping = FALSE
    /\ handlers = FirstHandlers
    /\ pc = [c \in Consumers |-> "down"]
    /\ cur = [c \in Consumers |-> NoEvent]
    /\ runs = 0

-----------------------------------------------------------------------------
(* Admission *)

\* INSERT OR IGNORE of one delivery row per matching registered consumer.
WithRows(st, e, cs) ==
    [p \in Pairs |-> IF p[1] = e /\ p[2] \in cs /\ st[p] = "none"
                     THEN "pending" ELSE st[p]]

\* publish, publish_many: the event row and its delivery rows, in one commit.
Publish(e) ==
    /\ bus # "off"
    /\ accepting \/ e \in Internal
    /\ seq[e] = 0
    /\ seq' = [seq EXCEPT ![e] = lastSeq + 1]
    /\ lastSeq' = lastSeq + 1
    /\ status' = WithRows(status, e, Route[e] \cap handlers)
    /\ UNCHANGED <<attempts, due, lease, effect, applied>>
    /\ UNCHANGED <<bus, accepting, stopping, handlers, pc, cur, runs>>

-----------------------------------------------------------------------------
(* One worker per consumer *)

\* A worker reads the stop event at the top of its loop only: one that is idle may
\* have passed that test just before the event was set, and still claims.
AtLoopTop == IF stopping THEN "down" ELSE "idle"

Before(c, e, f) ==
    IF c \in SeqOrdered THEN seq[e] < seq[f] ELSE Stamp[e] < Stamp[f]

\* (wrong on purpose) waiting retries are requeued only when the bus starts.
RequeuedNever(st, cs) == st

\* UPDATE ... SET status='pending' WHERE status='retry_wait' AND available_at <= now
Requeued(st, cs) ==
    [p \in Pairs |-> IF p[2] \in cs /\ st[p] = "retry_wait" /\ due[p]
                     THEN "pending" ELSE st[p]]

\* (wrong on purpose) a delivery that backs off lets later ones pass.
ClaimableAhead(st, c, e) ==
    /\ st[<<e, c>>] = "pending"
    /\ \A f \in Events : st[<<f, c>>] = "pending" => ~ Before(c, f, e)

\* The pending row of c that no unfinished delivery of c precedes.
Claimable(st, c, e) ==
    /\ st[<<e, c>>] = "pending"
    /\ \A f \in Events :
          (st[<<f, c>>] \notin Terminal \cup {"none"}) => ~ Before(c, f, e)

Claim(c) ==
    LET st == Requeued(status, {c}) IN
    /\ bus = "running"
    /\ pc[c] = "idle"
    /\ \E e \in Events :
          /\ Claimable(st, c, e)
          /\ status' = [st EXCEPT ![<<e, c>>] = "processing"]
          /\ attempts' = [attempts EXCEPT ![<<e, c>>] = @ + 1]
          /\ lease' = [lease EXCEPT ![<<e, c>>] = "live"]
          /\ pc' = [pc EXCEPT ![c] = "claimed"]
          /\ cur' = [cur EXCEPT ![c] = e]
    /\ UNCHANGED <<seq, lastSeq, due, effect, applied, bus, accepting, stopping,
                   handlers, runs>>

\* A retry comes due behind an unfinished delivery: requeued, and nothing claimed.
ClaimNothing(c) ==
    LET st == Requeued(status, {c}) IN
    /\ bus = "running"
    /\ pc[c] = "idle"
    /\ st # status
    /\ \A e \in Events : ~ Claimable(st, c, e)
    /\ status' = st
    /\ pc' = [pc EXCEPT ![c] = AtLoopTop]
    /\ UNCHANGED <<seq, lastSeq, attempts, due, lease, effect, applied>>
    /\ UNCHANGED <<bus, accepting, stopping, handlers, cur, runs>>

\* _has_effect: a marker left by an earlier attempt skips the handler.
CheckEffect(c) ==
    /\ pc[c] = "claimed"
    /\ pc' = [pc EXCEPT ![c] =
                IF <<cur[c], c>> \in effect THEN "succeeding" ELSE "handling"]
    /\ UNCHANGED durable
    /\ UNCHANGED <<bus, accepting, stopping, handlers, cur, runs>>

\* (wrong on purpose) the marker is left to _mark_success.
MarkedLater(p) == effect

\* try_mark_effect: INSERT OR IGNORE of the marker in the handler's transaction.
Marked(p) == effect \cup {p}

\* (wrong on purpose) the follow-up is refused while the bus quiesces.
AppendsIfAccepting(p) == p \notin effect /\ Follow[p] # NoEvent /\ accepting

Appends(p) == p \notin effect /\ Follow[p] # NoEvent

\* A transactional handler: marker, domain change and follow-up event commit
\* together; a marker already there makes the transaction a no-op.
CommitTransactional(c) ==
    LET p == <<cur[c], c>>
        f == Follow[p]
    IN
    /\ pc[c] = "handling"
    /\ c \in Transactional
    /\ pc' = [pc EXCEPT ![c] = "committed"]
    /\ effect' = Marked(p)
    /\ applied' = IF p \notin effect THEN [applied EXCEPT ![p] = @ + 1] ELSE applied
    /\ IF Appends(p) /\ seq[f] = 0
       THEN /\ seq' = [seq EXCEPT ![f] = lastSeq + 1]
            /\ lastSeq' = lastSeq + 1
       ELSE UNCHANGED <<seq, lastSeq>>
    /\ status' = IF Appends(p) THEN WithRows(status, f, Route[f] \cap handlers) ELSE status
    /\ UNCHANGED <<attempts, due, lease>>
    /\ UNCHANGED <<bus, accepting, stopping, handlers, cur, runs>>

\* Any other handler changes its domain with no marker of its own.
CommitPlain(c) ==
    /\ pc[c] = "handling"
    /\ c \notin Transactional
    /\ pc' = [pc EXCEPT ![c] = "committed"]
    /\ applied' = [applied EXCEPT ![<<cur[c], c>>] = 1]
    /\ UNCHANGED <<seq, lastSeq, status, attempts, due, lease, effect>>
    /\ UNCHANGED <<bus, accepting, stopping, handlers, cur, runs>>

HandlerReturns(c) ==
    /\ pc[c] = "committed"
    /\ pc' = [pc EXCEPT ![c] = "succeeding"]
    /\ UNCHANGED durable
    /\ UNCHANGED <<bus, accepting, stopping, handlers, cur, runs>>

\* The handler raises, before or after it committed anything.
HandlerRaises(c) ==
    /\ pc[c] \in {"handling", "committed"}
    /\ pc' = [pc EXCEPT ![c] = "failing"]
    /\ UNCHANGED durable
    /\ UNCHANGED <<bus, accepting, stopping, handlers, cur, runs>>

\* _mark_success; a worker that finds the stop event set returns without writing.
MarkSuccess(c) ==
    LET p == <<cur[c], c>> IN
    /\ pc[c] = "succeeding"
    /\ pc' = [pc EXCEPT ![c] = AtLoopTop]
    /\ cur' = [cur EXCEPT ![c] = NoEvent]
    /\ IF stopping
       THEN UNCHANGED <<effect, status, lease>>
       ELSE /\ effect' = effect \cup {p}
            /\ status' = IF status[p] = "processing"
                         THEN [status EXCEPT ![p] = "succeeded"] ELSE status
            /\ lease' = IF status[p] = "processing"
                        THEN [lease EXCEPT ![p] = "none"] ELSE lease
    /\ UNCHANGED <<seq, lastSeq, attempts, due, applied>>
    /\ UNCHANGED <<bus, accepting, stopping, handlers, runs>>

Exhausted(p) == attempts[p] >= MaxAttempts

\* _mark_failure: back off, or leave a dead letter at the attempt limit.
MarkFailure(c) ==
    LET p == <<cur[c], c>> IN
    /\ pc[c] = "failing"
    /\ pc' = [pc EXCEPT ![c] = AtLoopTop]
    /\ cur' = [cur EXCEPT ![c] = NoEvent]
    /\ IF stopping \/ status[p] # "processing"
       THEN UNCHANGED <<status, due, lease>>
       ELSE /\ status' = [status EXCEPT ![p] =
                             IF Exhausted(p) THEN "dead_letter" ELSE "retry_wait"]
            /\ due' = [due EXCEPT ![p] = Exhausted(p)]
            /\ lease' = [lease EXCEPT ![p] = "none"]
    /\ UNCHANGED <<seq, lastSeq, attempts, effect, applied>>
    /\ UNCHANGED <<bus, accepting, stopping, handlers, runs>>

\* Time passes: a backoff ends, a lease runs out.
RetryDue(p) ==
    /\ status[p] = "retry_wait" /\ ~ due[p]
    /\ due' = [due EXCEPT ![p] = TRUE]
    /\ UNCHANGED <<seq, lastSeq, status, attempts, lease, effect, applied>>
    /\ UNCHANGED <<bus, accepting, stopping, handlers, pc, cur, runs>>

LeaseExpires(p) ==
    /\ lease[p] = "live"
    /\ lease' = [lease EXCEPT ![p] = "expired"]
    /\ UNCHANGED <<seq, lastSeq, status, attempts, due, effect, applied>>
    /\ UNCHANGED <<bus, accepting, stopping, handlers, pc, cur, runs>>

-----------------------------------------------------------------------------
(* The run, its supervisor, and the character's stop and restart *)

WorkersDown ==
    /\ pc' = [c \in Consumers |-> "down"]
    /\ cur' = [c \in Consumers |-> NoEvent]

\* (wrong on purpose) no rows for consumers that had none.
RecoveredOldRows ==
    [p \in Pairs |->
        IF \/ status[p] = "processing" /\ lease[p] = "expired"
           \/ status[p] = "retry_wait" /\ due[p]
        THEN "pending" ELSE status[p]]

\* recover_deliveries: expired leases and due retries become pending, rows are
\* added for consumers that had none.
Recovered ==
    [p \in Pairs |->
        IF \/ status[p] = "processing" /\ lease[p] = "expired"
           \/ status[p] = "retry_wait" /\ due[p]
           \/ status[p] = "none" /\ seq[p[1]] > 0 /\ p[2] \in Route[p[1]] \cap handlers
        THEN "pending" ELSE status[p]]

\* EventBus.run: recover once, then one worker per registered consumer.
Run ==
    /\ bus = "ready"
    /\ runs < MaxRuns
    /\ runs + 1 = MaxRuns => accepting   \* bound: the last run is not stopped
    /\ PromptRestart \/ \A p \in Pairs : status[p] = "processing" => lease[p] = "expired"
    /\ bus' = "running"
    /\ stopping' = FALSE
    /\ runs' = runs + 1
    /\ status' = Recovered
    /\ lease' = [p \in Pairs |-> IF status[p] = "processing" /\ lease[p] = "expired"
                                 THEN "none" ELSE lease[p]]
    /\ pc' = [c \in Consumers |-> IF c \in handlers THEN "idle" ELSE "down"]
    /\ UNCHANGED <<seq, lastSeq, attempts, due, effect, applied, accepting,
                   handlers, cur>>

\* The effect query of one worker fails: run() ends with an error, cancels every
\* worker, and supervise_bus waits to start it again or gives up.
RunFails(c) ==
    /\ bus = "running"
    /\ pc[c] = "claimed"
    /\ runs < MaxRuns
    /\ bus' \in {"ready", "failed"}
    /\ WorkersDown
    /\ UNCHANGED durable
    /\ UNCHANGED <<accepting, stopping, handlers, runs>>

\* stop_character closes admission (EventBus.quiesce).
Quiesce ==
    /\ bus # "off"
    /\ accepting
    /\ runs < MaxRuns
    /\ accepting' = FALSE
    /\ UNCHANGED durable
    /\ UNCHANGED <<bus, stopping, handlers, pc, cur, runs>>

\* (wrong on purpose) dead letters keep the bus busy.
IdleWithoutDeadLetters ==
    \A p \in Pairs :
        /\ status[p] \notin {"pending", "processing", "dead_letter"}
        /\ status[p] = "retry_wait" => ~ due[p]

\* drain() succeeds: _wait_until_idle sees no ready delivery, the stop event is set.
Idle ==
    \A p \in Pairs :
        /\ status[p] \notin {"pending", "processing"}
        /\ status[p] = "retry_wait" => ~ due[p]

Drain ==
    /\ bus = "running"
    /\ ~ accepting
    /\ ~ stopping
    /\ Idle
    /\ stopping' = TRUE
    /\ UNCHANGED durable
    /\ UNCHANGED <<bus, accepting, handlers, pc, cur, runs>>

\* run() leaves its loop on the stop event and cancels the workers.
RunReturns ==
    /\ bus = "running"
    /\ stopping
    /\ bus' = "stopped"
    /\ WorkersDown
    /\ UNCHANGED durable
    /\ UNCHANGED <<accepting, stopping, handlers, runs>>

\* (wrong on purpose) a drain that timed out does not stop the shutdown.
NoWriterAwaited == ~ accepting

NoWriterLeft ==
    /\ bus \in {"ready", "stopped", "failed"}
    /\ ~ accepting
    /\ \A c \in Consumers : pc[c] = "down"

\* The end of stop_character: no writer is left, the old leases are released and
\* the database is closed.
ReleaseLeases ==
    /\ bus # "off"
    /\ NoWriterLeft
    /\ status' = [p \in Pairs |-> IF status[p] = "processing" THEN "pending" ELSE status[p]]
    /\ lease' = [p \in Pairs |-> IF status[p] = "processing" THEN "none" ELSE lease[p]]
    /\ bus' = "off"
    /\ UNCHANGED <<seq, lastSeq, attempts, due, effect, applied>>
    /\ UNCHANGED <<accepting, stopping, handlers, pc, cur, runs>>

\* The process dies between any two steps.
Crash ==
    /\ bus = "running"
    /\ runs < MaxRuns
    /\ bus' = "off"
    /\ WorkersDown
    /\ UNCHANGED durable
    /\ UNCHANGED <<accepting, stopping, handlers, runs>>

\* The character is loaded again; a new release may declare further consumers.
Start ==
    /\ bus = "off"
    /\ bus' = "ready"
    /\ accepting' = TRUE
    /\ stopping' = FALSE
    /\ \E H \in SUBSET Consumers : handlers \subseteq H /\ handlers' = H
    /\ UNCHANGED durable
    /\ UNCHANGED <<pc, cur, runs>>

Worker(c) ==
    \/ Claim(c)
    \/ ClaimNothing(c)
    \/ CheckEffect(c)
    \/ CommitTransactional(c)
    \/ CommitPlain(c)
    \/ HandlerReturns(c)
    \/ HandlerRaises(c)
    \/ MarkSuccess(c)
    \/ MarkFailure(c)

Next ==
    \/ \E e \in Events : Publish(e)
    \/ \E c \in Consumers : Worker(c)
    \/ \E c \in Consumers : RunFails(c)
    \/ \E p \in Pairs : RetryDue(p)
    \/ \E p \in Pairs : LeaseExpires(p)
    \/ Run
    \/ Quiesce
    \/ Drain
    \/ RunReturns
    \/ ReleaseLeases
    \/ Crash
    \/ Start

Spec == Init /\ [][Next]_vars

\* The event loop keeps scheduling every worker, a handler ends, time passes, the
\* supervisor restarts the bus and the host the character; a character is not
\* forever stopped before its bus has started.  Nothing forces a publication, a
\* stop, a failure or a crash.
Fairness ==
    /\ \A c \in Consumers : WF_vars(Worker(c))
    /\ \A p \in Pairs : WF_vars(RetryDue(p)) /\ WF_vars(LeaseExpires(p))
    /\ SF_vars(Run)
    /\ WF_vars(Drain)
    /\ WF_vars(RunReturns)
    /\ WF_vars(ReleaseLeases)
    /\ WF_vars(Start)

FairSpec == Spec /\ Fairness

-----------------------------------------------------------------------------
(* Safety *)

\* A worker that holds an event holds its delivery row: nobody requeues, settles or
\* hands out a delivery under a live handler, through restarts, failures of run()
\* and the release of old leases.
WorkerHoldsLease ==
    \A c \in Consumers : pc[c] \in Working =>
        /\ bus = "running"
        /\ cur[c] \in Events
        /\ status[<<cur[c], c>>] = "processing"
        /\ lease[<<cur[c], c>>] # "none"

\* The marker committed with the domain change makes redelivery harmless: a
\* transactional handler changes its domain at most once per event.
AppliedOnce ==
    \A p \in Pairs : p[2] \in Transactional => applied[p] <= 1

\* Success is never recorded for a delivery whose handler committed nothing.
SucceededWasApplied ==
    \A p \in Pairs : status[p] = "succeeded" => applied[p] >= 1

\* The event a transactional handler appends is durable as soon as its domain
\* change is, so that a crash between the two cannot lose it.
FollowUpDurable ==
    \A p \in Pairs :
        (p[2] \in Transactional /\ applied[p] > 0 /\ Follow[p] # NoEvent)
            => seq[Follow[p]] > 0

\* User messages are begun in admission order: when one was ever claimed, every
\* earlier one is settled, also those admitted while its consumer was not registered.
InAdmissionOrder ==
    \A c \in SeqOrdered : \A e, f \in Events :
        (/\ attempts[<<f, c>>] > 0
         /\ 0 < seq[e] /\ seq[e] < seq[f]
         /\ c \in Route[e])
            => status[<<e, c>>] \in Terminal

\* Only the end of a run adds to the attempts RouteSpec.max_attempts allows.
AttemptsBounded ==
    \A p \in Pairs : attempts[p] > 0 => attempts[p] < MaxAttempts + runs

\* While workers run, every admitted event has a row for each of its registered
\* consumers, whenever that consumer was registered.
NothingForgotten ==
    bus = "running" =>
        \A e \in Events : \A c \in Route[e] \cap handlers :
            seq[e] > 0 => status[<<e, c>>] # "none"

-----------------------------------------------------------------------------
(* The inductive invariant of EventDeliveryProofs: what the safety properties     *)
(* rest on.                                                                       *)

\* Workers exist only inside run(), one per registered consumer.
WorkersInRun ==
    \A c \in Consumers : pc[c] # "down" => bus = "running" /\ c \in handlers

\* A row belongs to an admitted event and a consumer of its route; a row that was
\* ever claimed belongs to a registered consumer.
RowsWellFormed ==
    /\ \A e \in Events : seq[e] <= lastSeq
    /\ \A e \in Events, c \in Consumers :
          /\ status[<<e, c>>] # "none" => seq[e] > 0 /\ c \in Route[e]
          /\ attempts[<<e, c>>] > 0 => status[<<e, c>>] # "none" /\ c \in handlers
          /\ status[<<e, c>>] = "processing" => attempts[<<e, c>>] > 0

\* A consumer that runs, or has ever claimed, has a row for every event of its own.
RowsComplete ==
    \A c \in Consumers :
        (\/ bus = "running" /\ c \in handlers
         \/ \E f \in Events : attempts[<<f, c>>] > 0)
            => \A e \in Events :
                  (seq[e] > 0 /\ c \in Route[e]) => status[<<e, c>>] # "none"

\* A marker, or a worker past its handler, means that the domain change committed.
MarkersEarned ==
    /\ \A p \in Pairs :
          /\ p \in effect => applied[p] >= 1
          /\ p[2] \in Transactional /\ applied[p] > 0 => p \in effect
          /\ p[2] \notin Transactional => applied[p] <= 1
    /\ \A c \in Consumers :
          pc[c] \in {"committed", "succeeding"} => applied[<<cur[c], c>>] >= 1

\* An attempt beyond the limit was lost in the end of a run.
AttemptsBudget ==
    /\ bus = "running" => runs > 0
    /\ \A p \in Pairs :
          /\ attempts[p] < MaxAttempts + runs
          /\ status[p] = "retry_wait" => attempts[p] < MaxAttempts
          /\ bus = "running" /\ status[p] = "pending" => attempts[p] + 1 < MaxAttempts + runs

-----------------------------------------------------------------------------
(* The promise to the consumers *)

\* What a row's status means to the consumer.
outcome ==
    [p \in Pairs |->
        CASE status[p] = "none"        -> "none"
          [] status[p] = "succeeded"   -> "done"
          [] status[p] = "dead_letter" -> "dead"
          [] OTHER                     -> "owed"]

Contract == INSTANCE DeliveryContract WITH
    seq <- seq, outcome <- outcome, applied <- applied

\* The bus implements DeliveryContract.
ContractSpec == Contract!Spec

-----------------------------------------------------------------------------
(* Liveness *)

\* Every delivery is settled, unless the supervisor has given the run up and a
\* person must retry the character.
DeliverySettles ==
    \A p \in Pairs :
        (status[p] \notin Terminal \cup {"none"})
            ~> (status[p] \in Terminal \/ bus = "failed")

\* Once a stop was asked for, the character is unloaded.
StopCompletes == (~ accepting) ~> (bus = "off")
=============================================================================
