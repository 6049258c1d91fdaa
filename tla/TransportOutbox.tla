--------------------------- MODULE TransportOutbox ---------------------------
(***************************************************************************)
(* The outgoing queue of one chat recipient (nyx/transports/outbox.py) and *)
(* the OneBot adapter that empties it (nyx/transports/onebot.py): what the *)
(* character says is copied from the event log into the queue, sent over a *)
(* connection that may break at any time, and confirmed by the answer of a *)
(* remote program which may be slow, refuse, or not be heard.              *)
(*                                                                         *)
(* A transaction is one step, and so is a step of the sender between two   *)
(* awaits.  An event is its position in the log.                           *)
(***************************************************************************)
EXTENDS Naturals

CONSTANTS
    ScanLimit,  \* LIMIT of one scan (100 in the code)
    MaxLog,     \* bound: events in the log
    MaxFaults   \* bound: interruptions

ASSUME ConstantsOK ==
    /\ ScanLimit \in Nat \ {0}
    /\ MaxLog \in Nat
    /\ MaxFaults \in Nat

Events == 1..MaxLog

VARIABLES
    \* durable
    last,       \* MAX(event_seq) of event_log
    spoken,     \* events that are THINK, SPEAK or ASK with a text
    known,      \* the recipient has a checkpoint
    tail,       \* the end of the log when its checkpoint was made (history)
    scanned,    \* transport_checkpoint.scan_rowid
    confirmed,  \* transport_checkpoint.sent_rowid
    row,        \* transport_outbox.status; "none": no row
    due,        \* available_at <= now
    lease,      \* lease_until: absent, in the future, in the past
    attempts,   \* transport_outbox.attempts
    \* volatile
    up,         \* the adapter runs and admits (OneBotAdapter._accepting)
    pc,         \* where its session stands
    held,       \* the event being sent, or 0
    answer,     \* the answer to the request in flight
    \* the remote program
    wire,       \* requests it has not handled yet: <<event, attempt>>
    got,        \* got[e]: how often the recipient was shown e
    faults      \* interruptions so far (history, and the bound)

logVars == <<last, spoken>>
checkpoint == <<known, tail, scanned, confirmed>>
queue == <<row, due, lease, attempts>>
session == <<up, pc, held, answer>>
remote == <<wire, got>>
vars == <<logVars, checkpoint, queue, session, remote, faults>>

TypeOK ==
    /\ last \in 0..MaxLog
    /\ spoken \subseteq 1..last
    /\ known \in BOOLEAN
    /\ tail \in 0..last
    /\ scanned \in 0..last
    /\ confirmed \in 0..last
    /\ row \in [Events -> {"none", "pending", "processing", "sent"}]
    /\ due \in [Events -> BOOLEAN]
    /\ lease \in [Events -> {"none", "live", "expired"}]
    /\ attempts \in [Events -> Nat]
    /\ up \in BOOLEAN
    /\ pc \in {"idle", "login", "scan", "claim", "sending", "awaiting",
               "confirming", "failing", "ended"}
    /\ held \in Events \cup {0}
    /\ answer \in {"none", "ok", "refused"}
    /\ wire \subseteq Events \X Nat
    /\ got \in [Events -> Nat]
    /\ faults \in 0..MaxFaults

Init ==
    /\ last = 0
    /\ spoken = {}
    /\ known = FALSE
    /\ tail = 0
    /\ scanned = 0
    /\ confirmed = 0
    /\ row = [e \in Events |-> "none"]
    /\ due = [e \in Events |-> TRUE]
    /\ lease = [e \in Events |-> "none"]
    /\ attempts = [e \in Events |-> 0]
    /\ up = FALSE
    /\ pc = "idle"
    /\ held = 0
    /\ answer = "none"
    /\ wire = {}
    /\ got = [e \in Events |-> 0]
    /\ faults = 0

\* bound: the environment interrupts so often.
Fault == faults < MaxFaults /\ faults' = faults + 1

-----------------------------------------------------------------------------
(* The log and the queue *)

\* The rest of the character commits an event, whether the adapter runs or not.
AppendEvent ==
    /\ last < MaxLog
    /\ last' = last + 1
    /\ \E said \in SUBSET {last + 1} : spoken' = spoken \cup said
    /\ UNCHANGED <<checkpoint, queue, session, remote, faults>>

\* INSERT OR IGNORE: a new recipient starts at the end of the log, a known one goes on.
InitializeCheckpoint ==
    IF known
    THEN UNCHANGED checkpoint
    ELSE /\ known' = TRUE
         /\ tail' = last
         /\ scanned' = last
         /\ confirmed' = last

\* The character is loaded: initialize, and run() begins.
Start ==
    /\ ~ up
    /\ pc = "idle"
    /\ InitializeCheckpoint
    /\ up' = TRUE
    /\ UNCHANGED <<logVars, queue, pc, held, answer, remote, faults>>

SenderSteps(from, to) ==
    /\ pc = from
    /\ pc' = to
    /\ UNCHANGED <<logVars, up, remote>>

\* A connection is open.
Connect ==
    /\ up
    /\ SenderSteps("idle", "login")
    /\ UNCHANGED <<checkpoint, queue, held, answer, faults>>

\* get_login_info answers with the configured account.
LoggedIn ==
    /\ SenderSteps("login", "scan")
    /\ UNCHANGED <<checkpoint, queue, held, answer, faults>>

\* The last of the first ScanLimit events after the cursor.
ScanEnd == IF last < scanned + ScanLimit THEN last ELSE scanned + ScanLimit

\* scan: queue what was said in the next range and move the cursor past it.
Scan ==
    /\ SenderSteps("scan", "claim")
    /\ row' = [e \in Events |->
                IF e \in spoken /\ scanned < e /\ e <= ScanEnd /\ row[e] = "none"
                THEN "pending" ELSE row[e]]
    /\ scanned' = ScanEnd
    /\ UNCHANGED <<known, tail, confirmed, due, lease, attempts, held, answer, faults>>

Unsent == {e \in Events : row[e] \in {"pending", "processing"}}

\* (wrong on purpose) a message that backs off lets the next one pass
ClaimableAhead(e) ==
    /\ e \in Unsent
    /\ due[e]
    /\ row[e] = "processing" => lease[e] = "expired"
    /\ \A f \in Unsent : due[f] => e <= f

\* (wrong on purpose) a lease is only ever given back by its holder
ClaimableReleased(e) ==
    /\ row[e] = "pending"
    /\ \A f \in Unsent : e <= f
    /\ due[e]

\* Only the oldest unsent event, when its backoff and any lease on it have run out.
Claimable(e) ==
    /\ e \in Unsent
    /\ \A f \in Unsent : e <= f
    /\ due[e]
    /\ row[e] = "processing" => lease[e] = "expired"

Claim ==
    /\ SenderSteps("claim", "sending")
    /\ \E e \in Events :
        /\ Claimable(e)
        /\ row' = [row EXCEPT ![e] = "processing"]
        /\ attempts' = [attempts EXCEPT ![e] = @ + 1]
        /\ lease' = [lease EXCEPT ![e] = "live"]
        /\ held' = e
    /\ UNCHANGED <<checkpoint, due, answer, faults>>

NothingToClaim ==
    /\ SenderSteps("claim", "scan")
    /\ \A e \in Events : ~ Claimable(e)
    /\ UNCHANGED <<checkpoint, queue, held, answer, faults>>

-----------------------------------------------------------------------------
(* Sending *)

Request == <<held, attempts[held]>>

\* emit: the request is written to the connection, or that fails.
Send ==
    /\ pc = "sending"
    /\ pc' = "awaiting"
    /\ wire' = wire \cup {Request}
    /\ answer' = "none"
    /\ UNCHANGED <<logVars, checkpoint, queue, up, held, got, faults>>

SendFails ==
    /\ SenderSteps("sending", "failing")
    /\ Fault
    /\ UNCHANGED <<checkpoint, queue, held, answer>>

\* The request the sender waits for, on the connection it was written to.
Awaited(r) == pc = "awaiting" /\ r = Request

\* The remote shows the message.  Its answer is heard only by the session that sent the
\* request, and it may get lost.
RemoteShows(r) ==
    /\ r \in wire
    /\ wire' = wire \ {r}
    /\ got' = [got EXCEPT ![r[1]] = @ + 1]
    /\ \/ /\ answer' = IF Awaited(r) THEN "ok" ELSE answer
          /\ UNCHANGED faults
       \/ Awaited(r) /\ Fault /\ UNCHANGED answer
    /\ UNCHANGED <<logVars, checkpoint, queue, up, pc, held>>

\* The remote refuses the message, or never sees it.
RemoteRefuses(r) ==
    /\ r \in wire
    /\ wire' = wire \ {r}
    /\ Fault
    /\ \E a \in {"refused", "none"} : answer' = IF Awaited(r) THEN a ELSE answer
    /\ UNCHANGED <<logVars, checkpoint, queue, up, pc, held, got>>

\* (wrong on purpose) any answer confirms the message
ConfirmedByAny == answer # "none"

\* Only status ok with retcode 0 confirms it.
ConfirmedByAnswer == answer = "ok"

Answered ==
    /\ answer # "none"
    /\ SenderSteps("awaiting", IF ConfirmedByAnswer THEN "confirming" ELSE "failing")
    /\ UNCHANGED <<checkpoint, queue, held, answer, faults>>

\* Fifteen seconds without one: the request is lost, or the remote is slow (a fault).
AnswerTimesOut ==
    /\ SenderSteps("awaiting", "failing")
    /\ answer = "none"
    /\ IF Request \in wire THEN Fault ELSE UNCHANGED faults
    /\ UNCHANGED <<checkpoint, queue, held, answer>>

\* (wrong on purpose) the row goes back to the queue with the others
ConfirmedRow == "pending"

SentRow == "sent"

\* sent: the row and the cursor of confirmed events together.
Sent ==
    /\ SenderSteps("confirming", "scan")
    /\ row' = [row EXCEPT ![held] = SentRow]
    /\ lease' = [lease EXCEPT ![held] = "none"]
    /\ confirmed' = held
    /\ held' = 0
    /\ answer' = "none"
    /\ UNCHANGED <<known, tail, scanned, due, attempts, faults>>

\* retry: the row backs off, and the error ends the session.
Retry ==
    /\ SenderSteps("failing", "ended")
    /\ row' = [row EXCEPT ![held] = "pending"]
    /\ lease' = [lease EXCEPT ![held] = "none"]
    /\ due' = [due EXCEPT ![held] = FALSE]
    /\ UNCHANGED <<checkpoint, attempts, held, answer, faults>>

\* release: when both tasks of the session have ended.
Release ==
    /\ SenderSteps("ended", "idle")
    /\ row' = [e \in Events |-> IF row[e] = "processing" THEN "pending" ELSE row[e]]
    /\ lease' = [e \in Events |-> IF row[e] = "processing" THEN "none" ELSE lease[e]]
    /\ held' = 0
    /\ answer' = "none"
    /\ UNCHANGED <<checkpoint, due, attempts, faults>>

-----------------------------------------------------------------------------
(* Interruptions and time *)

\* The receiver fails (the connection closes), the login is refused, or a transaction
\* fails: the sender is cancelled where it stands.
SessionBreaks ==
    /\ pc \notin {"idle", "ended"}
    /\ SenderSteps(pc, "ended")
    /\ Fault
    /\ UNCHANGED <<checkpoint, queue, held, answer>>

\* stop_character: quiesce, and the run task is cancelled.
Stop ==
    /\ up
    /\ up' = FALSE
    /\ pc' = "ended"
    /\ Fault
    /\ UNCHANGED <<logVars, checkpoint, queue, held, answer, remote>>

\* The process dies and releases nothing.
Crash ==
    /\ up
    /\ up' = FALSE
    /\ pc' = "idle"
    /\ held' = 0
    /\ answer' = "none"
    /\ Fault
    /\ UNCHANGED <<logVars, checkpoint, queue, remote>>

RetryDue(e) ==
    /\ ~ due[e]
    /\ due' = [due EXCEPT ![e] = TRUE]
    /\ UNCHANGED <<logVars, checkpoint, row, lease, attempts, session, remote, faults>>

LeaseExpires(e) ==
    /\ lease[e] = "live"
    /\ lease' = [lease EXCEPT ![e] = "expired"]
    /\ UNCHANGED <<logVars, checkpoint, row, due, attempts, session, remote, faults>>

Sender ==
    \/ Connect
    \/ LoggedIn
    \/ Scan
    \/ Claim
    \/ NothingToClaim
    \/ Send
    \/ Answered
    \/ AnswerTimesOut
    \/ Sent
    \/ Retry
    \/ Release

Next ==
    \/ AppendEvent
    \/ Start
    \/ Sender
    \/ SendFails
    \/ \E r \in wire : RemoteShows(r)
    \/ \E r \in wire : RemoteRefuses(r)
    \/ SessionBreaks
    \/ Stop
    \/ Crash
    \/ \E e \in Events : RetryDue(e)
    \/ \E e \in Events : LeaseExpires(e)

Spec == Init /\ [][Next]_vars

\* The adapter reconnects and loops, time passes, a character that was stopped is loaded
\* again, and the remote handles what it is sent.
Fairness ==
    /\ WF_vars(Start)
    /\ WF_vars(Sender)
    /\ WF_vars(\E r \in wire : RemoteShows(r))
    /\ \A e \in Events : WF_vars(RetryDue(e)) /\ WF_vars(LeaseExpires(e))

FairSpec == Spec /\ Fairness

-----------------------------------------------------------------------------
(* Properties *)

\* Exactly what was said after the recipient became known, up to the scan cursor, is in
\* the queue: no restart skips an event or sends the history.
QueueCoversLog ==
    \A e \in Events : row[e] # "none" <=> e \in spoken /\ tail < e /\ e <= scanned

\* A message is marked sent, and the cursor of confirmed events passes it, only when
\* the recipient was shown it: a refusal, a timeout, a late answer or an answer to an
\* earlier request never confirms it.
SentWasShown ==
    \A e \in Events :
        /\ row[e] = "sent" => got[e] > 0
        /\ e \in Unsent => confirmed < e

\* The recipient sees the character's messages in the order they were committed and
\* misses none, however often a message fails, backs off, or is found under the lease of
\* a process that has died.
ShownInOrder ==
    \A e, f \in Events :
        e < f /\ got[f] > 0 /\ tail < e /\ e \in spoken => got[e] > 0

\* A message is shown again only for an interruption: without one, exactly once.
RepeatsExplained == \A e \in Events : got[e] <= 1 + faults

\* What was said to a known recipient is eventually confirmed.
SpokenIsSent == \A e \in Events : (known /\ e \in spoken /\ tail < e) ~> row[e] = "sent"

-----------------------------------------------------------------------------
(* The inductive invariant of TransportOutboxProofs *)

Holding == pc \in {"sending", "awaiting", "confirming", "failing"}

\* Nothing unsent precedes e.
First(e) == row[e] # "none" /\ \A f \in Unsent : e <= f

\* The adapter works with a checkpoint, and the cursors follow one another.
CursorsOrdered ==
    /\ up \/ pc # "idle" => known
    /\ known => tail <= scanned /\ confirmed <= scanned
    /\ ~ known => tail = 0 /\ scanned = 0 /\ confirmed = 0

\* The sender holds the oldest unsent event.
HoldsFirst == Holding => held \in Events /\ row[held] = "processing" /\ First(held)

\* What is on its way, or was ever shown, has nothing unsent before it.
ShownFirst ==
    /\ \A r \in wire : First(r[1])
    /\ \A e \in Events : got[e] > 0 => First(e)

\* An ok answer, and the confirmation that follows it, mean that the message was shown.
AnswerEarned ==
    (pc = "awaiting" /\ answer = "ok") \/ pc = "confirming" => got[held] > 0

IInv ==
    /\ TypeOK
    /\ CursorsOrdered
    /\ QueueCoversLog
    /\ HoldsFirst
    /\ ShownFirst
    /\ AnswerEarned
    /\ SentWasShown
=============================================================================
