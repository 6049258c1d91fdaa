------------------------ MODULE TransportOutboxProofs ------------------------
(***************************************************************************)
(* The safety of TransportOutbox for every scan limit, log and number of   *)
(* interruptions.                                                          *)
(***************************************************************************)
EXTENDS TransportOutbox, FiniteSets, FiniteSetTheorems, TLAPS

LEMMA InvInit == ConstantsOK /\ Init => IInv
  <1> SUFFICES ASSUME ConstantsOK, Init PROVE IInv
    OBVIOUS
  <1> USE DEF Init, Events
  <1>a. /\ last \in 0..MaxLog /\ spoken \subseteq 1..last /\ known \in BOOLEAN
        /\ tail \in 0..last /\ scanned \in 0..last /\ confirmed \in 0..last
    <2>1. known \in BOOLEAN
      BY Zenon
    <2>2. /\ last \in 0..MaxLog /\ spoken \subseteq 1..last
          /\ tail \in 0..last /\ scanned \in 0..last /\ confirmed \in 0..last
      BY DEF ConstantsOK
    <2> QED BY <2>1, <2>2
  <1>b. /\ row \in [Events -> {"none", "pending", "processing", "sent"}]
        /\ due \in [Events -> BOOLEAN]
        /\ lease \in [Events -> {"none", "live", "expired"}]
        /\ attempts \in [Events -> Nat] /\ got \in [Events -> Nat]
    OBVIOUS
  <1>c. faults \in 0..MaxFaults
    BY DEF ConstantsOK
  <1>1. TypeOK
    BY <1>a, <1>b, <1>c DEF TypeOK
  <1>2. CursorsOrdered /\ QueueCoversLog /\ HoldsFirst /\ AnswerEarned
    BY DEF Init, CursorsOrdered, QueueCoversLog, HoldsFirst, AnswerEarned, Holding, Events
  <1>3. ShownFirst /\ SentWasShown
    BY DEF Init, ShownFirst, SentWasShown, Unsent, Events
  <1> QED BY <1>1, <1>2, <1>3 DEF IInv

\* Rows in the queue lie between the tail and the cursor.
LEMMA RowRange ==
    ASSUME IInv, NEW e \in Events, row[e] # "none"
    PROVE  e <= scanned /\ tail < e /\ e \in spoken /\ scanned <= last
  BY DEF IInv, QueueCoversLog, TypeOK

LEMMA FaultRange == ASSUME ConstantsOK, TypeOK, Fault PROVE faults' \in 0..MaxFaults
  BY DEF ConstantsOK, TypeOK, Fault

\* A step that leaves the queue's rows, what was shown and the sender alone.
LEMMA QuietStep ==
    ASSUME ConstantsOK, IInv,
           AppendEvent \/ Start \/ Connect \/ LoggedIn \/ NothingToClaim
    PROVE  IInv'
  <1> USE DEF IInv, TypeOK, Events, SenderSteps
  <1>1. CASE AppendEvent
    <2>1. PICK said \in SUBSET {last + 1} : spoken' = spoken \cup said
      BY <1>1 DEF AppendEvent
    <2>2. TypeOK'
      BY <1>1, <2>1 DEF AppendEvent, checkpoint, queue, session, remote, ConstantsOK
    <2>3. CursorsOrdered'
      BY <1>1 DEF AppendEvent, checkpoint, session, CursorsOrdered
    <2>4. QueueCoversLog'
      BY <1>1, <2>1 DEF AppendEvent, checkpoint, queue, QueueCoversLog
    <2>5. (HoldsFirst /\ ShownFirst /\ AnswerEarned /\ SentWasShown)'
      BY <1>1 DEF AppendEvent, checkpoint, queue, session, remote, HoldsFirst, ShownFirst, Holding,
                  AnswerEarned, SentWasShown, First, Unsent
    <2> QED BY <2>2, <2>3, <2>4, <2>5
  <1>2. CASE Start
    <2>1. TypeOK'
      <3>1. /\ UNCHANGED <<logVars, queue, pc, held, answer, remote, faults>>
            /\ up' = TRUE
        BY <1>2 DEF Start
      <3>2. known' \in BOOLEAN
        BY <1>2, Zenon DEF Start, InitializeCheckpoint, checkpoint
      <3>3. tail' \in 0..last /\ scanned' \in 0..last /\ confirmed' \in 0..last
        BY <1>2 DEF Start, InitializeCheckpoint, checkpoint
      <3> QED BY <3>1, <3>2, <3>3 DEF logVars, queue, remote
    <2>2. CursorsOrdered'
      BY <1>2 DEF Start, InitializeCheckpoint, checkpoint, CursorsOrdered
    <2>3. QueueCoversLog'
      BY <1>2 DEF Start, InitializeCheckpoint, logVars, checkpoint, queue, QueueCoversLog,
                  CursorsOrdered
    <2>4. (HoldsFirst /\ ShownFirst /\ AnswerEarned)'
      BY <1>2 DEF Start, queue, remote, HoldsFirst, ShownFirst, AnswerEarned, Holding, First,
                  Unsent
    <2>5. SentWasShown'
      BY <1>2 DEF Start, InitializeCheckpoint, checkpoint, queue, remote, SentWasShown, Unsent,
                  QueueCoversLog, CursorsOrdered
    <2> QED BY <2>1, <2>2, <2>3, <2>4, <2>5
  <1>3. CASE Connect \/ LoggedIn \/ NothingToClaim
    <2>1. TypeOK' /\ CursorsOrdered' /\ QueueCoversLog'
      BY <1>3 DEF Connect, LoggedIn, NothingToClaim, logVars, checkpoint, queue, remote,
                  CursorsOrdered, QueueCoversLog
    <2>2. (HoldsFirst /\ ShownFirst /\ AnswerEarned /\ SentWasShown)'
      BY <1>3 DEF Connect, LoggedIn, NothingToClaim, checkpoint, queue, remote, HoldsFirst,
                  ShownFirst, AnswerEarned, SentWasShown, Holding, First, Unsent
    <2> QED BY <2>1, <2>2
  <1> QED BY <1>1, <1>2, <1>3

\* A scan adds rows behind every row there is.
LEMMA ScanStep == ASSUME ConstantsOK, IInv, Scan PROVE IInv'
  <1> USE DEF IInv, TypeOK, Events
  <1>1. /\ ScanEnd \in Nat /\ scanned <= ScanEnd /\ ScanEnd <= last
        /\ pc = "scan" /\ pc' = "claim" /\ scanned' = ScanEnd
        /\ UNCHANGED <<logVars, up, remote, known, tail, confirmed, due, lease, attempts,
                       held, answer, faults>>
    BY DEF Scan, ScanEnd, SenderSteps, ConstantsOK
  <1>2. /\ row' \in [Events -> {"none", "pending", "processing", "sent"}]
        /\ \A e \in Events : row[e] # "none" => row'[e] = row[e]
        /\ \A e \in Events : row[e] = "none" /\ row'[e] # "none" =>
              row'[e] = "pending" /\ e \in spoken /\ scanned < e /\ e <= ScanEnd
        /\ \A e \in Events : e \in spoken /\ scanned < e /\ e <= ScanEnd => row'[e] # "none"
    BY DEF Scan
  <1>3. TypeOK' /\ CursorsOrdered'
    BY <1>1, <1>2 DEF logVars, remote, CursorsOrdered
  <1>4. QueueCoversLog'
    BY <1>1, <1>2 DEF logVars, QueueCoversLog, CursorsOrdered
  <1>5. \A e \in Events : First(e) => First(e)'
    <2> SUFFICES ASSUME NEW e \in Events, First(e) PROVE First(e)'
      OBVIOUS
    <2>1. row'[e] = row[e] /\ row[e] # "none"
      BY <1>2 DEF First
    <2>2. e <= scanned
      <3> HIDE DEF IInv, TypeOK, Events
      <3> QED BY <2>1, RowRange
    <2>3. ASSUME NEW f \in Events, row'[f] \in {"pending", "processing"} PROVE e <= f
      <3>1. CASE row[f] = "none"
        <4>1. scanned < f
          BY <1>2, <2>3, <3>1
        <4> QED BY <2>2, <4>1
      <3>2. CASE row[f] # "none"
        BY <1>2, <2>3, <3>2 DEF First, Unsent
      <3> QED BY <3>1, <3>2
    <2> QED BY <2>1, <2>3 DEF First, Unsent
  <1>6. HoldsFirst' /\ AnswerEarned'
    BY <1>1 DEF HoldsFirst, AnswerEarned, Holding
  <1>7. ShownFirst'
    <2>1. wire' = wire /\ got' = got
      BY <1>1 DEF remote
    <2> QED BY <1>5, <2>1 DEF ShownFirst
  <1>8. SentWasShown'
    BY <1>1, <1>2 DEF remote, SentWasShown, Unsent, CursorsOrdered
  <1> QED BY <1>3, <1>4, <1>6, <1>7, <1>8

LEMMA ClaimStep == ASSUME ConstantsOK, IInv, Claim PROVE IInv'
  <1> USE DEF IInv, TypeOK, Events
  <1>1. PICK e \in Events :
            /\ Claimable(e)
            /\ row' = [row EXCEPT ![e] = "processing"]
            /\ attempts' = [attempts EXCEPT ![e] = @ + 1]
            /\ lease' = [lease EXCEPT ![e] = "live"]
            /\ held' = e
    BY DEF Claim
  <1>2. /\ pc = "claim" /\ pc' = "sending"
        /\ UNCHANGED <<logVars, up, remote, checkpoint, due, answer, faults>>
    BY DEF Claim, SenderSteps
  <1>3. /\ e \in Unsent /\ \A f \in Unsent : e <= f
        /\ Unsent' = Unsent
    BY <1>1 DEF Claimable, Unsent
  <1>4. TypeOK' /\ CursorsOrdered'
    BY <1>1, <1>2 DEF logVars, remote, checkpoint, CursorsOrdered
  <1>5. QueueCoversLog'
    BY <1>1, <1>2, <1>3 DEF logVars, checkpoint, QueueCoversLog, Unsent
  <1>6. \A f \in Events : First(f) => First(f)'
    BY <1>1, <1>3 DEF First
  <1>7. First(e)'
    BY <1>1, <1>3 DEF First
  <1>8. HoldsFirst' /\ AnswerEarned'
    BY <1>1, <1>2, <1>7 DEF HoldsFirst, AnswerEarned, Holding
  <1>9. ShownFirst'
    BY <1>2, <1>6 DEF ShownFirst, remote
  <1>10. SentWasShown'
    BY <1>1, <1>2, <1>3 DEF SentWasShown, remote, checkpoint
  <1> QED BY <1>4, <1>5, <1>8, <1>9, <1>10

\* The request and its answer: rows and cursors stay.
LEMMA ExchangeStep ==
    ASSUME ConstantsOK, IInv,
           \/ Send \/ SendFails \/ Answered \/ AnswerTimesOut
           \/ \E r \in wire : RemoteShows(r) \/ RemoteRefuses(r)
    PROVE  IInv'
  <1> USE DEF IInv, TypeOK, Events
  <1>1. UNCHANGED <<logVars, checkpoint, row, due, lease, attempts, up, held>>
    BY DEF Send, SendFails, Answered, AnswerTimesOut, RemoteShows, RemoteRefuses,
           SenderSteps, queue
  <1>2. CASE Send
    <2>1. TypeOK' /\ CursorsOrdered'
      BY <1>1, <1>2 DEF Send, Request, logVars, checkpoint, CursorsOrdered, HoldsFirst, Holding
    <2>2. (HoldsFirst /\ ShownFirst)'
      BY <1>1, <1>2 DEF Send, Request, HoldsFirst, ShownFirst, First, Unsent, Holding
    <2>3. (QueueCoversLog /\ AnswerEarned /\ SentWasShown)'
      BY <1>1, <1>2 DEF Send, logVars, checkpoint, QueueCoversLog, AnswerEarned, SentWasShown,
                        Unsent
    <2> QED BY <2>1, <2>2, <2>3
  <1>3. CASE SendFails \/ Answered \/ AnswerTimesOut
    <2>1. TypeOK' /\ CursorsOrdered'
      BY <1>1, <1>3 DEF SendFails, Answered, AnswerTimesOut, SenderSteps, Fault, remote, logVars,
                        checkpoint, CursorsOrdered, ConstantsOK
    <2>2. (HoldsFirst /\ ShownFirst)'
      BY <1>1, <1>3 DEF SendFails, Answered, AnswerTimesOut, SenderSteps, remote, HoldsFirst,
                        ShownFirst, First, Unsent, Holding
    <2>3. (QueueCoversLog /\ AnswerEarned /\ SentWasShown)'
      BY <1>1, <1>3 DEF SendFails, Answered, AnswerTimesOut, SenderSteps, remote, logVars,
                        checkpoint, QueueCoversLog, AnswerEarned, SentWasShown, Unsent,
                        ConfirmedByAnswer
    <2> QED BY <2>1, <2>2, <2>3
  <1>4. ASSUME NEW r \in wire, RemoteShows(r) \/ RemoteRefuses(r) PROVE IInv'
    <2>1. /\ wire' = wire \ {r} /\ pc' = pc
          /\ faults' \in 0..MaxFaults /\ answer' \in {"none", "ok", "refused"}
          /\ r[1] \in Events
      <3>1. faults' \in 0..MaxFaults
        BY <1>4, FaultRange DEF RemoteShows, RemoteRefuses
      <3>2. answer' \in {"none", "ok", "refused"}
        BY <1>4 DEF RemoteShows, RemoteRefuses
      <3> QED BY <1>4, <3>1, <3>2 DEF RemoteShows, RemoteRefuses
    <2>2. /\ got' \in [Events -> Nat]
          /\ \A e \in Events : got[e] > 0 => got'[e] > 0
          /\ \A e \in Events : got'[e] > 0 => got[e] > 0 \/ e = r[1]
          /\ answer' = "ok" => answer = "ok" \/ (r = Request /\ got'[r[1]] > 0)
      <3>1. CASE RemoteShows(r)
        <4>1. got' = [got EXCEPT ![r[1]] = @ + 1]
          BY <3>1 DEF RemoteShows
        <4>2. answer' = "ok" => answer = "ok" \/ r = Request
          BY <3>1 DEF RemoteShows, Awaited
        <4>3. /\ got' \in [Events -> Nat] /\ got'[r[1]] = got[r[1]] + 1
              /\ \A e \in Events : e # r[1] => got'[e] = got[e]
          BY <2>1, <4>1
        <4>4. got'[r[1]] > 0
          <5> DEFINE n == got[r[1]]
          <5>1. n \in Nat
            BY <2>1
          <5> HIDE DEF n
          <5>2. n + 1 > 0
            BY <5>1
          <5> QED BY <4>3, <5>2 DEF n
        <4>5. \A e \in Events : got[e] > 0 => got'[e] > 0
          BY <4>3, <4>4
        <4> QED BY <4>2, <4>3, <4>4, <4>5
      <3>2. CASE RemoteRefuses(r)
        BY <3>2 DEF RemoteRefuses
      <3> QED BY <1>4, <3>1, <3>2
    <2>3. TypeOK' /\ CursorsOrdered'
      BY <1>1, <2>1, <2>2 DEF logVars, checkpoint, CursorsOrdered
    <2>4. HoldsFirst' /\ QueueCoversLog'
      BY <1>1, <2>1 DEF HoldsFirst, QueueCoversLog, logVars, checkpoint, First, Unsent, Holding
    <2>5. ShownFirst'
      BY <1>1, <2>1, <2>2 DEF ShownFirst, First, Unsent
    <2>6. AnswerEarned'
      BY <1>1, <2>1, <2>2 DEF AnswerEarned, Request, HoldsFirst, Holding
    <2>7. SentWasShown'
      BY <1>1, <2>2 DEF SentWasShown, Unsent, checkpoint
    <2> QED BY <2>3, <2>4, <2>5, <2>6, <2>7
  <1> QED BY <1>2, <1>3, <1>4

\* The confirmed event was the oldest unsent one.
LEMMA SentStep == ASSUME ConstantsOK, IInv, Sent PROVE IInv'
  <1> USE DEF IInv, TypeOK, Events
  <1>1. /\ pc = "confirming" /\ pc' = "scan"
        /\ row' = [row EXCEPT ![held] = "sent"]
        /\ lease' = [lease EXCEPT ![held] = "none"]
        /\ confirmed' = held /\ held' = 0 /\ answer' = "none"
        /\ UNCHANGED <<logVars, up, remote, known, tail, scanned, due, attempts, faults>>
    BY DEF Sent, SentRow, SenderSteps
  <1>2. held \in Events /\ row[held] = "processing" /\ First(held) /\ got[held] > 0
    BY <1>1 DEF HoldsFirst, Holding, AnswerEarned
  <1>3. held <= scanned /\ held <= last
    <2> HIDE DEF Events
    <2>1. held <= scanned /\ scanned <= last
      BY <1>2, RowRange
    <2> QED BY <1>2, <2>1 DEF Events
  <1>4. TypeOK' /\ CursorsOrdered'
    BY <1>1, <1>2, <1>3 DEF logVars, remote, CursorsOrdered
  <1>5. QueueCoversLog'
    BY <1>1, <1>2 DEF logVars, QueueCoversLog
  <1>6. Unsent' = Unsent \ {held}
    BY <1>1, <1>2 DEF Unsent
  <1>7. HoldsFirst' /\ AnswerEarned'
    BY <1>1 DEF HoldsFirst, AnswerEarned, Holding
  <1>8. ShownFirst'
    BY <1>1, <1>2, <1>6 DEF ShownFirst, First, remote
  <1>9. SentWasShown'
    BY <1>1, <1>2, <1>6 DEF SentWasShown, First, remote, Unsent
  <1> QED BY <1>4, <1>5, <1>7, <1>8, <1>9

\* Unsent rows stay unsent when the session ends or time passes.
LEMMA EndStep ==
    ASSUME ConstantsOK, IInv,
           \/ Retry \/ Release \/ SessionBreaks \/ Stop \/ Crash
           \/ \E e \in Events : RetryDue(e) \/ LeaseExpires(e)
    PROVE  IInv'
  <1> USE DEF IInv, TypeOK, Events
  <1>1. CASE Retry \/ Release
    <2>1. /\ UNCHANGED <<logVars, up, remote, checkpoint, attempts, faults>>
          /\ pc' \in {"ended", "idle"} /\ pc # "idle"
          /\ held' \in Events \cup {0} /\ answer' \in {"none", "ok", "refused"}
          /\ lease' \in [Events -> {"none", "live", "expired"}] /\ due' \in [Events -> BOOLEAN]
      BY <1>1 DEF Retry, Release, SenderSteps
    <2>2. /\ row' \in [Events -> {"none", "pending", "processing", "sent"}]
          /\ Unsent' = Unsent
          /\ \A e \in Events : row'[e] = "none" <=> row[e] = "none"
          /\ \A e \in Events : row'[e] = "sent" <=> row[e] = "sent"
      BY <1>1 DEF Retry, Release, SenderSteps, Unsent, HoldsFirst, Holding
    <2>3. TypeOK' /\ CursorsOrdered'
      BY <2>1, <2>2 DEF logVars, remote, checkpoint, CursorsOrdered
    <2>4. QueueCoversLog' /\ HoldsFirst' /\ AnswerEarned'
      BY <2>1, <2>2 DEF logVars, checkpoint, QueueCoversLog, HoldsFirst, AnswerEarned, Holding
    <2>5. ShownFirst' /\ SentWasShown'
      BY <2>1, <2>2 DEF remote, checkpoint, ShownFirst, SentWasShown, First
    <2> QED BY <2>3, <2>4, <2>5
  <1>2. CASE \/ SessionBreaks \/ Stop \/ Crash
             \/ \E e \in Events : RetryDue(e) \/ LeaseExpires(e)
    <2>1. /\ UNCHANGED <<logVars, checkpoint, row, attempts, remote>>
          /\ due' \in [Events -> BOOLEAN] /\ lease' \in [Events -> {"none", "live", "expired"}]
          /\ faults' \in 0..MaxFaults /\ up' \in BOOLEAN
          /\ held' \in Events \cup {0} /\ answer' \in {"none", "ok", "refused"}
          /\ \/ pc' \in {"ended", "idle"} /\ (up' \/ pc' # "idle" => up \/ pc # "idle")
             \/ UNCHANGED <<session>>
      <3>1. faults' \in 0..MaxFaults
        BY <1>2 DEF SessionBreaks, Stop, Crash, RetryDue, LeaseExpires, Fault, ConstantsOK
      <3>2. CASE SessionBreaks \/ Stop \/ Crash
        BY <3>1, <3>2 DEF SessionBreaks, Stop, Crash, SenderSteps, queue
      <3>3. CASE \E e \in Events : RetryDue(e) \/ LeaseExpires(e)
        BY <3>1, <3>3 DEF RetryDue, LeaseExpires, session
      <3> QED BY <1>2, <3>2, <3>3
    <2>2. TypeOK' /\ CursorsOrdered'
      BY <2>1 DEF logVars, remote, checkpoint, session, CursorsOrdered
    <2>3. QueueCoversLog' /\ HoldsFirst'
      BY <2>1 DEF logVars, checkpoint, session, QueueCoversLog, HoldsFirst, Holding, First, Unsent
    <2>4. ShownFirst' /\ SentWasShown' /\ AnswerEarned'
      BY <2>1 DEF remote, checkpoint, session, ShownFirst, SentWasShown, AnswerEarned, First,
                  Unsent
    <2> QED BY <2>2, <2>3, <2>4
  <1> QED BY <1>1, <1>2

LEMMA InvStep == ConstantsOK /\ IInv /\ [Next]_vars => IInv'
  <1> SUFFICES ASSUME ConstantsOK, IInv, [Next]_vars PROVE IInv'
    OBVIOUS
  <1>1. CASE UNCHANGED vars
    BY <1>1 DEF vars, logVars, checkpoint, queue, session, remote, IInv, TypeOK, CursorsOrdered,
                QueueCoversLog, HoldsFirst, ShownFirst, AnswerEarned, SentWasShown, Holding,
                First, Unsent
  <1>2. CASE Sender
    BY <1>2, QuietStep, ScanStep, ClaimStep, ExchangeStep, SentStep, EndStep DEF Sender
  <1> QED BY <1>1, <1>2, QuietStep, ExchangeStep, EndStep DEF Next

LEMMA Invariant == ASSUME ConstantsOK PROVE Spec => []IInv
  <1>1. Init => IInv
    BY InvInit
  <1>2. IInv /\ [Next]_vars => IInv'
    BY InvStep
  <1> QED BY <1>1, <1>2, PTL DEF Spec

-----------------------------------------------------------------------------
(* Theorems *)

\* Every variable keeps its type.
THEOREM TypeCorrect == ASSUME ConstantsOK PROVE Spec => []TypeOK
  <1>1. IInv => TypeOK
    BY DEF IInv
  <1> QED BY <1>1, Invariant, PTL

\* No restart and no scan, whatever its limit, skips an event or queues the history.
THEOREM QueueComplete == ASSUME ConstantsOK PROVE Spec => []QueueCoversLog
  <1>1. IInv => QueueCoversLog
    BY DEF IInv
  <1> QED BY <1>1, Invariant, PTL

\* A message is confirmed only after the recipient was shown it.
THEOREM ConfirmationEarned == ASSUME ConstantsOK PROVE Spec => []SentWasShown
  <1>1. IInv => SentWasShown
    BY DEF IInv
  <1> QED BY <1>1, Invariant, PTL

\* Messages reach the recipient in the order of the log, without gaps.
THEOREM InOrder == ASSUME ConstantsOK PROVE Spec => []ShownInOrder
  <1>1. IInv => ShownInOrder
    <2> SUFFICES ASSUME IInv, NEW e \in Events, NEW f \in Events,
                        e < f, got[f] > 0, tail < e, e \in spoken
                 PROVE  got[e] > 0
      BY DEF ShownInOrder
    <2>1. First(f) /\ f <= scanned
      BY RowRange DEF IInv, ShownFirst, First
    <2>2. row[e] # "none"
      BY <2>1 DEF IInv, QueueCoversLog, TypeOK, Events
    <2>3. e \notin Unsent
      BY <2>1 DEF First, Events
    <2> QED BY <2>2, <2>3 DEF IInv, SentWasShown, Unsent, TypeOK
  <1> QED BY <1>1, Invariant, PTL

-----------------------------------------------------------------------------
(* Repetitions: what a message was shown more than once for *)

\* The requests for a message that the remote has not handled.
Under(e) == {r \in wire : r[1] = e}

\* The request that is about to be written.
Coming(e) == IF pc = "sending" /\ held = e THEN 1 ELSE 0

\* A message was shown at most as often as it was claimed, less the requests on their way and
\* the one that is about to be written.
Counted ==
    \A e \in Events :
        /\ IsFiniteSet(Under(e))
        /\ got[e] + Cardinality(Under(e)) + Coming(e) <= attempts[e]

\* The claim of e that is under way may still succeed.
Promising(e) ==
    /\ held = e
    /\ \/ pc \in {"sending", "confirming"}
       \/ pc = "awaiting" /\ (Request \in wire \/ answer = "ok")

\* Each claim of a message but the last was ended by an interruption, and so was the last
\* if it cannot succeed any more.
ClaimsPaid ==
    \A e \in Events :
        /\ attempts[e] <= faults + 1
        /\ row[e] # "sent" /\ ~ Promising(e) => attempts[e] <= faults

\* While a request is on its way nothing has been answered to it.
Unanswered == pc = "awaiting" /\ Request \in wire => answer = "none"

RepeatsInv == Counted /\ ClaimsPaid /\ Unanswered

LEMMA RepeatsInit == Init => RepeatsInv
  <1> SUFFICES ASSUME Init PROVE RepeatsInv
    OBVIOUS
  <1>1. \A e \in Events : Under(e) = {}
    BY DEF Init, Under
  <1>2. Counted
    <2> SUFFICES ASSUME NEW e \in Events
                 PROVE  IsFiniteSet({}) /\ got[e] + Cardinality({}) + Coming(e) <= attempts[e]
      BY <1>1 DEF Counted
    <2>1. got[e] = 0 /\ attempts[e] = 0 /\ Coming(e) = 0
      BY DEF Init, Coming
    <2> QED BY <2>1, FS_EmptySet
  <1>3. ClaimsPaid /\ Unanswered
    BY DEF Init, ClaimsPaid, Unanswered
  <1> QED BY <1>2, <1>3 DEF RepeatsInv

\* The request of e that is lifted from the wire leaves one less.
LEMMA Lifted ==
    ASSUME Counted, NEW r \in wire, wire' = wire \ {r}, NEW e \in Events
    PROVE  /\ IsFiniteSet(Under(e)')
           /\ Cardinality(Under(e)) \in Nat /\ Cardinality(Under(e)') \in Nat
           /\ Cardinality(Under(e)') =
                IF r[1] = e THEN Cardinality(Under(e)) - 1 ELSE Cardinality(Under(e))
  <1>1. IsFiniteSet(Under(e))
    BY DEF Counted
  <1>2. CASE r[1] = e
    <2>1. r \in Under(e) /\ Under(e)' = Under(e) \ {r}
      BY <1>2 DEF Under
    <2> QED BY <1>1, <1>2, <2>1, FS_RemoveElement, FS_CardinalityType
  <1>3. CASE r[1] # e
    <2>1. Under(e)' = Under(e)
      BY <1>3 DEF Under
    <2> QED BY <1>1, <1>3, <2>1, FS_CardinalityType
  <1> QED BY <1>2, <1>3

LEMMA CountedStep ==
    ASSUME ConstantsOK, IInv, Counted, Next
    PROVE  Counted'
  <1> SUFFICES ASSUME NEW e \in Events
               PROVE  /\ IsFiniteSet(Under(e)')
                      /\ got'[e] + Cardinality(Under(e)') + Coming(e)' <= attempts'[e]
    BY DEF Counted
  <1>1. /\ IsFiniteSet(Under(e)) /\ Cardinality(Under(e)) \in Nat
        /\ got[e] + Cardinality(Under(e)) + Coming(e) <= attempts[e]
        /\ got[e] \in Nat /\ attempts[e] \in Nat /\ Coming(e) \in {0, 1} /\ Coming(e)' \in {0, 1}
    BY FS_CardinalityType DEF Counted, IInv, TypeOK, Coming
  <1>2. CASE Claim
    <2>1. PICK f \in Events : attempts' = [attempts EXCEPT ![f] = @ + 1] /\ held' = f
      BY <1>2 DEF Claim
    <2>2. pc = "claim" /\ UNCHANGED <<wire, got>>
      BY <1>2 DEF Claim, SenderSteps, remote
    <2>3. Under(e)' = Under(e) /\ got'[e] = got[e]
      BY <2>2 DEF Under
    <2>4. Coming(e) = 0
      BY <2>2 DEF Coming
    <2>5. CASE f = e
      <3>1. attempts'[e] = attempts[e] + 1
        BY <2>1, <2>5 DEF IInv, TypeOK
      <3> QED BY <1>1, <2>3, <2>4, <3>1
    <2>6. CASE f # e
      <3>1. attempts'[e] = attempts[e] /\ Coming(e)' = 0
        BY <2>1, <2>6 DEF IInv, TypeOK, Coming
      <3> QED BY <1>1, <2>3, <2>4, <3>1
    <2> QED BY <2>5, <2>6
  <1>3. CASE Send
    <2>1. /\ pc = "sending" /\ pc' = "awaiting" /\ wire' = wire \cup {Request}
          /\ UNCHANGED <<got, attempts>>
      BY <1>3 DEF Send, queue
    <2>2. Coming(e)' = 0
      BY <2>1 DEF Coming
    <2>3. CASE held = e
      <3>1. Coming(e) = 1
        BY <2>1, <2>3 DEF Coming
      <3>2. Under(e)' = Under(e) \cup {Request}
        BY <2>1, <2>3 DEF Under, Request
      <3>3. /\ IsFiniteSet(Under(e)') /\ Cardinality(Under(e)') \in Nat
            /\ Cardinality(Under(e)') <= Cardinality(Under(e)) + 1
        <4> DEFINE U == Under(e)
        <4>1. /\ IsFiniteSet(U \cup {Request})
              /\ \/ Cardinality(U \cup {Request}) = Cardinality(U)
                 \/ Cardinality(U \cup {Request}) = Cardinality(U) + 1
          BY <1>1, FS_AddElement
        <4>2. Cardinality(U) \in Nat
          BY <1>1
        <4> HIDE DEF U
        <4>3. Cardinality(U \cup {Request}) <= Cardinality(U) + 1
              /\ Cardinality(U \cup {Request}) \in Nat
          BY <4>1, <4>2
        <4> QED BY <3>2, <4>1, <4>3 DEF U
      <3> QED BY <1>1, <2>1, <2>2, <3>1, <3>3
    <2>4. CASE held # e
      <3>1. Under(e)' = Under(e)
        BY <2>1, <2>4 DEF Under, Request
      <3> QED BY <1>1, <2>1, <2>2, <3>1
    <2> QED BY <2>3, <2>4
  <1>4. ASSUME NEW r \in wire, RemoteShows(r) \/ RemoteRefuses(r)
        PROVE  /\ IsFiniteSet(Under(e)')
               /\ got'[e] + Cardinality(Under(e)') + Coming(e)' <= attempts'[e]
    <2>1. wire' = wire \ {r} /\ UNCHANGED <<attempts, pc, held>>
      BY <1>4 DEF RemoteShows, RemoteRefuses, queue
    <2>2. /\ IsFiniteSet(Under(e)')
          /\ Cardinality(Under(e)) \in Nat /\ Cardinality(Under(e)') \in Nat
          /\ Cardinality(Under(e)') =
               IF r[1] = e THEN Cardinality(Under(e)) - 1 ELSE Cardinality(Under(e))
      BY <2>1, Lifted
    <2>3. got'[e] = got[e] \/ (r[1] = e /\ got'[e] = got[e] + 1)
      BY <1>4 DEF RemoteShows, RemoteRefuses, IInv, TypeOK
    <2>4. Coming(e)' = Coming(e)
      BY <2>1 DEF Coming
    <2> QED BY <1>1, <2>1, <2>2, <2>3, <2>4
  <1>5. ASSUME UNCHANGED <<wire, got, attempts>>,
               pc' = "sending" => pc = "sending" /\ held' = held
        PROVE  /\ IsFiniteSet(Under(e)')
               /\ got'[e] + Cardinality(Under(e)') + Coming(e)' <= attempts'[e]
    <2>1. Under(e)' = Under(e)
      BY <1>5 DEF Under
    <2>2. Coming(e)' <= Coming(e)
      BY <1>5 DEF Coming
    <2> QED BY <1>1, <1>5, <2>1, <2>2
  <1>6. ASSUME \/ AppendEvent \/ Start \/ SendFails \/ SessionBreaks \/ Stop \/ Crash
               \/ \E f \in Events : RetryDue(f)
               \/ \E f \in Events : LeaseExpires(f)
        PROVE  /\ UNCHANGED <<wire, got, attempts>>
               /\ pc' = "sending" => pc = "sending" /\ held' = held
    BY <1>6 DEF AppendEvent, Start, SendFails, SessionBreaks, Stop, Crash, RetryDue, LeaseExpires,
                SenderSteps, remote, queue, session
  <1>7. ASSUME \/ Connect \/ LoggedIn \/ Scan \/ NothingToClaim \/ Answered
               \/ AnswerTimesOut \/ Sent \/ Retry \/ Release
        PROVE  /\ UNCHANGED <<wire, got, attempts>>
               /\ pc' = "sending" => pc = "sending" /\ held' = held
    BY <1>7 DEF Connect, LoggedIn, Scan, NothingToClaim, Answered, AnswerTimesOut, Sent, Retry,
                Release, SenderSteps, remote, queue
  <1> QED BY <1>2, <1>3, <1>4, <1>5, <1>6, <1>7 DEF Next, Sender

\* A step at which the claim of e cannot stop to be promising without an interruption.
LEMMA PaidOn ==
    ASSUME IInv, ClaimsPaid, NEW e \in Events, attempts'[e] = attempts[e],
           \/ faults' = faults + 1
           \/ /\ faults' = faults
              /\ row[e] = "sent" => row'[e] = "sent"
              /\ Promising(e) => Promising(e)' \/ row'[e] = "sent"
    PROVE  /\ attempts'[e] <= faults' + 1
           /\ row'[e] # "sent" /\ ~ Promising(e)' => attempts'[e] <= faults'
  <1>1. attempts[e] \in Nat /\ faults \in Nat
    BY DEF IInv, TypeOK
  <1>2. attempts[e] <= faults + 1
    BY DEF ClaimsPaid
  <1>3. CASE faults' = faults + 1
    BY <1>1, <1>2, <1>3
  <1>4. CASE faults' = faults
    <2>1. CASE row'[e] # "sent" /\ ~ Promising(e)'
      <3>0. ~ (faults' = faults + 1)
        BY <1>1, <1>4
      <3>1. row[e] # "sent" /\ ~ Promising(e)
        BY <2>1, <3>0
      <3> QED BY <1>2, <1>4, <3>1 DEF ClaimsPaid
    <2> QED BY <1>2, <1>4, <2>1
  <1> QED BY <1>3, <1>4

LEMMA ClaimPaid == ASSUME IInv, ClaimsPaid, Claim PROVE ClaimsPaid'
  <1>1. PICK f \in Events :
            /\ f \in Unsent
            /\ attempts' = [attempts EXCEPT ![f] = @ + 1]
            /\ held' = f
            /\ row' = [row EXCEPT ![f] = "processing"]
    BY DEF Claim, Claimable
  <1>2. pc = "claim" /\ pc' = "sending" /\ faults' = faults
    BY DEF Claim, SenderSteps
  <1> SUFFICES ASSUME NEW e \in Events
               PROVE  /\ attempts'[e] <= faults' + 1
                      /\ row'[e] # "sent" /\ ~ Promising(e)' => attempts'[e] <= faults'
    BY DEF ClaimsPaid
  <1>3. ~ Promising(e)
    BY <1>2 DEF Promising
  <1>4. CASE e = f
    <2>1. attempts'[e] = attempts[e] + 1 /\ attempts[e] \in Nat /\ faults \in Nat
      BY <1>1, <1>4 DEF IInv, TypeOK
    <2>2. attempts[e] <= faults
      BY <1>1, <1>3, <1>4 DEF ClaimsPaid, Unsent
    <2>3. Promising(e)'
      BY <1>1, <1>2, <1>4 DEF Promising
    <2> QED BY <1>2, <2>1, <2>2, <2>3
  <1>5. CASE e # f
    <2>1. attempts'[e] = attempts[e] /\ row'[e] = row[e]
      BY <1>1, <1>5 DEF IInv, TypeOK
    <2> QED BY <1>2, <1>3, <2>1, PaidOn
  <1> QED BY <1>4, <1>5

LEMMA PaidStep ==
    ASSUME IInv, ClaimsPaid, Unanswered, Next
    PROVE  ClaimsPaid'
  <1> SUFFICES ASSUME NEW e \in Events, ~ Claim
               PROVE  /\ attempts' = attempts
                      /\ \/ faults' = faults + 1
                         \/ /\ faults' = faults
                            /\ row[e] = "sent" => row'[e] = "sent"
                            /\ Promising(e) => Promising(e)' \/ row'[e] = "sent"
    BY ClaimPaid, PaidOn DEF ClaimsPaid
  <1> DEFINE Fine == /\ attempts' = attempts
                     /\ \/ faults' = faults + 1
                        \/ /\ faults' = faults
                           /\ row[e] = "sent" => row'[e] = "sent"
                           /\ Promising(e) => Promising(e)' \/ row'[e] = "sent"
  <1>1. CASE SendFails \/ SessionBreaks \/ Stop \/ Crash
    BY <1>1 DEF SendFails, SessionBreaks, Stop, Crash, Fault, queue
  <1>2. CASE \/ AppendEvent \/ Start
             \/ \E f \in Events : RetryDue(f)
             \/ \E f \in Events : LeaseExpires(f)
    BY <1>2 DEF AppendEvent, Start, RetryDue, LeaseExpires, queue, session, remote, Promising,
                Request
  <1>3. CASE Connect \/ LoggedIn \/ NothingToClaim \/ Retry \/ Release \/ Scan
    <2>1. ~ Promising(e)
      BY <1>3 DEF Connect, LoggedIn, NothingToClaim, Retry, Release, Scan, SenderSteps, Promising
    <2>2. attempts' = attempts /\ faults' = faults
      BY <1>3 DEF Connect, LoggedIn, NothingToClaim, Retry, Release, Scan, queue
    <2>3. row[e] = "sent" => row'[e] = "sent"
      <3>1. CASE Retry
        <4>1. row' = [row EXCEPT ![held] = "pending"] /\ row[held] = "processing"
          BY <3>1 DEF Retry, SenderSteps, IInv, HoldsFirst, Holding
        <4> QED BY <4>1 DEF IInv, TypeOK
      <3> QED BY <1>3, <3>1 DEF Connect, LoggedIn, NothingToClaim, Release, Scan, queue
    <2> QED BY <2>1, <2>2, <2>3
  <1>4. CASE Send
    BY <1>4 DEF Send, queue, Promising, Request
  <1>5. CASE Answered
    BY <1>5 DEF Answered, ConfirmedByAnswer, SenderSteps, queue, Promising, Unanswered
  <1>6. CASE AnswerTimesOut
    BY <1>6 DEF AnswerTimesOut, Fault, SenderSteps, queue, Promising
  <1>7. CASE Sent
    BY <1>7 DEF Sent, SentRow, SenderSteps, Promising, IInv, TypeOK
  <1>8. ASSUME NEW r \in wire, RemoteRefuses(r) PROVE Fine
    BY <1>8 DEF RemoteRefuses, Fault, queue
  <1>9. ASSUME NEW r \in wire, RemoteShows(r) PROVE Fine
    <2>1. /\ wire' = wire \ {r} /\ UNCHANGED <<attempts, row, pc, held>>
          /\ \/ answer' = (IF Awaited(r) THEN "ok" ELSE answer) /\ faults' = faults
             \/ faults' = faults + 1
      BY <1>9 DEF RemoteShows, Fault, queue
    <2>2. CASE Awaited(r)
      BY <2>1, <2>2 DEF Promising, Awaited
    <2>3. CASE ~ Awaited(r)
      BY <2>1, <2>3 DEF Promising, Awaited, Request
    <2> QED BY <2>1, <2>2, <2>3
  <1> QED BY <1>1, <1>2, <1>3, <1>4, <1>5, <1>6, <1>7, <1>8, <1>9 DEF Next, Sender

LEMMA UnansweredStep == ASSUME IInv, Unanswered, Next PROVE Unanswered'
  <1> USE DEF Unanswered
  <1>1. CASE Send \/ Claim \/ Answered \/ AnswerTimesOut \/ SendFails \/ Stop \/ Crash
    BY <1>1 DEF Send, Claim, Answered, AnswerTimesOut, SendFails, Stop, Crash, SenderSteps
  <1>2. CASE Connect \/ LoggedIn \/ NothingToClaim \/ Retry \/ Release \/ Scan \/ Sent
             \/ SessionBreaks
    BY <1>2 DEF Connect, LoggedIn, NothingToClaim, Retry, Release, Scan, Sent, SessionBreaks,
                SenderSteps
  <1>3. CASE \/ AppendEvent \/ Start
             \/ \E f \in Events : RetryDue(f)
             \/ \E f \in Events : LeaseExpires(f)
    BY <1>3 DEF AppendEvent, Start, RetryDue, LeaseExpires, queue, session, remote, Request
  <1>4. CASE \E r \in wire : RemoteShows(r) \/ RemoteRefuses(r)
    BY <1>4 DEF RemoteShows, RemoteRefuses, Awaited, Request, queue
  <1> QED BY <1>1, <1>2, <1>3, <1>4 DEF Next, Sender

LEMMA RepeatsStep ==
    ASSUME ConstantsOK, IInv, RepeatsInv, [Next]_vars
    PROVE  RepeatsInv'
  <1>1. CASE UNCHANGED vars
    BY <1>1 DEF vars, queue, session, remote, RepeatsInv, Counted, ClaimsPaid, Unanswered,
                Under, Coming, Promising, Request
  <1>2. CASE Next
    BY <1>2, CountedStep, PaidStep, UnansweredStep DEF RepeatsInv
  <1> QED BY <1>1, <1>2

\* Every showing of a message but the first is owed to an interruption, however requests,
\* answers, timeouts, restarts and expired leases interleave.
THEOREM RepeatsBounded == ASSUME ConstantsOK PROVE Spec => []RepeatsExplained
  <1>1. Init => RepeatsInv
    BY RepeatsInit
  <1>2. IInv /\ RepeatsInv /\ [Next]_vars => RepeatsInv'
    BY RepeatsStep
  <1>3. IInv /\ RepeatsInv => RepeatsExplained
    <2> SUFFICES ASSUME IInv, RepeatsInv, NEW e \in Events PROVE got[e] <= 1 + faults
      BY DEF RepeatsExplained
    <2>1. /\ got[e] \in Nat /\ attempts[e] \in Nat /\ faults \in Nat
          /\ Cardinality(Under(e)) \in Nat /\ Coming(e) \in {0, 1}
      BY FS_CardinalityType DEF IInv, TypeOK, RepeatsInv, Counted, Coming
    <2>2. got[e] + Cardinality(Under(e)) + Coming(e) <= attempts[e] /\ attempts[e] <= faults + 1
      BY DEF RepeatsInv, Counted, ClaimsPaid
    <2> QED BY <2>1, <2>2
  <1> QED BY <1>1, <1>2, <1>3, Invariant, PTL DEF Spec
=============================================================================
