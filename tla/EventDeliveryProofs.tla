------------------------- MODULE EventDeliveryProofs -------------------------
(***************************************************************************)
(* The safety properties of EventDelivery for every set of events and      *)
(* consumers, every route table and every bound, and the proof that it     *)
(* implements DeliveryContract.                                            *)
(***************************************************************************)
EXTENDS EventDelivery, TLAPS

\* What a worker relies on: the row it holds cannot change under it.
Base == TypeOK /\ WorkersInRun /\ WorkerHoldsLease

\* The initial state.
LEMMA BaseInit == ConstantsOK /\ Init => Base
  <1> SUFFICES ASSUME ConstantsOK, Init PROVE Base
    OBVIOUS
  <1>1. TypeOK
    BY DEF ConstantsOK, Init, TypeOK, Status, Working
  <1>2. WorkersInRun /\ WorkerHoldsLease
    BY DEF Init, WorkersInRun, WorkerHoldsLease, Working
  <1> QED BY <1>1, <1>2 DEF Base

\* Rows are only added by an admission: no other row changes.
LEMMA WithRowsType ==
    ASSUME NEW st \in [Pairs -> Status], NEW e, NEW cs
    PROVE  /\ WithRows(st, e, cs) \in [Pairs -> Status]
           /\ \A p \in Pairs : st[p] # "none" => WithRows(st, e, cs)[p] = st[p]
           /\ \A p \in Pairs : WithRows(st, e, cs)[p] # st[p] =>
                  /\ st[p] = "none" /\ WithRows(st, e, cs)[p] = "pending"
                  /\ p[1] = e /\ p[2] \in cs
           /\ \A p \in Pairs : p[1] = e /\ p[2] \in cs => WithRows(st, e, cs)[p] # "none"
  BY DEF WithRows, Status

\* A requeue turns waiting retries into pending rows and nothing else.
LEMMA RequeuedType ==
    ASSUME TypeOK, NEW cs
    PROVE  /\ Requeued(status, cs) \in [Pairs -> Status]
           /\ \A p \in Pairs : Requeued(status, cs)[p] # status[p] =>
                  status[p] = "retry_wait" /\ Requeued(status, cs)[p] = "pending"
  BY DEF Requeued, Status, TypeOK

\* Recovery never touches a settled row.
LEMMA RecoveredType ==
    ASSUME TypeOK
    PROVE  /\ Recovered \in [Pairs -> Status]
           /\ \A p \in Pairs : Recovered[p] # status[p] =>
                  /\ Recovered[p] = "pending"
                  /\ status[p] \in {"none", "processing", "retry_wait"}
                  /\ status[p] = "none" =>
                        seq[p[1]] > 0 /\ p[2] \in Route[p[1]] \cap handlers
           /\ \A p \in Pairs :
                  (seq[p[1]] > 0 /\ p[2] \in Route[p[1]] \cap handlers)
                      => Recovered[p] # "none"
  BY DEF Recovered, Status, TypeOK

LEMMA BaseStep == ConstantsOK /\ Base /\ [Next]_vars => Base'
  <1> SUFFICES ASSUME ConstantsOK, Base, [Next]_vars PROVE Base'
    OBVIOUS
  <1> USE DEF Base
  <1>p. \A c \in Consumers : pc[c] \in Working =>
            cur[c] \in Events /\ <<cur[c], c>> \in Pairs
    BY DEF WorkerHoldsLease, Pairs
  <1>1. ASSUME NEW e \in Events, Publish(e) PROVE Base'
    <2>1. TypeOK'
      BY <1>1, WithRowsType DEF Publish, TypeOK
    <2>2. WorkersInRun' /\ WorkerHoldsLease'
      BY <1>1, <1>p, WithRowsType DEF Publish, TypeOK, WorkersInRun, WorkerHoldsLease
    <2> QED BY <2>1, <2>2
  <1>2. ASSUME NEW c \in Consumers, Claim(c) PROVE Base'
    <2> DEFINE st == Requeued(status, {c})
    <2> PICK e \in Events :
            /\ Claimable(st, c, e)
            /\ status' = [st EXCEPT ![<<e, c>>] = "processing"]
            /\ attempts' = [attempts EXCEPT ![<<e, c>>] = @ + 1]
            /\ lease' = [lease EXCEPT ![<<e, c>>] = "live"]
            /\ pc' = [pc EXCEPT ![c] = "claimed"]
            /\ cur' = [cur EXCEPT ![c] = e]
      BY <1>2 DEF Claim
    <2>1. TypeOK'
      BY <1>2, RequeuedType DEF Claim, TypeOK, Status, Pairs, Working
    <2>2. WorkersInRun'
      BY <1>2 DEF Claim, TypeOK, WorkersInRun
    <2>3. WorkerHoldsLease'
      BY <1>2, RequeuedType DEF Claim, TypeOK, WorkerHoldsLease, Pairs, Working
    <2> QED BY <2>1, <2>2, <2>3
  <1>3. ASSUME NEW c \in Consumers, ClaimNothing(c) PROVE Base'
    <2>1. TypeOK'
      BY <1>3, RequeuedType DEF ClaimNothing, TypeOK, AtLoopTop
    <2>2. WorkersInRun' /\ WorkerHoldsLease'
      BY <1>3, RequeuedType
         DEF ClaimNothing, TypeOK, WorkersInRun, WorkerHoldsLease, Pairs, AtLoopTop, Working
    <2> QED BY <2>1, <2>2
  <1>4. ASSUME NEW c \in Consumers, CheckEffect(c) PROVE Base'
    BY <1>4 DEF CheckEffect, durable, TypeOK, WorkersInRun, WorkerHoldsLease, Working
  <1>5. ASSUME NEW c \in Consumers, CommitTransactional(c) PROVE Base'
    <2> DEFINE p == <<cur[c], c>>
               f == Follow[p]
    <2>a. p \in Pairs /\ f \in Events \cup {NoEvent}
      BY <1>5, <1>p DEF CommitTransactional, Working, ConstantsOK
    <2>b. \/ status' = status
          \/ f \in Events /\ status' = WithRows(status, f, Route[f] \cap handlers)
      BY <1>5, <2>a DEF CommitTransactional, Marked, Appends
    <2>c. /\ status' \in [Pairs -> Status]
          /\ \A q \in Pairs : status[q] # "none" => status'[q] = status[q]
      BY <2>b, WithRowsType DEF TypeOK
    <2>d. /\ seq' \in [Events -> Nat] /\ lastSeq' \in Nat
          /\ applied' \in [Pairs -> Nat]
          /\ effect' \subseteq Pairs
      BY <1>5, <2>a DEF CommitTransactional, Marked, Appends, TypeOK
    <2>1. TypeOK'
      BY <1>5, <2>c, <2>d DEF CommitTransactional, Marked, Appends, TypeOK, Working
    <2>2. WorkersInRun'
      BY <1>5 DEF CommitTransactional, Marked, Appends, TypeOK, WorkersInRun
    <2>3. WorkerHoldsLease'
      BY <1>5, <1>p, <2>c DEF CommitTransactional, Marked, Appends, TypeOK, WorkerHoldsLease, Working
    <2> QED BY <2>1, <2>2, <2>3
  <1>6. ASSUME NEW c \in Consumers, CommitPlain(c) PROVE Base'
    BY <1>6 DEF CommitPlain, TypeOK, WorkersInRun, WorkerHoldsLease, Working
  <1>7. ASSUME NEW c \in Consumers, HandlerReturns(c) PROVE Base'
    BY <1>7 DEF HandlerReturns, durable, TypeOK, WorkersInRun, WorkerHoldsLease, Working
  <1>8. ASSUME NEW c \in Consumers, HandlerRaises(c) PROVE Base'
    BY <1>8 DEF HandlerRaises, durable, TypeOK, WorkersInRun, WorkerHoldsLease, Working
  <1>9. ASSUME NEW c \in Consumers, MarkSuccess(c) PROVE Base'
    <2>a. <<cur[c], c>> \in Pairs
      BY <1>9, <1>p DEF MarkSuccess, Working
    <2>b. /\ effect' \subseteq Pairs
          /\ status' \in [Pairs -> Status]
          /\ lease' \in [Pairs -> {"none", "live", "expired"}]
      BY <1>9, <2>a DEF MarkSuccess, TypeOK, Status
    <2>1. TypeOK'
      BY <1>9, <2>b DEF MarkSuccess, TypeOK, AtLoopTop
    <2>2. WorkersInRun'
      BY <1>9 DEF MarkSuccess, TypeOK, WorkersInRun
    <2>3. WorkerHoldsLease'
      BY <1>9 DEF MarkSuccess, TypeOK, WorkerHoldsLease, Working, Pairs, AtLoopTop
    <2> QED BY <2>1, <2>2, <2>3
  <1>10. ASSUME NEW c \in Consumers, MarkFailure(c) PROVE Base'
    <2>a. /\ status' \in [Pairs -> Status]
          /\ lease' \in [Pairs -> {"none", "live", "expired"}]
      BY <1>10 DEF MarkFailure, Exhausted, TypeOK, Status
    <2>b. due' \in [Pairs -> BOOLEAN]
      <3>1. (attempts[<<cur[c], c>>] >= MaxAttempts) \in BOOLEAN
        OBVIOUS
      <3>2. CASE UNCHANGED due
        BY <3>2 DEF TypeOK
      <3>3. CASE due' = [due EXCEPT ![<<cur[c], c>>] =
                            (attempts[<<cur[c], c>>] >= MaxAttempts)]
        BY <3>1, <3>3, Zenon DEF TypeOK
      <3> QED BY <1>10, <3>2, <3>3 DEF MarkFailure, Exhausted
    <2>1. TypeOK'
      BY <1>10, <2>a, <2>b DEF MarkFailure, Exhausted, TypeOK, AtLoopTop
    <2>2. WorkersInRun'
      BY <1>10 DEF MarkFailure, Exhausted, TypeOK, WorkersInRun
    <2>3. WorkerHoldsLease'
      BY <1>10 DEF MarkFailure, Exhausted, TypeOK, WorkerHoldsLease, Working, Pairs, AtLoopTop
    <2> QED BY <2>1, <2>2, <2>3
  <1>11. ASSUME NEW c \in Consumers, RunFails(c) PROVE Base'
    BY <1>11 DEF RunFails, WorkersDown, durable, TypeOK, WorkersInRun, WorkerHoldsLease,
       Working
  <1>12. ASSUME NEW p \in Pairs, RetryDue(p) PROVE Base'
    BY <1>12 DEF RetryDue, TypeOK, WorkersInRun, WorkerHoldsLease
  <1>13. ASSUME NEW p \in Pairs, LeaseExpires(p) PROVE Base'
    BY <1>13 DEF LeaseExpires, TypeOK, WorkersInRun, WorkerHoldsLease, Pairs
  <1>14. CASE Run
    <2>a. status' \in [Pairs -> Status]
      BY <1>14, RecoveredType DEF Run
    <2>b. lease' \in [Pairs -> {"none", "live", "expired"}]
      BY <1>14 DEF Run, TypeOK
    <2>c. pc' \in [Consumers -> {"down", "idle"} \cup Working]
      BY <1>14 DEF Run
    <2>d. /\ bus' = "running" /\ stopping' = FALSE /\ runs' = runs + 1
          /\ UNCHANGED <<seq, lastSeq, attempts, due, effect, applied, accepting,
                         handlers, cur>>
      BY <1>14, Zenon DEF Run
    <2>e. accepting' \in BOOLEAN /\ stopping' \in BOOLEAN /\ due' \in [Pairs -> BOOLEAN]
      BY <2>d, Zenon DEF TypeOK
    <2>f. /\ seq' \in [Events -> Nat] /\ lastSeq' \in Nat /\ attempts' \in [Pairs -> Nat]
          /\ effect' \subseteq Pairs /\ applied' \in [Pairs -> Nat]
          /\ handlers' \subseteq Consumers /\ cur' \in [Consumers -> Events \cup {NoEvent}]
          /\ runs' \in Nat /\ bus' \in {"off", "ready", "running", "stopped", "failed"}
      BY <2>d DEF TypeOK
    <2>1. TypeOK'
      BY <2>a, <2>b, <2>c, <2>e, <2>f, Zenon DEF TypeOK
    <2>2. WorkersInRun' /\ WorkerHoldsLease'
      BY <1>14 DEF Run, TypeOK, WorkersInRun, WorkerHoldsLease, Working
    <2> QED BY <2>1, <2>2
  <1>15. CASE Quiesce
    BY <1>15 DEF Quiesce, durable, TypeOK, WorkersInRun, WorkerHoldsLease
  <1>16. CASE Drain
    BY <1>16 DEF Drain, durable, TypeOK, WorkersInRun, WorkerHoldsLease
  <1>17. CASE RunReturns
    BY <1>17 DEF RunReturns, WorkersDown, durable, TypeOK, WorkersInRun,
       WorkerHoldsLease, Working
  <1>18. CASE ReleaseLeases
    BY <1>18 DEF ReleaseLeases, NoWriterLeft, TypeOK, Status, WorkersInRun, WorkerHoldsLease, Working
  <1>19. CASE Crash
    BY <1>19 DEF Crash, WorkersDown, durable, TypeOK, WorkersInRun, WorkerHoldsLease,
       Working
  <1>20. CASE Start
    BY <1>20 DEF Start, durable, TypeOK, WorkersInRun, WorkerHoldsLease, Working
  <1>21. CASE UNCHANGED vars
    BY <1>21 DEF vars, durable, TypeOK, WorkersInRun, WorkerHoldsLease
  <1> QED
    BY <1>1, <1>2, <1>3, <1>4, <1>5, <1>6, <1>7, <1>8, <1>9, <1>10, <1>11, <1>12,
       <1>13, <1>14, <1>15, <1>16, <1>17, <1>18, <1>19, <1>20, <1>21 DEF Next, Worker

-----------------------------------------------------------------------------
(* Rows and admission order *)

RowsInv == RowsWellFormed /\ RowsComplete /\ InAdmissionOrder

LEMMA RowsInit == ConstantsOK /\ Init => RowsInv
  BY DEF ConstantsOK, Init, RowsInv, RowsWellFormed, RowsComplete, InAdmissionOrder, Pairs

\* Steps that neither admit nor claim: rows may be added or requeued, settled rows
\* stay as they are.
LEMMA RowsRequeued ==
    ASSUME ConstantsOK, TypeOK, RowsInv,
           seq' = seq, lastSeq' = lastSeq, attempts' = attempts,
           handlers \subseteq handlers',
           \A p \in Pairs : status'[p] # status[p] =>
               /\ status[p] \notin Terminal
               /\ status'[p] \notin {"none", "processing"}
               /\ status[p] = "none" => seq[p[1]] > 0 /\ p[2] \in Route[p[1]],
           bus' = "running" =>
               \/ bus = "running" /\ handlers' = handlers
               \/ \A e \in Events : \A c \in Route[e] \cap handlers' :
                      seq[e] > 0 => status'[<<e, c>>] # "none"
    PROVE  RowsInv'
  <1> USE DEF RowsInv
  <1>p. \A e \in Events, c \in Consumers :
            <<e, c>> \in Pairs /\ <<e, c>>[1] = e /\ <<e, c>>[2] = c
    BY DEF Pairs
  <1>1. RowsWellFormed'
    BY <1>p DEF RowsWellFormed, Terminal
  <1>2. RowsComplete'
    BY <1>p DEF RowsComplete, RowsWellFormed
  <1>3. InAdmissionOrder'
    BY <1>p DEF InAdmissionOrder, ConstantsOK
  <1> QED BY <1>1, <1>2, <1>3

\* A new event is last in the log and gets a row for every registered consumer.
LEMMA RowsAdmitted ==
    ASSUME ConstantsOK, TypeOK, RowsInv, NEW f \in Events,
           seq[f] = 0, seq' = [seq EXCEPT ![f] = lastSeq + 1], lastSeq' = lastSeq + 1,
           status' = WithRows(status, f, Route[f] \cap handlers),
           attempts' = attempts, handlers' = handlers, bus' = bus
    PROVE  RowsInv'
  <1> USE DEF RowsInv
  <1>p. \A e \in Events, c \in Consumers :
            <<e, c>> \in Pairs /\ <<e, c>>[1] = e /\ <<e, c>>[2] = c
    BY DEF Pairs
  <1>s. /\ \A p \in Pairs : status[p] # "none" => status'[p] = status[p]
        /\ \A p \in Pairs : status'[p] # status[p] =>
               /\ status[p] = "none" /\ status'[p] = "pending"
               /\ p[1] = f /\ p[2] \in Route[f] \cap handlers
        /\ \A p \in Pairs : p[1] = f /\ p[2] \in Route[f] \cap handlers => status'[p] # "none"
    BY WithRowsType DEF TypeOK
  <1>q. /\ seq'[f] = lastSeq + 1
        /\ \A e \in Events : e # f => seq'[e] = seq[e]
        /\ \A e \in Events : seq[e] \in Nat /\ seq[e] <= lastSeq
        /\ lastSeq \in Nat
    BY DEF TypeOK, RowsWellFormed
  <1>a. \A e \in Events, c \in Consumers :
           /\ status'[<<e, c>>] = status[<<e, c>>]
              \/ /\ status[<<e, c>>] = "none" /\ status'[<<e, c>>] = "pending"
                 /\ e = f /\ c \in Route[f]
           /\ e = f /\ c \in Route[f] \cap handlers => status'[<<e, c>>] # "none"
    BY <1>p, <1>s
  <1>1. RowsWellFormed'
    <2>1. \A e \in Events : seq'[e] <= lastSeq'
      BY <1>q
    <2>2. ASSUME NEW e \in Events, NEW c \in Consumers
          PROVE  /\ status'[<<e, c>>] # "none" => seq'[e] > 0 /\ c \in Route[e]
                 /\ attempts'[<<e, c>>] > 0 => status'[<<e, c>>] # "none" /\ c \in handlers'
                 /\ status'[<<e, c>>] = "processing" => attempts'[<<e, c>>] > 0
      <3>1. /\ status[<<e, c>>] # "none" => seq[e] > 0 /\ c \in Route[e]
            /\ attempts[<<e, c>>] > 0 => status[<<e, c>>] # "none" /\ c \in handlers
            /\ status[<<e, c>>] = "processing" => attempts[<<e, c>>] > 0
        BY DEF RowsWellFormed
      <3>2. CASE e = f
        <4>1. status[<<e, c>>] = "none" /\ ~ (attempts[<<e, c>>] > 0)
          BY <3>1, <3>2, <1>q
        <4>2. status'[<<e, c>>] # "none" => c \in Route[e]
          BY <4>1, <1>a
        <4>3. seq'[e] > 0
          BY <3>2, <1>q
        <4>4. status'[<<e, c>>] # "processing"
          BY <4>1, <1>a
        <4> QED BY <4>1, <4>2, <4>3, <4>4
      <3>3. CASE e # f
        BY <3>1, <3>3, <1>a, <1>q
      <3> QED BY <3>2, <3>3
    <2> QED BY <2>1, <2>2 DEF RowsWellFormed
  <1>2. RowsComplete'
    <2> SUFFICES ASSUME NEW c \in Consumers, NEW e \in Events,
                        \/ bus' = "running" /\ c \in handlers'
                        \/ \E g \in Events : attempts'[<<g, c>>] > 0,
                        seq'[e] > 0, c \in Route[e]
                 PROVE  status'[<<e, c>>] # "none"
      BY DEF RowsComplete
    <2>1. c \in handlers
      BY DEF RowsWellFormed
    <2>2. CASE e = f
      BY <2>1, <2>2, <1>a
    <2>3. CASE e # f
      <3>1. seq[e] > 0
        BY <2>3, <1>q
      <3>2. status[<<e, c>>] # "none"
        BY <3>1 DEF RowsComplete
      <3> QED BY <3>2, <2>3, <1>a
    <2> QED BY <2>2, <2>3
  <1>3. InAdmissionOrder'
    <2> SUFFICES ASSUME NEW c \in SeqOrdered, NEW e \in Events, NEW g \in Events,
                        attempts'[<<g, c>>] > 0, 0 < seq'[e], seq'[e] < seq'[g],
                        c \in Route[e]
                 PROVE  status'[<<e, c>>] \in Terminal
      BY DEF InAdmissionOrder
    <2>c. c \in Consumers
      BY DEF ConstantsOK
    <2>1. g # f
      BY <2>c, <1>p DEF RowsWellFormed
    <2>2. e # f
      BY <2>1, <1>q
    <2>3. status[<<e, c>>] \in Terminal
      BY <2>1, <2>2, <1>q DEF InAdmissionOrder
    <2> QED BY <2>3, <2>c, <1>p, <1>s DEF Terminal
  <1> QED BY <1>1, <1>2, <1>3

\* A claim: everything admitted before the claimed event is settled.
LEMMA RowsClaimed ==
    ASSUME ConstantsOK, TypeOK, RowsInv, WorkersInRun, NEW c \in Consumers, Claim(c)
    PROVE  RowsInv'
  <1> USE DEF RowsInv
  <1> DEFINE st == Requeued(status, {c})
  <1>e. PICK e \in Events :
            /\ Claimable(st, c, e)
            /\ status' = [st EXCEPT ![<<e, c>>] = "processing"]
            /\ attempts' = [attempts EXCEPT ![<<e, c>>] = @ + 1]
    BY DEF Claim
  <1>u. /\ seq' = seq /\ lastSeq' = lastSeq /\ handlers' = handlers /\ bus' = bus
        /\ bus = "running" /\ c \in handlers
    BY DEF Claim, WorkersInRun
  <1>p. \A g \in Events, d \in Consumers :
            <<g, d>> \in Pairs /\ <<g, d>>[1] = g /\ <<g, d>>[2] = d
    BY DEF Pairs
  <1>s. /\ st \in [Pairs -> Status]
        /\ \A p \in Pairs : st[p] # status[p] => status[p] = "retry_wait" /\ st[p] = "pending"
    BY RequeuedType
  <1>t. /\ status'[<<e, c>>] = "processing"
        /\ st[<<e, c>>] = "pending"
        /\ status[<<e, c>>] \in {"pending", "retry_wait"}
        /\ \A p \in Pairs : p # <<e, c>> => status'[p] = st[p]
        /\ attempts'[<<e, c>>] = attempts[<<e, c>>] + 1
        /\ \A p \in Pairs : p # <<e, c>> => attempts'[p] = attempts[p]
        /\ \A p \in Pairs : attempts[p] \in Nat
    <2>1. st[<<e, c>>] = "pending" /\ <<e, c>> \in Pairs
      BY <1>e, <1>p DEF Claimable
    <2>2. status[<<e, c>>] \in {"pending", "retry_wait"}
      BY <2>1, <1>s
    <2>3. /\ status'[<<e, c>>] = "processing"
          /\ \A p \in Pairs : p # <<e, c>> => status'[p] = st[p]
      BY <2>1, <1>e, <1>s
    <2>4. /\ attempts'[<<e, c>>] = attempts[<<e, c>>] + 1
          /\ \A p \in Pairs : p # <<e, c>> => attempts'[p] = attempts[p]
          /\ \A p \in Pairs : attempts[p] \in Nat
      BY <2>1, <1>e DEF TypeOK
    <2> QED BY <2>1, <2>2, <2>3, <2>4
  <1>d. \A p \in Pairs :
           /\ status[p] = "none" <=> status'[p] = "none"
           /\ status[p] \in Terminal => status'[p] = status[p]
           /\ status'[p] = "processing" => status[p] = "processing" \/ p = <<e, c>>
    BY <1>s, <1>t DEF Terminal
  <1>1. RowsWellFormed'
    <2>1. \A g \in Events : seq'[g] <= lastSeq'
      BY <1>u DEF RowsWellFormed
    <2>2. ASSUME NEW g \in Events, NEW d \in Consumers
          PROVE  /\ status'[<<g, d>>] # "none" => seq'[g] > 0 /\ d \in Route[g]
                 /\ attempts'[<<g, d>>] > 0 => status'[<<g, d>>] # "none" /\ d \in handlers'
                 /\ status'[<<g, d>>] = "processing" => attempts'[<<g, d>>] > 0
      <3>1. CASE <<g, d>> = <<e, c>>
        BY <3>1, <1>u, <1>t, <1>d, <1>p DEF RowsWellFormed
      <3>2. CASE <<g, d>> # <<e, c>>
        BY <3>2, <1>u, <1>t, <1>d, <1>p DEF RowsWellFormed
      <3> QED BY <3>1, <3>2
    <2> QED BY <2>1, <2>2 DEF RowsWellFormed
  <1>2. RowsComplete'
    <2> SUFFICES ASSUME NEW d \in Consumers, NEW g \in Events,
                        \/ bus' = "running" /\ d \in handlers'
                        \/ \E f \in Events : attempts'[<<f, d>>] > 0,
                        seq'[g] > 0, d \in Route[g]
                 PROVE  status'[<<g, d>>] # "none"
      BY DEF RowsComplete
    <2>1. CASE d = c
      BY <2>1, <1>u, <1>d, <1>p DEF RowsComplete
    <2>2. CASE d # c
      <3>1. \A f \in Events : attempts'[<<f, d>>] = attempts[<<f, d>>]
        BY <2>2, <1>t, <1>p
      <3>2. status[<<g, d>>] # "none"
        BY <3>1, <1>u DEF RowsComplete
      <3> QED BY <3>2, <1>d, <1>p
    <2> QED BY <2>1, <2>2
  <1>3. InAdmissionOrder'
    <2> SUFFICES ASSUME NEW d \in SeqOrdered, NEW g \in Events, NEW f \in Events,
                        attempts'[<<f, d>>] > 0, 0 < seq[g], seq[g] < seq[f],
                        d \in Route[g]
                 PROVE  status'[<<g, d>>] \in Terminal
      BY <1>u DEF InAdmissionOrder
    <2>c. d \in Consumers
      BY DEF ConstantsOK
    <2>1. CASE <<f, d>> = <<e, c>>
      <3>1. f = e /\ d = c
        BY <2>1
      <3>2. status[<<g, c>>] # "none"
        BY <3>1, <1>u DEF RowsComplete
      <3>3. st[<<g, c>>] # "none"
        BY <3>2, <1>s, <1>p
      <3>4. st[<<g, c>>] \in Terminal
        BY <1>e, <3>1, <3>3 DEF Claimable, Before
      <3>5. status[<<g, c>>] \in Terminal
        BY <3>4, <1>s, <1>p DEF Terminal
      <3> QED BY <3>5, <3>1, <1>d, <1>p
    <2>2. CASE <<f, d>> # <<e, c>>
      <3>1. attempts[<<f, d>>] > 0
        BY <2>2, <2>c, <1>t, <1>p
      <3> QED BY <3>1, <2>c, <1>d, <1>p DEF InAdmissionOrder
    <2> QED BY <2>1, <2>2
  <1> QED BY <1>1, <1>2, <1>3

LEMMA RowsStep == ConstantsOK /\ Base /\ RowsInv /\ [Next]_vars => RowsInv'
  <1> SUFFICES ASSUME ConstantsOK, Base, RowsInv, [Next]_vars PROVE RowsInv'
    OBVIOUS
  <1> USE DEF Base
  <1>p. \A c \in Consumers : pc[c] \in Working => <<cur[c], c>> \in Pairs
    BY DEF WorkerHoldsLease, Pairs
  <1>f. ASSUME seq' = seq, lastSeq' = lastSeq, attempts' = attempts, status' = status,
               handlers' = handlers, bus' = "running" => bus = "running"
        PROVE  RowsInv'
    BY <1>f, RowsRequeued
  <1>1. ASSUME NEW e \in Events, Publish(e) PROVE RowsInv'
    BY <1>1, RowsAdmitted, Zenon DEF Publish
  <1>2. ASSUME NEW c \in Consumers, Claim(c) PROVE RowsInv'
    BY <1>2, RowsClaimed
  <1>3. ASSUME NEW c \in Consumers, ClaimNothing(c) PROVE RowsInv'
    <2>1. \A p \in Pairs : status'[p] # status[p] =>
              status[p] = "retry_wait" /\ status'[p] = "pending"
      BY <1>3, RequeuedType DEF ClaimNothing
    <2>2. /\ seq' = seq /\ lastSeq' = lastSeq /\ attempts' = attempts
          /\ handlers' = handlers /\ bus' = bus
      BY <1>3 DEF ClaimNothing
    <2> QED BY <2>1, <2>2, RowsRequeued DEF Terminal
  <1>4. ASSUME NEW c \in Consumers, CheckEffect(c) PROVE RowsInv'
    BY <1>4, <1>f DEF CheckEffect, durable
  <1>5. ASSUME NEW c \in Consumers, CommitTransactional(c) PROVE RowsInv'
    <2> DEFINE p == <<cur[c], c>>
               f == Follow[p]
    <2>a. p \in Pairs /\ f \in Events \cup {NoEvent}
      BY <1>5, <1>p DEF CommitTransactional, Working, ConstantsOK
    <2>b. attempts' = attempts /\ handlers' = handlers /\ bus' = bus
      BY <1>5 DEF CommitTransactional, Marked, Appends
    <2>1. CASE status' = status /\ seq' = seq /\ lastSeq' = lastSeq
      BY <2>1, <2>b, <1>f
    <2>2. CASE /\ f \in Events /\ seq[f] = 0
               /\ seq' = [seq EXCEPT ![f] = lastSeq + 1] /\ lastSeq' = lastSeq + 1
               /\ status' = WithRows(status, f, Route[f] \cap handlers)
      BY <2>2, <2>b, RowsAdmitted
    <2>3. CASE /\ f \in Events /\ seq[f] # 0
               /\ seq' = seq /\ lastSeq' = lastSeq
               /\ status' = WithRows(status, f, Route[f] \cap handlers)
      <3>1. \A q \in Pairs : status'[q] # status[q] =>
                /\ status[q] = "none" /\ status'[q] = "pending"
                /\ q[1] = f /\ q[2] \in Route[f] \cap handlers
        BY <2>3, WithRowsType DEF TypeOK
      <3>2. seq[f] > 0
        BY <2>3 DEF TypeOK
      <3> QED BY <3>1, <3>2, <2>3, <2>b, RowsRequeued DEF Terminal
    <2>4. \/ status' = status /\ seq' = seq /\ lastSeq' = lastSeq
          \/ /\ f \in Events /\ seq[f] = 0
             /\ seq' = [seq EXCEPT ![f] = lastSeq + 1] /\ lastSeq' = lastSeq + 1
             /\ status' = WithRows(status, f, Route[f] \cap handlers)
          \/ /\ f \in Events /\ seq[f] # 0
             /\ seq' = seq /\ lastSeq' = lastSeq
             /\ status' = WithRows(status, f, Route[f] \cap handlers)
      BY <1>5, <2>a DEF CommitTransactional, Marked, Appends
    <2> QED BY <2>1, <2>2, <2>3, <2>4
  <1>6. ASSUME NEW c \in Consumers, CommitPlain(c) PROVE RowsInv'
    BY <1>6, <1>f DEF CommitPlain
  <1>7. ASSUME NEW c \in Consumers, HandlerReturns(c) PROVE RowsInv'
    BY <1>7, <1>f DEF HandlerReturns, durable
  <1>8. ASSUME NEW c \in Consumers, HandlerRaises(c) PROVE RowsInv'
    BY <1>8, <1>f DEF HandlerRaises, durable
  <1>9. ASSUME NEW c \in Consumers, MarkSuccess(c) PROVE RowsInv'
    <2>1. \A q \in Pairs : status'[q] # status[q] =>
              status[q] = "processing" /\ status'[q] = "succeeded"
      BY <1>9 DEF MarkSuccess, TypeOK
    <2>2. /\ seq' = seq /\ lastSeq' = lastSeq /\ attempts' = attempts
          /\ handlers' = handlers /\ bus' = bus
      BY <1>9 DEF MarkSuccess
    <2> QED BY <2>1, <2>2, RowsRequeued DEF Terminal
  <1>10. ASSUME NEW c \in Consumers, MarkFailure(c) PROVE RowsInv'
    <2>1. \A q \in Pairs : status'[q] # status[q] =>
              status[q] = "processing" /\ status'[q] \in {"dead_letter", "retry_wait"}
      BY <1>10 DEF MarkFailure, Exhausted, TypeOK
    <2>2. /\ seq' = seq /\ lastSeq' = lastSeq /\ attempts' = attempts
          /\ handlers' = handlers /\ bus' = bus
      BY <1>10 DEF MarkFailure, Exhausted
    <2> QED BY <2>1, <2>2, RowsRequeued DEF Terminal
  <1>11. ASSUME NEW c \in Consumers, RunFails(c) PROVE RowsInv'
    BY <1>11, <1>f DEF RunFails, durable
  <1>12. ASSUME NEW p \in Pairs, RetryDue(p) PROVE RowsInv'
    BY <1>12, <1>f DEF RetryDue
  <1>13. ASSUME NEW p \in Pairs, LeaseExpires(p) PROVE RowsInv'
    BY <1>13, <1>f DEF LeaseExpires
  <1>14. CASE Run
    <2>1. \A p \in Pairs : status'[p] # status[p] =>
              /\ status'[p] = "pending"
              /\ status[p] \in {"none", "processing", "retry_wait"}
              /\ status[p] = "none" => seq[p[1]] > 0 /\ p[2] \in Route[p[1]]
      BY <1>14, RecoveredType DEF Run
    <2>2. /\ seq' = seq /\ lastSeq' = lastSeq /\ attempts' = attempts
          /\ handlers' = handlers
      BY <1>14, Zenon DEF Run
    <2>3. \A e \in Events : \A c \in Route[e] \cap handlers :
              seq[e] > 0 => status'[<<e, c>>] # "none"
      <3>1. \A e \in Events : \A c \in Route[e] \cap handlers :
                <<e, c>> \in Pairs /\ <<e, c>>[1] = e /\ <<e, c>>[2] = c
        BY DEF Pairs, TypeOK
      <3> QED BY <1>14, <3>1, RecoveredType DEF Run
    <2> QED BY <2>1, <2>2, <2>3, RowsRequeued DEF Terminal
  <1>15. CASE Quiesce
    BY <1>15, <1>f DEF Quiesce, durable
  <1>16. CASE Drain
    BY <1>16, <1>f DEF Drain, durable
  <1>17. CASE RunReturns
    BY <1>17, <1>f DEF RunReturns, durable
  <1>18. CASE ReleaseLeases
    <2>1. \A q \in Pairs : status'[q] # status[q] =>
              status[q] = "processing" /\ status'[q] = "pending"
      BY <1>18 DEF ReleaseLeases, NoWriterLeft, TypeOK
    <2>2. /\ seq' = seq /\ lastSeq' = lastSeq /\ attempts' = attempts
          /\ handlers' = handlers /\ bus' = "off"
      BY <1>18 DEF ReleaseLeases, NoWriterLeft
    <2> QED BY <2>1, <2>2, RowsRequeued DEF Terminal
  <1>19. CASE Crash
    BY <1>19, <1>f DEF Crash, durable
  <1>20. CASE Start
    BY <1>20, RowsRequeued DEF Start, durable
  <1>21. CASE UNCHANGED vars
    BY <1>21, <1>f DEF vars, durable
  <1> QED
    BY <1>1, <1>2, <1>3, <1>4, <1>5, <1>6, <1>7, <1>8, <1>9, <1>10, <1>11, <1>12,
       <1>13, <1>14, <1>15, <1>16, <1>17, <1>18, <1>19, <1>20, <1>21 DEF Next, Worker

-----------------------------------------------------------------------------
(* Effect markers *)

MarkInv == MarkersEarned /\ AppliedOnce /\ SucceededWasApplied /\ FollowUpDurable

LEMMA MarkInit == ConstantsOK /\ Init => MarkInv
  BY DEF ConstantsOK, Init, MarkInv, MarkersEarned, AppliedOnce, SucceededWasApplied,
     FollowUpDurable, Pairs

\* Steps that commit no domain change and settle nothing as succeeded.
LEMMA MarkFrame ==
    ASSUME ConstantsOK, TypeOK, MarkInv,
           effect' = effect, applied' = applied,
           \A e \in Events : seq[e] > 0 => seq'[e] > 0,
           \A p \in Pairs : status'[p] = "succeeded" => status[p] = "succeeded",
           \A c \in Consumers : pc'[c] \in {"committed", "succeeding"} =>
               cur'[c] = cur[c] /\ applied[<<cur[c], c>>] >= 1
    PROVE  MarkInv'
  <1> USE DEF MarkInv
  <1>1. MarkersEarned'
    BY DEF MarkersEarned
  <1>2. AppliedOnce' /\ SucceededWasApplied'
    BY DEF AppliedOnce, SucceededWasApplied
  <1>3. FollowUpDurable'
    BY DEF FollowUpDurable, ConstantsOK
  <1> QED BY <1>1, <1>2, <1>3

LEMMA MarkStep == ConstantsOK /\ Base /\ MarkInv /\ [Next]_vars => MarkInv'
  <1> SUFFICES ASSUME ConstantsOK, Base, MarkInv, [Next]_vars PROVE MarkInv'
    OBVIOUS
  <1> USE DEF Base
  <1>p. \A c \in Consumers : pc[c] \in Working => <<cur[c], c>> \in Pairs
    BY DEF WorkerHoldsLease, Pairs
  <1>c. \A c \in Consumers :
            pc[c] \in {"committed", "succeeding"} => applied[<<cur[c], c>>] >= 1
    BY DEF MarkInv, MarkersEarned
  <1>f. ASSUME effect' = effect, applied' = applied, seq' = seq,
               \A p \in Pairs : status'[p] = "succeeded" => status[p] = "succeeded",
               \A c \in Consumers : pc'[c] \in {"committed", "succeeding"} =>
                   cur'[c] = cur[c] /\ pc[c] \in {"committed", "succeeding"}
        PROVE  MarkInv'
    BY <1>f, <1>c, MarkFrame
  <1>1. ASSUME NEW e \in Events, Publish(e) PROVE MarkInv'
    <2>0. status' = WithRows(status, e, Route[e] \cap handlers)
      BY <1>1, Zenon DEF Publish
    <2>1. \A p \in Pairs : status'[p] = "succeeded" => status[p] = "succeeded"
      BY <2>0, WithRowsType DEF TypeOK
    <2>2. \A f \in Events : seq[f] > 0 => seq'[f] > 0
      BY <1>1 DEF Publish, TypeOK
    <2>3. /\ effect' = effect /\ applied' = applied /\ pc' = pc /\ cur' = cur
      BY <1>1, Zenon DEF Publish
    <2> QED BY <2>1, <2>2, <2>3, <1>c, MarkFrame
  <1>2. ASSUME NEW c \in Consumers, Claim(c) PROVE MarkInv'
    <2>1. \A p \in Pairs : status'[p] = "succeeded" => status[p] = "succeeded"
      BY <1>2, RequeuedType DEF Claim, TypeOK
    <2>2. /\ effect' = effect /\ applied' = applied /\ seq' = seq
      BY <1>2 DEF Claim
    <2>3. \A d \in Consumers : pc'[d] \in {"committed", "succeeding"} =>
              cur'[d] = cur[d] /\ pc[d] \in {"committed", "succeeding"}
      BY <1>2 DEF Claim, TypeOK
    <2> QED BY <2>1, <2>2, <2>3, <1>f
  <1>3. ASSUME NEW c \in Consumers, ClaimNothing(c) PROVE MarkInv'
    <2>1. \A p \in Pairs : status'[p] = "succeeded" => status[p] = "succeeded"
      BY <1>3, RequeuedType DEF ClaimNothing
    <2>2. \A d \in Consumers : pc'[d] \in {"committed", "succeeding"} =>
              cur'[d] = cur[d] /\ pc[d] \in {"committed", "succeeding"}
      BY <1>3 DEF ClaimNothing, AtLoopTop, TypeOK
    <2> QED BY <1>3, <2>1, <2>2, <1>f DEF ClaimNothing
  <1>4. ASSUME NEW c \in Consumers, CheckEffect(c) PROVE MarkInv'
    <2>1. \A d \in Consumers : pc'[d] \in {"committed", "succeeding"} =>
              cur'[d] = cur[d] /\ applied[<<cur[d], d>>] >= 1
      BY <1>4, <1>p, <1>c DEF CheckEffect, TypeOK, MarkInv, MarkersEarned, Working
    <2> QED BY <1>4, <2>1, MarkFrame DEF CheckEffect, durable
  <1>5. ASSUME NEW c \in Consumers, CommitTransactional(c) PROVE MarkInv'
    <2> DEFINE p == <<cur[c], c>>
               f == Follow[p]
    <2>a. p \in Pairs /\ f \in Events \cup {NoEvent} /\ c \in Transactional
      BY <1>5, <1>p DEF CommitTransactional, Working, ConstantsOK
    <2>b. /\ effect' = effect \cup {p}
          /\ p \in effect => applied' = applied
          /\ p \notin effect => applied' = [applied EXCEPT ![p] = applied[p] + 1]
          /\ pc' = [pc EXCEPT ![c] = "committed"] /\ cur' = cur
      BY <1>5 DEF CommitTransactional, Marked, Appends
    <2>c. p \notin effect => applied[p] = 0
      BY <2>a DEF MarkInv, MarkersEarned, TypeOK, Pairs
    <2>d. applied'[p] = 1
      BY <2>a, <2>b, <2>c DEF MarkInv, MarkersEarned, AppliedOnce, TypeOK, Pairs
    <2>e. \A q \in Pairs : q # p => applied'[q] = applied[q] /\ (q \in effect' <=> q \in effect)
      BY <2>a, <2>b DEF TypeOK
    <2>s. /\ \A e \in Events : seq[e] > 0 => seq'[e] > 0
          /\ p \notin effect /\ f # NoEvent => seq'[f] > 0
      BY <1>5, <2>a DEF CommitTransactional, Marked, Appends, TypeOK
    <2>t. \A q \in Pairs : status'[q] = "succeeded" => status[q] = "succeeded"
      <3>1. \/ status' = status
            \/ status' = WithRows(status, f, Route[f] \cap handlers)
        BY <1>5 DEF CommitTransactional, Marked, Appends
      <3> QED BY <3>1, WithRowsType DEF TypeOK
    <2>1. MarkersEarned'
      <3>1. \A q \in Pairs :
              /\ q \in effect' => applied'[q] >= 1
              /\ q[2] \in Transactional /\ applied'[q] > 0 => q \in effect'
              /\ q[2] \notin Transactional => applied'[q] <= 1
        BY <2>b, <2>d, <2>e DEF MarkInv, MarkersEarned
      <3>2. \A d \in Consumers :
              pc'[d] \in {"committed", "succeeding"} => applied'[<<cur'[d], d>>] >= 1
        <4> TAKE d \in Consumers
        <4>1. CASE d = c
          BY <4>1, <2>b, <2>d
        <4>2. CASE d # c
          <5>1. <<cur[d], d>> # p
            BY <4>2
          <5>2. pc'[d] = pc[d]
            BY <4>2, <2>b DEF TypeOK
          <5> QED BY <5>1, <5>2, <1>p, <1>c, <2>b, <2>e DEF Working
        <4> QED BY <4>1, <4>2
      <3> QED BY <3>1, <3>2 DEF MarkersEarned
    <2>2. AppliedOnce' /\ SucceededWasApplied'
      BY <2>d, <2>e, <2>t DEF MarkInv, AppliedOnce, SucceededWasApplied
    <2>3. FollowUpDurable'
      <3> SUFFICES ASSUME NEW q \in Pairs, q[2] \in Transactional, applied'[q] > 0,
                          Follow[q] # NoEvent
                   PROVE  seq'[Follow[q]] > 0
        BY DEF FollowUpDurable
      <3>0. Follow[q] \in Events
        BY DEF ConstantsOK
      <3>1. CASE q = p /\ p \notin effect
        BY <3>1, <2>s
      <3>2. CASE q # p \/ p \in effect
        <4>1. applied[q] > 0
          BY <3>2, <2>b, <2>e
        <4>2. seq[Follow[q]] > 0
          BY <4>1 DEF MarkInv, FollowUpDurable
        <4> QED BY <4>2, <3>0, <2>s
      <3> QED BY <3>1, <3>2
    <2> QED BY <2>1, <2>2, <2>3 DEF MarkInv
  <1>6. ASSUME NEW c \in Consumers, CommitPlain(c) PROVE MarkInv'
    <2> DEFINE p == <<cur[c], c>>
    <2>a. p \in Pairs /\ c \notin Transactional
      BY <1>6, <1>p DEF CommitPlain, Working
    <2>b. /\ effect' = effect /\ seq' = seq /\ status' = status /\ cur' = cur
          /\ applied' = [applied EXCEPT ![p] = 1]
          /\ pc' = [pc EXCEPT ![c] = "committed"]
      BY <1>6 DEF CommitPlain
    <2>c. applied'[p] = 1 /\ p[2] \notin Transactional
      BY <2>a, <2>b DEF TypeOK
    <2>d. \A q \in Pairs : q # p => applied'[q] = applied[q]
      BY <2>a, <2>b DEF TypeOK
    <2>1. MarkersEarned'
      <3>1. \A q \in Pairs :
              /\ q \in effect' => applied'[q] >= 1
              /\ q[2] \in Transactional /\ applied'[q] > 0 => q \in effect'
              /\ q[2] \notin Transactional => applied'[q] <= 1
        BY <2>b, <2>c, <2>d DEF MarkInv, MarkersEarned
      <3>2. \A d \in Consumers :
              pc'[d] \in {"committed", "succeeding"} => applied'[<<cur'[d], d>>] >= 1
        <4> TAKE d \in Consumers
        <4>1. CASE d = c
          BY <4>1, <2>b, <2>c
        <4>2. CASE d # c
          <5>1. <<cur[d], d>> # p
            BY <4>2
          <5>2. pc'[d] = pc[d]
            BY <4>2, <2>b DEF TypeOK
          <5> QED BY <5>1, <5>2, <1>p, <1>c, <2>b, <2>d DEF Working
        <4> QED BY <4>1, <4>2
      <3> QED BY <3>1, <3>2 DEF MarkersEarned
    <2>2. AppliedOnce' /\ SucceededWasApplied' /\ FollowUpDurable'
      BY <2>b, <2>c, <2>d DEF MarkInv, AppliedOnce, SucceededWasApplied, FollowUpDurable
    <2> QED BY <2>1, <2>2 DEF MarkInv
  <1>7. ASSUME NEW c \in Consumers, HandlerReturns(c) PROVE MarkInv'
    BY <1>7, <1>f DEF HandlerReturns, durable, TypeOK
  <1>8. ASSUME NEW c \in Consumers, HandlerRaises(c) PROVE MarkInv'
    BY <1>8, <1>f DEF HandlerRaises, durable, TypeOK
  <1>9. ASSUME NEW c \in Consumers, MarkSuccess(c) PROVE MarkInv'
    <2> DEFINE p == <<cur[c], c>>
    <2>a. p \in Pairs /\ applied[p] >= 1
      BY <1>9, <1>p, <1>c DEF MarkSuccess, Working
    <2>b. /\ effect' = effect \/ effect' = effect \cup {p}
          /\ applied' = applied /\ seq' = seq
          /\ \A q \in Pairs : status'[q] = "succeeded" => status[q] = "succeeded" \/ q = p
          /\ \A d \in Consumers : pc'[d] \in {"committed", "succeeding"} =>
                 pc[d] = pc'[d] /\ cur'[d] = cur[d]
      BY <1>9 DEF MarkSuccess, TypeOK, AtLoopTop
    <2>1. MarkersEarned'
      BY <2>a, <2>b, <1>c DEF MarkInv, MarkersEarned
    <2>2. AppliedOnce' /\ SucceededWasApplied' /\ FollowUpDurable'
      BY <2>a, <2>b DEF MarkInv, AppliedOnce, SucceededWasApplied, FollowUpDurable
    <2> QED BY <2>1, <2>2 DEF MarkInv
  <1>10. ASSUME NEW c \in Consumers, MarkFailure(c) PROVE MarkInv'
    <2>1. \A q \in Pairs : status'[q] = "succeeded" => status[q] = "succeeded"
      BY <1>10 DEF MarkFailure, Exhausted, TypeOK
    <2>2. \A d \in Consumers : pc'[d] \in {"committed", "succeeding"} =>
              cur'[d] = cur[d] /\ pc[d] \in {"committed", "succeeding"}
      BY <1>10 DEF MarkFailure, Exhausted, TypeOK, AtLoopTop
    <2> QED BY <1>10, <2>1, <2>2, <1>f DEF MarkFailure, Exhausted
  <1>11. ASSUME NEW c \in Consumers, RunFails(c) PROVE MarkInv'
    BY <1>11, <1>f DEF RunFails, WorkersDown, durable
  <1>12. ASSUME NEW p \in Pairs, RetryDue(p) PROVE MarkInv'
    BY <1>12, <1>f DEF RetryDue
  <1>13. ASSUME NEW p \in Pairs, LeaseExpires(p) PROVE MarkInv'
    BY <1>13, <1>f DEF LeaseExpires
  <1>14. CASE Run
    <2>1. \A p \in Pairs : status'[p] = "succeeded" => status[p] = "succeeded"
      BY <1>14, RecoveredType DEF Run
    <2>2. effect' = effect /\ applied' = applied /\ seq' = seq
      BY <1>14, Zenon DEF Run
    <2>3. \A c \in Consumers : pc'[c] \notin {"committed", "succeeding"}
      BY <1>14 DEF Run
    <2> QED BY <2>1, <2>2, <2>3, <1>f
  <1>15. CASE Quiesce
    BY <1>15, <1>f DEF Quiesce, durable
  <1>16. CASE Drain
    BY <1>16, <1>f DEF Drain, durable
  <1>17. CASE RunReturns
    BY <1>17, <1>f DEF RunReturns, WorkersDown, durable
  <1>18. CASE ReleaseLeases
    BY <1>18, <1>f DEF ReleaseLeases, NoWriterLeft, TypeOK
  <1>19. CASE Crash
    BY <1>19, <1>f DEF Crash, WorkersDown, durable
  <1>20. CASE Start
    BY <1>20, <1>f DEF Start, durable
  <1>21. CASE UNCHANGED vars
    BY <1>21, <1>f DEF vars, durable
  <1> QED
    BY <1>1, <1>2, <1>3, <1>4, <1>5, <1>6, <1>7, <1>8, <1>9, <1>10, <1>11, <1>12,
       <1>13, <1>14, <1>15, <1>16, <1>17, <1>18, <1>19, <1>20, <1>21 DEF Next, Worker

-----------------------------------------------------------------------------
(* Attempts *)

LEMMA BudgetInit == ConstantsOK /\ Init => AttemptsBudget
  BY DEF ConstantsOK, Init, AttemptsBudget

\* Steps that leave rows, attempts and the number of runs alone, or requeue nothing
\* beyond the limit.
LEMMA BudgetFrame ==
    ASSUME ConstantsOK, TypeOK, AttemptsBudget,
           attempts' = attempts, runs' = runs,
           bus' = "running" => bus = "running",
           \A p \in Pairs : status'[p] = "retry_wait" =>
               status[p] = "retry_wait" \/ attempts[p] < MaxAttempts,
           bus' = "running" => \A p \in Pairs : status'[p] = "pending" =>
               status[p] \in {"pending", "retry_wait"} \/ attempts[p] = 0
    PROVE  AttemptsBudget'
  BY DEF AttemptsBudget, ConstantsOK, TypeOK

LEMMA BudgetStep == ConstantsOK /\ Base /\ RowsInv /\ AttemptsBudget /\ [Next]_vars
                        => AttemptsBudget'
  <1> SUFFICES ASSUME ConstantsOK, Base, RowsInv, AttemptsBudget, [Next]_vars
               PROVE  AttemptsBudget'
    OBVIOUS
  <1> USE DEF Base
  <1>n. \A p \in Pairs : status[p] = "none" => attempts[p] = 0
    <2>1. \A e \in Events, c \in Consumers : status[<<e, c>>] = "none" => attempts[<<e, c>>] = 0
      <3> TAKE e \in Events, c \in Consumers
      <3>1. attempts[<<e, c>>] \in Nat
        BY DEF TypeOK, Pairs
      <3> QED BY <3>1 DEF RowsInv, RowsWellFormed
    <2> QED BY <2>1 DEF Pairs
  <1>f. ASSUME attempts' = attempts, runs' = runs, status' = status,
               bus' = "running" => bus = "running"
        PROVE  AttemptsBudget'
    BY <1>f, BudgetFrame
  <1>w. ASSUME NEW e, NEW cs, status' = WithRows(status, e, cs),
               attempts' = attempts, runs' = runs, bus' = bus
        PROVE  AttemptsBudget'
    <2>1. \A p \in Pairs : status'[p] # status[p] => status[p] = "none" /\ status'[p] = "pending"
      BY <1>w, WithRowsType DEF TypeOK
    <2> QED BY <2>1, <1>w, <1>n, BudgetFrame
  <1>1. ASSUME NEW e \in Events, Publish(e) PROVE AttemptsBudget'
    BY <1>1, <1>w, Zenon DEF Publish
  <1>2. ASSUME NEW c \in Consumers, Claim(c) PROVE AttemptsBudget'
    <2> DEFINE st == Requeued(status, {c})
    <2> PICK e \in Events :
            /\ Claimable(st, c, e)
            /\ status' = [st EXCEPT ![<<e, c>>] = "processing"]
            /\ attempts' = [attempts EXCEPT ![<<e, c>>] = @ + 1]
      BY <1>2 DEF Claim
    <2>1. bus = "running" /\ bus' = "running" /\ runs' = runs
      BY <1>2 DEF Claim
    <2>2. st[<<e, c>>] = "pending" /\ <<e, c>> \in Pairs
      BY DEF Claimable, Pairs
    <2>3. \A p \in Pairs : st[p] = "pending" => attempts[p] + 1 < MaxAttempts + runs
      <3>1. \A p \in Pairs : st[p] = "pending" => status[p] \in {"pending", "retry_wait"}
        BY RequeuedType
      <3>2. MaxAttempts \in Nat /\ runs \in Nat /\ runs > 0
        BY <2>1 DEF AttemptsBudget, ConstantsOK, TypeOK
      <3>3. \A p \in Pairs : attempts[p] \in Nat
        BY DEF TypeOK
      <3> TAKE p \in Pairs
      <3>4. CASE status[p] = "pending"
        BY <3>4, <2>1 DEF AttemptsBudget
      <3>5. CASE status[p] = "retry_wait"
        BY <3>2, <3>3, <3>5 DEF AttemptsBudget
      <3> QED BY <3>1, <3>4, <3>5
    <2>4. /\ attempts'[<<e, c>>] < MaxAttempts + runs
          /\ status'[<<e, c>>] = "processing"
      BY <2>2, <2>3, RequeuedType DEF TypeOK
    <2>5. \A p \in Pairs : p # <<e, c>> => attempts'[p] = attempts[p] /\ status'[p] = st[p]
      BY RequeuedType DEF TypeOK
    <2>6. \A p \in Pairs : st[p] = "retry_wait" => status[p] = "retry_wait"
      BY RequeuedType
    <2> QED BY <2>1, <2>3, <2>4, <2>5, <2>6 DEF AttemptsBudget
  <1>3. ASSUME NEW c \in Consumers, ClaimNothing(c) PROVE AttemptsBudget'
    <2>1. \A p \in Pairs : status'[p] # status[p] =>
              status[p] = "retry_wait" /\ status'[p] = "pending"
      BY <1>3, RequeuedType DEF ClaimNothing
    <2>2. attempts' = attempts /\ runs' = runs /\ bus' = bus
      BY <1>3 DEF ClaimNothing
    <2> QED BY <2>1, <2>2, BudgetFrame
  <1>4. ASSUME NEW c \in Consumers, CheckEffect(c) PROVE AttemptsBudget'
    BY <1>4, <1>f DEF CheckEffect, durable
  <1>5. ASSUME NEW c \in Consumers, CommitTransactional(c) PROVE AttemptsBudget'
    <2> DEFINE f == Follow[<<cur[c], c>>]
    <2>1. \/ status' = status
          \/ status' = WithRows(status, f, Route[f] \cap handlers)
      BY <1>5 DEF CommitTransactional, Marked, Appends
    <2>2. attempts' = attempts /\ runs' = runs /\ bus' = bus
      BY <1>5 DEF CommitTransactional, Marked, Appends
    <2> QED BY <2>1, <2>2, <1>f, <1>w
  <1>6. ASSUME NEW c \in Consumers, CommitPlain(c) PROVE AttemptsBudget'
    BY <1>6, <1>f DEF CommitPlain
  <1>7. ASSUME NEW c \in Consumers, HandlerReturns(c) PROVE AttemptsBudget'
    BY <1>7, <1>f DEF HandlerReturns, durable
  <1>8. ASSUME NEW c \in Consumers, HandlerRaises(c) PROVE AttemptsBudget'
    BY <1>8, <1>f DEF HandlerRaises, durable
  <1>9. ASSUME NEW c \in Consumers, MarkSuccess(c) PROVE AttemptsBudget'
    <2>1. \A q \in Pairs : status'[q] # status[q] => status'[q] = "succeeded"
      BY <1>9 DEF MarkSuccess, TypeOK
    <2>2. attempts' = attempts /\ runs' = runs /\ bus' = bus
      BY <1>9 DEF MarkSuccess
    <2> QED BY <2>1, <2>2, BudgetFrame
  <1>10. ASSUME NEW c \in Consumers, MarkFailure(c) PROVE AttemptsBudget'
    <2>1. \A q \in Pairs : status'[q] # status[q] =>
              \/ status'[q] = "dead_letter"
              \/ status'[q] = "retry_wait" /\ ~ (attempts[q] >= MaxAttempts)
      BY <1>10 DEF MarkFailure, Exhausted, TypeOK
    <2>2. attempts' = attempts /\ runs' = runs /\ bus' = bus
      BY <1>10 DEF MarkFailure, Exhausted
    <2>3. \A q \in Pairs : ~ (attempts[q] >= MaxAttempts) => attempts[q] < MaxAttempts
      BY DEF TypeOK, ConstantsOK
    <2> QED BY <2>1, <2>2, <2>3, BudgetFrame
  <1>11. ASSUME NEW c \in Consumers, RunFails(c) PROVE AttemptsBudget'
    BY <1>11, <1>f DEF RunFails, durable
  <1>12. ASSUME NEW p \in Pairs, RetryDue(p) PROVE AttemptsBudget'
    BY <1>12, <1>f DEF RetryDue
  <1>13. ASSUME NEW p \in Pairs, LeaseExpires(p) PROVE AttemptsBudget'
    BY <1>13, <1>f DEF LeaseExpires
  <1>14. CASE Run
    <2>1. runs' = runs + 1 /\ attempts' = attempts /\ runs \in Nat
      BY <1>14, Zenon DEF Run, TypeOK
    <2>2. \A p \in Pairs : status'[p] = "retry_wait" => status[p] = "retry_wait"
      BY <1>14, RecoveredType DEF Run
    <2>3. \A p \in Pairs : attempts[p] \in Nat
      BY DEF TypeOK
    <2> QED BY <2>1, <2>2, <2>3 DEF AttemptsBudget, ConstantsOK
  <1>15. CASE Quiesce
    BY <1>15, <1>f DEF Quiesce, durable
  <1>16. CASE Drain
    BY <1>16, <1>f DEF Drain, durable
  <1>17. CASE RunReturns
    BY <1>17, <1>f DEF RunReturns, durable
  <1>18. CASE ReleaseLeases
    <2>1. \A q \in Pairs : status'[q] = "retry_wait" => status[q] = "retry_wait"
      BY <1>18 DEF ReleaseLeases, NoWriterLeft
    <2>2. attempts' = attempts /\ runs' = runs /\ bus' = "off"
      BY <1>18 DEF ReleaseLeases, NoWriterLeft
    <2> QED BY <2>1, <2>2, BudgetFrame
  <1>19. CASE Crash
    BY <1>19, <1>f DEF Crash, durable
  <1>20. CASE Start
    BY <1>20, <1>f DEF Start, durable
  <1>21. CASE UNCHANGED vars
    BY <1>21, <1>f DEF vars, durable
  <1> QED
    BY <1>1, <1>2, <1>3, <1>4, <1>5, <1>6, <1>7, <1>8, <1>9, <1>10, <1>11, <1>12,
       <1>13, <1>14, <1>15, <1>16, <1>17, <1>18, <1>19, <1>20, <1>21 DEF Next, Worker

-----------------------------------------------------------------------------
(* The invariant, and the safety properties it implies *)

IInv == Base /\ RowsInv /\ MarkInv /\ AttemptsBudget

LEMMA Inductive == IInv /\ [Next]_vars => IInv'
  BY ConstantsOK, BaseStep, RowsStep, MarkStep, BudgetStep DEF IInv

LEMMA Invariance == Spec => []IInv
  <1>1. Init => IInv
    BY ConstantsOK, BaseInit, RowsInit, MarkInit, BudgetInit DEF IInv
  <1> QED BY <1>1, Inductive, PTL DEF Spec

\* Every variable keeps its type through every step of the bus, its supervisor and
\* the stop and restart of the character.
THEOREM TypeCorrect == Spec => []TypeOK
  <1>1. IInv => TypeOK
    BY DEF IInv, Base
  <1> QED BY <1>1, Invariance, PTL

\* recover_deliveries, _release_processing_deliveries and a restarted run() never
\* requeue or settle a delivery under a live handler.
THEOREM NoDeliveryStolen == Spec => []WorkerHoldsLease
  <1>1. IInv => WorkerHoldsLease
    BY DEF IInv, Base
  <1> QED BY <1>1, Invariance, PTL

\* A handler that calls try_mark_effect in its own transaction changes its domain
\* at most once per event, however often the event is delivered.
THEOREM EffectOnce == Spec => []AppliedOnce
  <1>1. IInv => AppliedOnce
    BY DEF IInv, MarkInv
  <1> QED BY <1>1, Invariance, PTL

\* _mark_success is reached only after the handler committed, in this attempt or in
\* the one that left the marker _has_effect found.
THEOREM SuccessEarned == Spec => []SucceededWasApplied
  <1>1. IInv => SucceededWasApplied
    BY DEF IInv, MarkInv
  <1> QED BY <1>1, Invariance, PTL

\* append_in_transaction: the follow-up of an applied transactional effect is in the
\* log, so no crash can lose it.
THEOREM FollowUpKept == Spec => []FollowUpDurable
  <1>1. IInv => FollowUpDurable
    BY DEF IInv, MarkInv
  <1> QED BY <1>1, Invariance, PTL

\* _claim_next begins the deliveries of a sequence-ordered consumer in the order in
\* which publish numbered the events, through backoffs, restarts and new consumers.
THEOREM AdmissionOrder == Spec => []InAdmissionOrder
  <1>1. IInv => InAdmissionOrder
    BY DEF IInv, RowsInv
  <1> QED BY <1>1, Invariance, PTL

\* A delivery is claimed beyond max_attempts only for runs that ended under it.
THEOREM AttemptsLimited == Spec => []AttemptsBounded
  <1>1. IInv => AttemptsBounded
    BY DEF IInv, AttemptsBudget, AttemptsBounded
  <1> QED BY <1>1, Invariance, PTL

\* publish, append_in_transaction and recover_deliveries together leave no admitted
\* event without a row for a consumer that is running.
THEOREM NoEventForgotten == Spec => []NothingForgotten
  <1>1. IInv => NothingForgotten
    BY ConstantsOK DEF IInv, RowsInv, RowsComplete, NothingForgotten, ConstantsOK
  <1> QED BY <1>1, Invariance, PTL

-----------------------------------------------------------------------------
(* EventDelivery implements DeliveryContract *)

\* What outcome says of one row.
LEMMA OutcomeOf ==
    ASSUME TypeOK, NEW p \in Pairs
    PROVE  /\ outcome[p] \in {"none", "owed", "done", "dead"}
           /\ outcome[p] = "none" <=> status[p] = "none"
           /\ outcome[p] = "done" <=> status[p] = "succeeded"
           /\ outcome[p] = "dead" <=> status[p] = "dead_letter"
  BY DEF outcome, TypeOK, Status

\* Steps that settle nothing: whatever rows they add become owed.
LEMMA Owing ==
    ASSUME TypeOK, TypeOK', RowsWellFormed',
           \A p \in Pairs : status'[p] # status[p] =>
               status[p] \notin Terminal /\ status'[p] \notin Terminal \cup {"none"}
    PROVE  \E S \in SUBSET (Events \X Consumers) :
              /\ \A p \in S : outcome[p] = "none" /\ p[2] \in Route[p[1]]
              /\ outcome' = [p \in Events \X Consumers |->
                                IF p \in S THEN "owed" ELSE outcome[p]]
  <1> DEFINE S == {p \in Pairs : status[p] = "none" /\ status'[p] # "none"}
  <1>1. \A p \in S : outcome[p] = "none" /\ p[2] \in Route[p[1]]
    <2> TAKE p \in S
    <2>1. outcome[p] = "none"
      BY OutcomeOf
    <2>2. p[2] \in Route[p[1]]
      BY DEF RowsWellFormed, Pairs
    <2> QED BY <2>1, <2>2
  <1>2. ASSUME NEW p \in Pairs
        PROVE  outcome'[p] = IF p \in S THEN "owed" ELSE outcome[p]
    BY DEF outcome, TypeOK, Status, Terminal
  <1>3. outcome' = [p \in Events \X Consumers |-> IF p \in S THEN "owed" ELSE outcome[p]]
    BY <1>2 DEF outcome, Pairs
  <1> QED BY <1>1, <1>3 DEF Pairs

\* A row that is being processed has its turn.
LEMMA InTurn ==
    ASSUME ConstantsOK, TypeOK, RowsInv, NEW e \in Events, NEW c \in Consumers,
           status[<<e, c>>] = "processing"
    PROVE  Contract!Served(e, c) /\ outcome[<<e, c>>] = "owed"
  <1>p. \A f \in Events : <<f, c>> \in Pairs
    BY DEF Pairs
  <1>1. outcome[<<e, c>>] = "owed"
    BY <1>p, OutcomeOf
  <1>2. ASSUME c \in SeqOrdered, NEW f \in Events,
               seq[f] > 0, seq[f] < seq[e], c \in Route[f]
        PROVE  Contract!Settled(<<f, c>>)
    <2>1. attempts[<<e, c>>] > 0
      BY DEF RowsInv, RowsWellFormed
    <2>2. status[<<f, c>>] \in Terminal
      BY <1>2, <2>1 DEF RowsInv, InAdmissionOrder
    <2> QED BY <1>p, <2>2, OutcomeOf DEF Contract!Settled, Terminal
  <1> QED BY <1>1, <1>2 DEF Contract!Served

\* The log only grows.
LEMMA LogGrows ==
    ASSUME TypeOK, TypeOK', [Next]_vars
    PROVE  \A e \in Events : seq[e] > 0 => seq'[e] = seq[e]
  <1>1. ASSUME NEW e \in Events, Publish(e)
        PROVE  \A f \in Events : seq[f] > 0 => seq'[f] = seq[f]
    BY <1>1 DEF Publish, TypeOK
  <1>2. ASSUME NEW c \in Consumers, CommitTransactional(c)
        PROVE  \A f \in Events : seq[f] > 0 => seq'[f] = seq[f]
    BY <1>2 DEF CommitTransactional, Marked, Appends, TypeOK
  <1>3. CASE UNCHANGED seq
    BY <1>3
  <1>4. CASE Run
    <2>1. seq' = seq
      BY <1>4, Zenon DEF Run
    <2> QED BY <2>1
  <1> QED
    BY <1>1, <1>2, <1>3, <1>4
       DEF Next, Worker, Claim, ClaimNothing, CheckEffect, CommitPlain, HandlerReturns,
           HandlerRaises, MarkSuccess, MarkFailure, RunFails, RetryDue, LeaseExpires,
           Quiesce, Drain, RunReturns, ReleaseLeases, Crash, Start, durable, vars

\* Every step of the bus is a step of the contract or a stutter.
LEMMA ContractStep == IInv /\ IInv' /\ [Next]_vars => Contract!Next
  <1> SUFFICES ASSUME IInv, IInv', [Next]_vars PROVE Contract!Next
    OBVIOUS
  <1>i. /\ TypeOK /\ TypeOK' /\ RowsInv /\ RowsWellFormed' /\ MarkInv
        /\ WorkerHoldsLease
    BY DEF IInv, Base, RowsInv
  <1>p. \A c \in Consumers : pc[c] \in Working =>
            /\ cur[c] \in Events /\ <<cur[c], c>> \in Pairs
            /\ status[<<cur[c], c>>] = "processing"
    BY <1>i DEF WorkerHoldsLease, Pairs
  <1>l. /\ \A e \in Events : seq[e] > 0 => seq'[e] = seq[e]
        /\ seq' \in [Events -> Nat]
    BY <1>i, LogGrows DEF TypeOK
  <1>t. \A c \in Consumers : pc[c] \in Working =>
            Contract!Served(cur[c], c) /\ outcome[<<cur[c], c>>] = "owed"
    BY <1>i, <1>p, ConstantsOK, InTurn
  <1>o. ASSUME applied' = applied,
               \A p \in Pairs : status'[p] # status[p] =>
                   status[p] \notin Terminal /\ status'[p] \notin Terminal \cup {"none"}
        PROVE  Contract!Next
    <2>1. Contract!Owe
      BY <1>o, <1>i, <1>l, Owing DEF Contract!Owe
    <2> QED BY <2>1 DEF Contract!Next
  <1>1. ASSUME NEW e \in Events, Publish(e) PROVE Contract!Next
    <2>1. applied' = applied /\ status' = WithRows(status, e, Route[e] \cap handlers)
      BY <1>1, Zenon DEF Publish
    <2> QED BY <2>1, <1>i, <1>o, WithRowsType DEF TypeOK, Terminal
  <1>2. ASSUME NEW c \in Consumers, Claim(c) PROVE Contract!Next
    <2> DEFINE st == Requeued(status, {c})
    <2>1. PICK e \in Events : /\ Claimable(st, c, e)
                              /\ status' = [st EXCEPT ![<<e, c>>] = "processing"]
      BY <1>2 DEF Claim
    <2>2. applied' = applied
      BY <1>2 DEF Claim
    <2>3. /\ st \in [Pairs -> Status]
          /\ \A p \in Pairs : st[p] # status[p] => status[p] = "retry_wait" /\ st[p] = "pending"
      BY <1>i, RequeuedType
    <2>4. <<e, c>> \in Pairs /\ status[<<e, c>>] \in {"pending", "retry_wait"}
      BY <2>1, <2>3 DEF Claimable, Pairs
    <2>5. \A p \in Pairs : status'[p] # status[p] =>
              /\ status[p] \in {"pending", "retry_wait"}
              /\ status'[p] \in {"pending", "processing"}
      BY <2>1, <2>3, <2>4
    <2> QED BY <2>2, <2>5, <1>o DEF Terminal
  <1>3. ASSUME NEW c \in Consumers, ClaimNothing(c) PROVE Contract!Next
    <2>1. applied' = applied /\ status' = Requeued(status, {c})
      BY <1>3 DEF ClaimNothing
    <2> QED BY <2>1, <1>i, <1>o, RequeuedType DEF Terminal
  <1>4. ASSUME NEW c \in Consumers, CheckEffect(c) PROVE Contract!Next
    BY <1>4, <1>o DEF CheckEffect, durable
  <1>a. ASSUME NEW c \in Consumers, pc[c] \in Working,
               c \in Transactional => applied[<<cur[c], c>>] = 0,
               applied' = [applied EXCEPT ![<<cur[c], c>>] = @ + 1],
               \A p \in Pairs : status'[p] # status[p] =>
                   status[p] \notin Terminal /\ status'[p] \notin Terminal \cup {"none"}
        PROVE  Contract!Next
    <2>1. Contract!Apply(cur[c], c)
      BY <1>a, <1>i, <1>t, <1>l, Owing DEF Contract!Apply
    <2>2. cur[c] \in Events
      BY <1>a, <1>p
    <2> QED BY <2>1, <2>2 DEF Contract!Next
  <1>5. ASSUME NEW c \in Consumers, CommitTransactional(c) PROVE Contract!Next
    <2> DEFINE p == <<cur[c], c>>
               f == Follow[p]
    <2>1. p \in Pairs /\ pc[c] \in Working /\ c \in Transactional
      BY <1>5, <1>p DEF CommitTransactional, Working
    <2>2. /\ p \in effect => applied' = applied
          /\ p \notin effect => applied' = [applied EXCEPT ![p] = @ + 1]
      BY <1>5 DEF CommitTransactional, Marked, Appends
    <2>3. p \notin effect => applied[p] = 0
      BY <1>i, <2>1 DEF MarkInv, MarkersEarned, TypeOK
    <2>4. \/ status' = status
          \/ status' = WithRows(status, f, Route[f] \cap handlers)
      BY <1>5 DEF CommitTransactional, Marked, Appends
    <2>5. \A q \in Pairs : status'[q] # status[q] =>
              status[q] \notin Terminal /\ status'[q] \notin Terminal \cup {"none"}
      BY <1>i, <2>4, WithRowsType DEF TypeOK, Terminal
    <2>6. CASE p \in effect
      BY <2>2, <2>5, <2>6, <1>o
    <2>7. CASE p \notin effect
      BY <2>1, <2>2, <2>3, <2>5, <2>7, <1>a
    <2> QED BY <2>6, <2>7
  <1>6. ASSUME NEW c \in Consumers, CommitPlain(c) PROVE Contract!Next
    <2> DEFINE p == <<cur[c], c>>
    <2>1. p \in Pairs /\ pc[c] \in Working /\ c \notin Transactional
      BY <1>6, <1>p DEF CommitPlain, Working
    <2>2. status' = status /\ applied' = [applied EXCEPT ![p] = 1]
      BY <1>6 DEF CommitPlain
    <2>3. applied[p] = 0 \/ applied[p] = 1
      <3>1. p[2] \notin Transactional
        BY <2>1
      <3>2. applied[p] \in Nat
        BY <1>i, <2>1 DEF TypeOK
      <3>3. applied[p] <= 1
        BY <1>i, <2>1, <3>1 DEF MarkInv, MarkersEarned
      <3> QED BY <3>2, <3>3
    <2>4. CASE applied[p] = 0
      <3>1. applied' = [applied EXCEPT ![p] = @ + 1]
        BY <2>2, <2>4
      <3>2. \A q \in Pairs : status'[q] = status[q]
        BY <2>2
      <3> QED BY <2>1, <3>1, <3>2, <1>a
    <2>5. CASE applied[p] = 1
      <3>1. applied' = applied
        BY <1>i, <2>2, <2>5 DEF TypeOK
      <3> QED BY <3>1, <2>2, <1>o
    <2> QED BY <2>3, <2>4, <2>5
  <1>7. ASSUME NEW c \in Consumers, HandlerReturns(c) PROVE Contract!Next
    BY <1>7, <1>o DEF HandlerReturns, durable
  <1>8. ASSUME NEW c \in Consumers, HandlerRaises(c) PROVE Contract!Next
    BY <1>8, <1>o DEF HandlerRaises, durable
  <1>s. ASSUME NEW c \in Consumers, pc[c] \in Working, NEW s \in {"succeeded", "dead_letter"},
               status' = [status EXCEPT ![<<cur[c], c>>] = s],
               applied' = applied, seq' = seq
        PROVE  Contract!Next
    <2> DEFINE p == <<cur[c], c>>
               o == IF s = "succeeded" THEN "done" ELSE "dead"
    <2>1. cur[c] \in Events /\ p \in Pairs
      BY <1>s, <1>p
    <2>2. ASSUME NEW q \in Pairs
          PROVE  outcome'[q] = IF q = p THEN o ELSE outcome[q]
      BY <2>1, <1>s, <1>i DEF outcome, TypeOK
    <2>3. outcome' = [outcome EXCEPT ![p] = o]
      BY <2>2 DEF outcome
    <2>4. Contract!Settle(cur[c], c)
      BY <2>3, <1>s, <1>t DEF Contract!Settle
    <2> QED BY <2>1, <2>4 DEF Contract!Next
  <1>9. ASSUME NEW c \in Consumers, MarkSuccess(c) PROVE Contract!Next
    <2>1. /\ pc[c] \in Working /\ applied' = applied /\ seq' = seq
          /\ status' = status \/ status' = [status EXCEPT ![<<cur[c], c>>] = "succeeded"]
      BY <1>9 DEF MarkSuccess, Working
    <2> QED BY <2>1, <1>o, <1>s
  <1>10. ASSUME NEW c \in Consumers, MarkFailure(c) PROVE Contract!Next
    <2> DEFINE p == <<cur[c], c>>
    <2>1. /\ pc[c] \in Working /\ applied' = applied /\ seq' = seq
          /\ \/ status' = status
             \/ status' = [status EXCEPT ![p] = "dead_letter"]
             \/ status' = [status EXCEPT ![p] = "retry_wait"]
      BY <1>10 DEF MarkFailure, Exhausted, Working
    <2>2. p \in Pairs /\ status[p] = "processing"
      BY <2>1, <1>p
    <2>3. CASE status' = [status EXCEPT ![p] = "retry_wait"]
      <3>1. \A q \in Pairs : status'[q] # status[q] =>
                status[q] \notin Terminal /\ status'[q] \notin Terminal \cup {"none"}
        BY <2>2, <2>3, <1>i DEF TypeOK, Terminal
      <3> QED BY <2>1, <3>1, <1>o
    <2> QED BY <2>1, <2>3, <1>o, <1>s
  <1>11. ASSUME NEW c \in Consumers, RunFails(c) PROVE Contract!Next
    BY <1>11, <1>o DEF RunFails, durable
  <1>12. ASSUME NEW p \in Pairs, RetryDue(p) PROVE Contract!Next
    BY <1>12, <1>o DEF RetryDue
  <1>13. ASSUME NEW p \in Pairs, LeaseExpires(p) PROVE Contract!Next
    BY <1>13, <1>o DEF LeaseExpires
  <1>14. CASE Run
    <2>1. applied' = applied /\ status' = Recovered
      BY <1>14, Zenon DEF Run
    <2> QED BY <2>1, <1>i, <1>o, RecoveredType DEF Terminal
  <1>15. CASE Quiesce
    BY <1>15, <1>o DEF Quiesce, durable
  <1>16. CASE Drain
    BY <1>16, <1>o DEF Drain, durable
  <1>17. CASE RunReturns
    BY <1>17, <1>o DEF RunReturns, durable
  <1>18. CASE ReleaseLeases
    <2>1. /\ applied' = applied
          /\ \A q \in Pairs : status'[q] # status[q] =>
                status[q] = "processing" /\ status'[q] = "pending"
      BY <1>18 DEF ReleaseLeases, NoWriterLeft
    <2> QED BY <2>1, <1>o DEF Terminal
  <1>19. CASE Crash
    BY <1>19, <1>o DEF Crash, durable
  <1>20. CASE Start
    BY <1>20, <1>o DEF Start, durable
  <1>21. CASE UNCHANGED vars
    BY <1>21, <1>o DEF vars, durable
  <1> QED
    BY <1>1, <1>2, <1>3, <1>4, <1>5, <1>6, <1>7, <1>8, <1>9, <1>10, <1>11, <1>12,
       <1>13, <1>14, <1>15, <1>16, <1>17, <1>18, <1>19, <1>20, <1>21 DEF Next, Worker

\* The bus keeps its promise to the consumers: deliveries are settled at most once and
\* in turn, and effects are applied only while they are owed.
THEOREM ImplementsContract == Spec => ContractSpec
  <1>1. Init => Contract!Init
    BY DEF Init, Contract!Init, outcome, Pairs
  <1>2. IInv /\ IInv' /\ [Next]_vars => [Contract!Next]_Contract!contractVars
    BY ContractStep
  <1> QED BY <1>1, <1>2, Invariance, PTL DEF Spec, ContractSpec, Contract!Spec
=============================================================================
