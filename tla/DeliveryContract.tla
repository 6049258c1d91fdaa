-------------------------- MODULE DeliveryContract --------------------------
(***************************************************************************)
(* What the event bus promises its consumers, without saying how: every    *)
(* (event, consumer) pair that the bus has come to owe is settled at most  *)
(* once, its domain effect is applied only while it is owed, a consumer    *)
(* that commits its effect marker with its domain change applies it once,  *)
(* and a sequence-ordered consumer is served in admission order.           *)
(* EventDelivery implements this specification.                            *)
(***************************************************************************)
EXTENDS Naturals

CONSTANTS
    Events,         \* every event that may be published
    Consumers,      \* the durable consumers
    Route,          \* Route[e]: the consumers an event is meant for
    Transactional,  \* consumers whose handler marks its effect in its own transaction
    SeqOrdered      \* consumers served in admission order

VARIABLES
    seq,      \* seq[e]: position of e in the log, 0 when e is not admitted
    outcome,  \* outcome[e, c]
    applied   \* applied[e, c]: how often the domain effect of e was applied for c

contractVars == <<seq, outcome, applied>>

Outcome == {"none", "owed", "done", "dead"}

Settled(p) == outcome[p] \in {"done", "dead"}

\* Every event admitted before e that is meant for c is settled.
Served(e, c) ==
    c \in SeqOrdered =>
        \A f \in Events :
            (seq[f] > 0 /\ seq[f] < seq[e] /\ c \in Route[f]) => Settled(<<f, c>>)

Init ==
    /\ seq = [e \in Events |-> 0]
    /\ outcome = [p \in Events \X Consumers |-> "none"]
    /\ applied = [p \in Events \X Consumers |-> 0]

\* Deliveries become owed: an event is admitted, or rows are added for a consumer.
Owe ==
    /\ \E S \in SUBSET (Events \X Consumers) :
          /\ \A p \in S : outcome[p] = "none" /\ p[2] \in Route[p[1]]
          /\ outcome' = [p \in Events \X Consumers |->
                            IF p \in S THEN "owed" ELSE outcome[p]]
    /\ \A e \in Events : seq[e] > 0 => seq'[e] = seq[e]
    /\ seq' \in [Events -> Nat]
    /\ UNCHANGED applied

Settle(e, c) ==
    /\ outcome[<<e, c>>] = "owed"
    /\ Served(e, c)
    /\ \E o \in {"done", "dead"} : outcome' = [outcome EXCEPT ![<<e, c>>] = o]
    /\ UNCHANGED <<seq, applied>>

\* The domain effect of e for c; it may admit further events (never e again).
Apply(e, c) ==
    /\ outcome[<<e, c>>] = "owed"
    /\ Served(e, c)
    /\ c \in Transactional => applied[<<e, c>>] = 0
    /\ applied' = [applied EXCEPT ![<<e, c>>] = @ + 1]
    /\ \E S \in SUBSET (Events \X Consumers) :
          /\ \A p \in S : outcome[p] = "none" /\ p[2] \in Route[p[1]]
          /\ outcome' = [p \in Events \X Consumers |->
                            IF p \in S THEN "owed" ELSE outcome[p]]
    /\ \A f \in Events : seq[f] > 0 => seq'[f] = seq[f]
    /\ seq' \in [Events -> Nat]

Next ==
    \/ Owe
    \/ \E e \in Events, c \in Consumers : Settle(e, c) \/ Apply(e, c)

Spec == Init /\ [][Next]_contractVars
=============================================================================
