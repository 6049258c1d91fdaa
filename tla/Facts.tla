------------------------------- MODULE Facts -------------------------------
(***************************************************************************)
(* What is known: the entities, their aliases and the facts with the time  *)
(* for which each holds (memory/facts.py).  A fact is functional when a    *)
(* subject has one value at a time (where the user lives) and multi-valued *)
(* otherwise (what the user likes).  Facts are learned from segments of    *)
(* conversation, from memories and from remarks, each when its own model   *)
(* call returns, so they arrive in any order of the times they speak of.   *)
(*                                                                         *)
(* The module holds no state of its own: what is known is a record         *)
(*   [entities, aliases, facts]                                            *)
(* that each operator takes and returns, as the code's statements change   *)
(* the three tables inside one transaction or savepoint.                   *)
(***************************************************************************)
EXTENDS Integers, Sequences, FiniteSets, SequencesExt

CONSTANTS
    Never,      \* the end of a fact that still holds: later than every time
    Functional, \* the predicates that are functional unless the model says not
    User        \* the name under which the user is known

ASSUME NeverAssumption == Never \in Nat \ {0}

Scopes == {"profile", "conversation", "knowledge"}

(***************************************************************************)
(* What a model states: who, what, the value, whether it is denied, how it *)
(* says the predicate behaves ("" when it does not say), until when it     *)
(* holds, whether it was asserted, and whether the subject is a bare       *)
(* pronoun.  From which time it holds is the source's to say.              *)
(***************************************************************************)
IsClaim(c) == c.polarity \in {1, -1} /\ c.until \in Nat

Multi(claim) ==
    \/ claim.mode = "multi"
    \/ claim.mode = "" /\ claim.predicate \notin Functional

\* Claims about a pronoun are dropped, and so are quoted ones not asserted.
ParseFacts(claims, quoted) ==
    {c \in ToSet(claims): ~c.vague /\ (quoted => c.asserted)}

(***************************************************************************)
(* Entities.  A name is an entity of its own, or the alias of one; a name  *)
(* that is neither becomes an entity.  An alias stays with its first owner.*)
(***************************************************************************)
EntityOf(known, name) ==
    IF name \notin known.entities /\ name \in DOMAIN known.aliases
    THEN known.aliases[name] ELSE name

EnsureEntity(known, name, aliases) ==
    LET entity == EntityOf(known, name)
    IN [entities |-> known.entities \cup {entity},
        aliases |-> [a \in (DOMAIN known.aliases) \cup aliases |->
                        IF a \in DOMAIN known.aliases THEN known.aliases[a] ELSE entity],
        facts |-> known.facts]

(***************************************************************************)
(* Facts about the same thing: one subject, predicate and scope.           *)
(***************************************************************************)
SameMatter(f, g) ==
    /\ f.subject = g.subject
    /\ f.predicate = g.predicate
    /\ f.scope = g.scope

SameClaim(f, g) == f.object = g.object /\ f.polarity = g.polarity

FindDuplicate(facts, new) ==
    \E f \in facts: /\ SameMatter(f, new)
                    /\ SameClaim(f, new)
                    /\ f.value = new.value
                    /\ f.from = new.from

RemoveSameStartConflicts(facts, new) ==
    {f \in facts: ~ (SameMatter(f, new) /\ f.from = new.from /\ ~SameClaim(f, new))}

CloseReplaced(facts, new) ==
    {IF SameMatter(f, new) /\ f.from < new.from /\ f.until > new.from
     THEN [f EXCEPT !.until = new.from] ELSE f: f \in facts}

\* (wrong on purpose) a fact that arrives late is not bounded by the next one
NoNextStart(facts, new) == new.until

Earliest(times) == CHOOSE t \in times: \A u \in times: t <= u

\* A fact that arrives late ends where the next one known begins.
NextFactStart(facts, new) ==
    LET later == {f.from: f \in {g \in facts: SameMatter(g, new) /\ g.from > new.from}}
    IN IF \E t \in later: t < new.until
       THEN Earliest(later) ELSE new.until

Recorded(facts, new) ==
    LET kept == CloseReplaced(RemoveSameStartConflicts(facts, new), new)
    IN IF new.multi
       THEN facts \cup {new}
       ELSE kept \cup {[new EXCEPT !.until = NextFactStart(kept, new)]}

ApplyFact(known, c, from, scope, source) ==
    LET met == EnsureEntity(EnsureEntity(known, c.subject, c.aliases), c.value, {})
        new == [subject |-> EntityOf(met, c.subject), predicate |-> c.predicate,
                object |-> EntityOf(met, c.value), value |-> c.value,
                polarity |-> c.polarity, from |-> from, until |-> c.until,
                scope |-> scope, source |-> source, multi |-> Multi(c)]
    IN IF c.until <= from THEN known
       ELSE IF FindDuplicate(met.facts, new) THEN met
       ELSE [met EXCEPT !.facts = Recorded(@, new)]

\* The claims of one source that were kept, in their order.
ApplyFacts(known, claims, kept, from, scope, source) ==
    LET after[i \in 0..Len(claims)] ==
            IF i = 0 THEN known
            ELSE IF claims[i] \in kept
                 THEN ApplyFact(after[i - 1], claims[i], from, scope, source)
                 ELSE after[i - 1]
    IN after[Len(claims)]

\* A segment that goes on ends what it had stated before.
CloseSegmentFacts(known, source, now) ==
    [known EXCEPT !.facts =
        {IF f.source = source /\ f.from < now /\ f.until > now
         THEN [f EXCEPT !.until = now] ELSE f: f \in @}]

\* The facts a question is answered with: those that hold at the time asked for.
ValidFacts(known, scopes, at) ==
    {f \in known.facts: f.scope \in scopes /\ f.from <= at /\ f.until > at}

NothingKnown == [entities |-> {}, aliases |-> <<>>, facts |-> {}]

KnownOK(known) ==
    /\ \A a \in DOMAIN known.aliases: known.aliases[a] \in known.entities
    /\ \A f \in known.facts: /\ {f.subject, f.object} \subseteq known.entities
                             /\ f.scope \in Scopes
                             /\ f.polarity \in {1, -1}
                             /\ f.from < f.until
=============================================================================
