---------------------------- MODULE MemoryProofs ----------------------------
(***************************************************************************)
(* The safety of Facts, ConversationSegments and Memory for every set of   *)
(* turns, requests, remarks and passages, and for every bound.             *)
(***************************************************************************)
EXTENDS Memory, TLAPS, FiniteSetTheorems, WellFoundedInduction, SequenceTheorems

-----------------------------------------------------------------------------
(* Facts: what one claim does *)

IsFact(f) ==
    /\ f = [subject |-> f.subject, predicate |-> f.predicate, object |-> f.object,
            value |-> f.value, polarity |-> f.polarity, from |-> f.from,
            until |-> f.until, scope |-> f.scope, source |-> f.source, multi |-> f.multi]
    /\ f.from \in Nat /\ f.until \in Nat

Contradicts(f, g) == ~f.multi /\ ~g.multi /\ SameMatter(f, g) /\ ~SameClaim(f, g)

Apart(f, g) == f.until <= g.from \/ g.until <= f.from

\* Two facts that contradict each other never hold at the same time.
AllApart(facts) ==
    /\ \A f \in facts : IsFact(f) /\ f.from < f.until
    /\ \A f, g \in facts : Contradicts(f, g) => Apart(f, g)

\* What is known, as every step keeps it.
KnownKept(k) ==
    /\ k = [entities |-> k.entities, aliases |-> k.aliases, facts |-> k.facts]
    /\ KnownOK(k)
    /\ AllApart(k.facts)

\* A set of natural numbers that is not empty has a least element.
LEMMA Least ==
    ASSUME NEW S \in SUBSET Nat, S # {}
    PROVE  \E n \in S : \A o \in S : n <= o
  <1> DEFINE T == {0..n : n \in S}
  <1>1. T \subseteq FiniteSubsetsOf(Nat)
    <2> SUFFICES ASSUME NEW n \in S PROVE 0..n \in FiniteSubsetsOf(Nat)
      OBVIOUS
    <2>1. IsFiniteSet(0..n)
      BY FS_Interval
    <2> QED BY <2>1 DEF FiniteSubsetsOf
  <1>2. T # {}
    OBVIOUS
  <1> HIDE DEF T
  <1>3. PICK t \in T : \A u \in T : ~ (<<u, t>> \in StrictSubsetOrdering(Nat))
    BY <1>1, <1>2, FS_StrictSubsetOrderingWellFounded, WFMin
  <1>4. PICK n \in S : t = 0..n
    BY <1>3 DEF T
  <1>5. ASSUME NEW o \in S, o < n PROVE FALSE
    <2>1. 0..o \in T
      BY DEF T
    <2>2. 0..o \subseteq 0..n /\ n \in 0..n /\ ~ (n \in 0..o)
      BY <1>5
    <2>3. <<0..o, 0..n>> \in StrictSubsetOrdering(Nat)
      BY <2>2 DEF StrictSubsetOrdering
    <2> QED BY <1>3, <1>4, <2>1, <2>3
  <1> QED BY <1>5

\* A fact that is cut short stays a fact, apart from those it was apart from.
LEMMA CutShort ==
    ASSUME NEW f, IsFact(f), f.from < f.until, NEW t \in Nat, f.from < t, t <= f.until,
           NEW g, [f EXCEPT !.until = t] = g
    PROVE  /\ IsFact(g) /\ g.from < g.until /\ g.until <= f.until
           /\ g.until = t /\ g.from = f.from /\ g.multi = f.multi
           /\ g.subject = f.subject /\ g.object = f.object /\ g.scope = f.scope
           /\ g.polarity = f.polarity /\ g.predicate = f.predicate
  BY DEF IsFact

LEMMA RemovedKept ==
    ASSUME NEW facts, AllApart(facts), NEW new, IsFact(new)
    PROVE  /\ AllApart(RemoveSameStartConflicts(facts, new))
           /\ \A f \in RemoveSameStartConflicts(facts, new) :
                 Contradicts(f, new) => f.from # new.from
  BY DEF AllApart, RemoveSameStartConflicts, Contradicts

LEMMA ClosedKept ==
    ASSUME NEW facts, AllApart(facts), NEW new, IsFact(new),
           \A f \in facts : Contradicts(f, new) => f.from # new.from
    PROVE  /\ AllApart(CloseReplaced(facts, new))
           /\ \A f \in CloseReplaced(facts, new) :
                 Contradicts(f, new) => f.until <= new.from \/ f.from > new.from
           /\ \A f \in CloseReplaced(facts, new) : \E g \in facts :
                 /\ f.subject = g.subject /\ f.object = g.object /\ f.scope = g.scope
                 /\ f.polarity = g.polarity
  <1> DEFINE Cut(f) == IF SameMatter(f, new) /\ f.from < new.from /\ f.until > new.from
                       THEN [f EXCEPT !.until = new.from] ELSE f
  <1>1. ASSUME NEW f \in facts
        PROVE  /\ IsFact(Cut(f)) /\ Cut(f).from < Cut(f).until /\ Cut(f).until <= f.until
               /\ Cut(f).from = f.from /\ Cut(f).multi = f.multi
               /\ Cut(f).subject = f.subject /\ Cut(f).object = f.object
               /\ Cut(f).scope = f.scope /\ Cut(f).polarity = f.polarity
               /\ Cut(f).predicate = f.predicate
    <2>1. IsFact(f) /\ f.from < f.until /\ f.from \in Nat /\ f.until \in Nat
      BY DEF AllApart, IsFact
    <2>2. CASE SameMatter(f, new) /\ f.from < new.from /\ f.until > new.from
      <3>1. new.from \in Nat /\ new.from <= f.until
        BY <2>1, <2>2 DEF IsFact
      <3> QED BY <2>1, <2>2, <3>1, CutShort
    <2>3. CASE ~ (SameMatter(f, new) /\ f.from < new.from /\ f.until > new.from)
      <3>1. Cut(f) = f
        BY <2>3
      <3> HIDE DEF Cut
      <3> QED BY <2>1, <3>1
    <2> HIDE DEF Cut
    <2> QED BY <2>2, <2>3
  <1>2. ASSUME NEW f \in facts, Contradicts(Cut(f), new)
        PROVE  Cut(f).until <= new.from \/ Cut(f).from > new.from
    <2>1. Contradicts(f, new) /\ SameMatter(f, new)
      BY <1>1, <1>2 DEF Contradicts, SameMatter, SameClaim
    <2>2. f.from \in Nat /\ f.until \in Nat /\ new.from \in Nat /\ IsFact(f)
      BY DEF AllApart, IsFact
    <2>3. CASE f.from < new.from /\ f.until > new.from
      <3>1. Cut(f) = [f EXCEPT !.until = new.from]
        BY <2>1, <2>3
      <3>2. Cut(f).until = new.from
        BY <2>2, <2>3, <3>1, CutShort DEF AllApart
      <3> QED BY <2>2, <3>2
    <2>4. CASE ~ (f.from < new.from /\ f.until > new.from)
      <3>1. f.from # new.from
        BY <2>1
      <3> QED BY <2>2, <2>4, <3>1
    <2> QED BY <2>3, <2>4
  <1>3. ASSUME NEW f \in facts, NEW g \in facts, Contradicts(Cut(f), Cut(g))
        PROVE  Apart(Cut(f), Cut(g))
    <2>1. Contradicts(f, g)
      BY <1>1, <1>3 DEF Contradicts, SameMatter, SameClaim
    <2>2. Apart(f, g)
      BY <2>1 DEF AllApart
    <2>3. /\ Cut(f).from = f.from /\ Cut(f).until <= f.until /\ IsFact(Cut(f)) /\ IsFact(f)
          /\ Cut(g).from = g.from /\ Cut(g).until <= g.until /\ IsFact(Cut(g)) /\ IsFact(g)
      BY <1>1 DEF AllApart
    <2> HIDE DEF Cut
    <2> QED BY <2>2, <2>3 DEF Apart, IsFact
  <1>4. CloseReplaced(facts, new) = {Cut(f) : f \in facts}
    BY DEF CloseReplaced
  <1> HIDE DEF Cut
  <1> QED BY <1>1, <1>2, <1>3, <1>4 DEF AllApart

\* The late fact ends no later than it was said to, and before the next contradiction.
LEMMA NextBounds ==
    ASSUME NEW facts, AllApart(facts), NEW new, IsFact(new), new.from < new.until
    PROVE  /\ NextFactStart(facts, new) \in Nat
           /\ new.from < NextFactStart(facts, new) /\ NextFactStart(facts, new) <= new.until
           /\ \A f \in facts : SameMatter(f, new) /\ f.from > new.from
                 => NextFactStart(facts, new) <= f.from
  <1> DEFINE later == {f.from : f \in {g \in facts : SameMatter(g, new) /\ g.from > new.from}}
  <1>1. later \in SUBSET Nat /\ \A t \in later : t > new.from
    BY DEF AllApart, IsFact
  <1>2. new.from \in Nat /\ new.until \in Nat
    BY DEF IsFact
  <1>3. CASE \E t \in later : t < new.until
    <2>1. PICK t \in later : t < new.until
      BY <1>3
    <2>2. \E u \in later : \A v \in later : u <= v
      <3> HIDE DEF later
      <3> QED BY <1>1, <2>1, Least
    <2> DEFINE least == Earliest(later)
    <2>3. least \in later /\ \A v \in later : least <= v
      <3> HIDE DEF later
      <3> QED BY <2>2 DEF Earliest
    <2>4. NextFactStart(facts, new) = least
      BY <1>3 DEF NextFactStart
    <2>5. \A f \in facts : SameMatter(f, new) /\ f.from > new.from => f.from \in later
      OBVIOUS
    <2> HIDE DEF least, later
    <2>6. least \in Nat /\ new.from < least /\ least <= t /\ t \in Nat
      BY <1>1, <2>1, <2>3
    <2>7. \A f \in facts : SameMatter(f, new) /\ f.from > new.from => least <= f.from
      BY <2>3, <2>5
    <2>8. least <= new.until
      BY <1>2, <2>1, <2>6
    <2> QED BY <2>4, <2>6, <2>7, <2>8
  <1>4. CASE ~ \E t \in later : t < new.until
    <2>1. NextFactStart(facts, new) = new.until
      BY <1>4 DEF NextFactStart
    <2>2. \A f \in facts : SameMatter(f, new) /\ f.from > new.from => f.from \in later
      OBVIOUS
    <2>3. \A t \in later : new.until <= t
      <3> HIDE DEF later
      <3> QED BY <1>1, <1>2, <1>4
    <2> HIDE DEF later
    <2> QED BY <1>2, <2>1, <2>2, <2>3
  <1> QED BY <1>3, <1>4

\* What is recorded contradicts nothing that holds at the same time.
LEMMA RecordedKept ==
    ASSUME NEW facts, AllApart(facts), NEW new, IsFact(new), new.from < new.until
    PROVE  /\ AllApart(Recorded(facts, new))
           /\ \A f \in Recorded(facts, new) : \E g \in facts \cup {new} :
                 /\ f.subject = g.subject /\ f.object = g.object /\ f.scope = g.scope
                 /\ f.polarity = g.polarity
  <1>1. CASE new.multi
    <2>1. Recorded(facts, new) = facts \cup {new}
      BY <1>1 DEF Recorded
    <2>2. \A f \in facts : ~ Contradicts(f, new) /\ ~ Contradicts(new, f)
      BY <1>1 DEF Contradicts
    <2>3. ~ Contradicts(new, new)
      BY <1>1 DEF Contradicts
    <2> QED BY <2>1, <2>2, <2>3 DEF AllApart
  <1>2. CASE ~ new.multi
    <2> DEFINE same == RemoveSameStartConflicts(facts, new)
               kept == CloseReplaced(same, new)
               last == NextFactStart(kept, new)
               cut == [new EXCEPT !.until = last]
    <2>1. Recorded(facts, new) = kept \cup {cut}
      BY <1>2 DEF Recorded
    <2>2. AllApart(same) /\ \A f \in same : Contradicts(f, new) => f.from # new.from
      BY RemovedKept
    <2>3. /\ AllApart(kept)
          /\ \A f \in kept : Contradicts(f, new) => f.until <= new.from \/ f.from > new.from
          /\ \A f \in kept : \E g \in same :
                 /\ f.subject = g.subject /\ f.object = g.object /\ f.scope = g.scope
                 /\ f.polarity = g.polarity
      <3> HIDE DEF same
      <3> QED BY <2>2, ClosedKept
    <2>4. /\ last \in Nat /\ new.from < last /\ last <= new.until
          /\ \A f \in kept : SameMatter(f, new) /\ f.from > new.from => last <= f.from
      <3> HIDE DEF kept
      <3> QED BY <2>3, NextBounds
    <2> HIDE DEF last
    <2>5. /\ IsFact(cut) /\ cut.from < cut.until /\ cut.until = last /\ cut.from = new.from
          /\ cut.multi = new.multi /\ cut.subject = new.subject /\ cut.object = new.object
          /\ cut.scope = new.scope /\ cut.polarity = new.polarity
          /\ cut.predicate = new.predicate
      BY <2>4, CutShort
    <2> HIDE DEF cut, kept
    <2>6. ASSUME NEW f \in kept, Contradicts(f, cut) \/ Contradicts(cut, f)
          PROVE  Apart(f, cut) /\ Apart(cut, f)
      <3>1. Contradicts(f, new) /\ SameMatter(f, new)
        BY <2>5, <2>6 DEF Contradicts, SameMatter, SameClaim
      <3>2. f.from \in Nat /\ f.until \in Nat /\ new.from \in Nat
        BY <2>3 DEF AllApart, IsFact
      <3>3. f.until <= new.from \/ last <= f.from
        BY <2>3, <2>4, <3>1
      <3> QED BY <2>5, <3>2, <3>3 DEF Apart
    <2>7. ~ Contradicts(cut, cut)
      BY DEF Contradicts, SameClaim
    <2>8. AllApart(kept \cup {cut})
      BY <2>3, <2>5, <2>6, <2>7 DEF AllApart
    <2>9. same \subseteq facts
      BY DEF RemoveSameStartConflicts
    <2> QED BY <2>1, <2>3, <2>5, <2>8, <2>9
  <1> QED BY <1>1, <1>2

-----------------------------------------------------------------------------
(* Facts: what is known stays consistent *)

LEMMA EntityKept ==
    ASSUME NEW k, KnownKept(k), NEW name, NEW aliases
    PROVE  LET met == EnsureEntity(k, name, aliases)
           IN /\ KnownKept(met)
              /\ met.facts = k.facts
              /\ k.entities \subseteq met.entities
              /\ DOMAIN k.aliases \subseteq DOMAIN met.aliases
              /\ EntityOf(met, name) \in met.entities
  <1> DEFINE met == EnsureEntity(k, name, aliases)
             entity == EntityOf(k, name)
  <1>1. /\ met = [entities |-> met.entities, aliases |-> met.aliases, facts |-> met.facts]
        /\ met.facts = k.facts
        /\ met.entities = k.entities \cup {entity}
        /\ met.aliases = [a \in (DOMAIN k.aliases) \cup aliases |->
                             IF a \in DOMAIN k.aliases THEN k.aliases[a] ELSE entity]
    BY DEF EnsureEntity
  <1>2. /\ \A a \in DOMAIN k.aliases : k.aliases[a] \in k.entities
        /\ \A f \in k.facts : /\ {f.subject, f.object} \subseteq k.entities
                              /\ f.scope \in Scopes
                              /\ f.polarity \in {1, -1}
                              /\ f.from < f.until
    BY DEF KnownKept, KnownOK
  <1> HIDE DEF met, entity
  <1>3. \A a \in DOMAIN met.aliases : met.aliases[a] \in met.entities
    BY <1>1, <1>2
  <1>4. EntityOf(met, name) \in met.entities
    <2>1. CASE name \in met.entities
      BY <2>1 DEF EntityOf
    <2>2. CASE name \notin met.entities
      <3>1. name \notin k.entities /\ name # entity
        BY <1>1, <2>2
      <3>2. name \in DOMAIN k.aliases
        BY <3>1 DEF EntityOf, entity
      <3>3. EntityOf(met, name) = met.aliases[name] /\ name \in DOMAIN met.aliases
        BY <1>1, <2>2, <3>2 DEF EntityOf
      <3> QED BY <1>3, <3>3
    <2> QED BY <2>1, <2>2
  <1>5. KnownOK(met)
    BY <1>1, <1>2, <1>3 DEF KnownOK
  <1>6. AllApart(met.facts)
    BY <1>1 DEF KnownKept
  <1> QED BY <1>1, <1>4, <1>5, <1>6 DEF KnownKept, met

\* An entity that is known under a name stays known under it.
LEMMA StillKnown ==
    ASSUME NEW k, KnownKept(k), NEW name, EntityOf(k, name) \in k.entities,
           NEW met, KnownKept(met), k.entities \subseteq met.entities,
           DOMAIN k.aliases \subseteq DOMAIN met.aliases
    PROVE  EntityOf(met, name) \in met.entities
  <1>1. \A a \in DOMAIN met.aliases : met.aliases[a] \in met.entities
    BY DEF KnownKept, KnownOK
  <1>2. name \in met.entities \/ name \in DOMAIN met.aliases
    BY DEF EntityOf
  <1> QED BY <1>1, <1>2 DEF EntityOf

LEMMA FactKept ==
    ASSUME NEW k, KnownKept(k), NEW c, IsClaim(c), NEW from \in Nat, NEW scope \in Scopes,
           NEW source
    PROVE  KnownKept(ApplyFact(k, c, from, scope, source))
  <1> DEFINE one == EnsureEntity(k, c.subject, c.aliases)
             met == EnsureEntity(one, c.value, {})
             new == [subject |-> EntityOf(met, c.subject), predicate |-> c.predicate,
                     object |-> EntityOf(met, c.value), value |-> c.value,
                     polarity |-> c.polarity, from |-> from, until |-> c.until,
                     scope |-> scope, source |-> source, multi |-> Multi(c)]
  <1>1. KnownKept(one) /\ EntityOf(one, c.subject) \in one.entities
    BY EntityKept
  <1>2. /\ KnownKept(met)
        /\ one.entities \subseteq met.entities
        /\ DOMAIN one.aliases \subseteq DOMAIN met.aliases
        /\ EntityOf(met, c.value) \in met.entities
    <2> HIDE DEF one
    <2> QED BY <1>1, EntityKept
  <1>3. EntityOf(met, c.subject) \in met.entities
    <2> HIDE DEF one, met
    <2> QED BY <1>1, <1>2, StillKnown
  <1>4. CASE c.until <= from
    BY <1>4 DEF ApplyFact
  <1>5. CASE ~ (c.until <= from) /\ FindDuplicate(met.facts, new)
    <2>1. ApplyFact(k, c, from, scope, source) = met
      BY <1>5 DEF ApplyFact
    <2> QED BY <1>2, <2>1
  <1>6. CASE ~ (c.until <= from) /\ ~ FindDuplicate(met.facts, new)
    <2>1. ApplyFact(k, c, from, scope, source)
             = [met EXCEPT !.facts = Recorded(@, new)]
      BY <1>6 DEF ApplyFact
    <2>2. /\ new.subject \in met.entities /\ new.object \in met.entities
          /\ new.scope \in Scopes /\ new.polarity \in {1, -1} /\ new.from < new.until
          /\ IsFact(new)
      BY <1>2, <1>3, <1>6 DEF IsClaim, IsFact
    <2> HIDE DEF met, new
    <2>3. met = [entities |-> met.entities, aliases |-> met.aliases, facts |-> met.facts]
          /\ KnownOK(met) /\ AllApart(met.facts)
      BY <1>2 DEF KnownKept
    <2> DEFINE facts == Recorded(met.facts, new)
               after == [met EXCEPT !.facts = facts]
    <2>4. /\ AllApart(facts)
          /\ \A f \in facts : \E g \in met.facts \cup {new} :
                 /\ f.subject = g.subject /\ f.object = g.object /\ f.scope = g.scope
                 /\ f.polarity = g.polarity
      BY <2>2, <2>3, RecordedKept
    <2> HIDE DEF facts
    <2>5. /\ after = [entities |-> met.entities, aliases |-> met.aliases, facts |-> facts]
          /\ after.entities = met.entities /\ after.aliases = met.aliases
          /\ after.facts = facts
      BY <2>3
    <2> HIDE DEF after
    <2>6. KnownOK(after)
      <3>1. \A f \in facts : f.from < f.until
        BY <2>4 DEF AllApart
      <3>2. \A f \in facts : /\ {f.subject, f.object} \subseteq met.entities
                             /\ f.scope \in Scopes /\ f.polarity \in {1, -1}
        BY <2>2, <2>3, <2>4 DEF KnownOK
      <3> QED BY <2>3, <2>5, <3>1, <3>2 DEF KnownOK
    <2>7. KnownKept(after)
      BY <2>4, <2>5, <2>6 DEF KnownKept
    <2> QED BY <2>1, <2>7 DEF after, facts
  <1> QED BY <1>4, <1>5, <1>6

\* The fold of ApplyFacts is defined: there is such a function for every length.
AfterIs(f, length, k, claims, kept, from, scope, source) ==
    f = [i \in 0..length |->
            IF i = 0 THEN k
            ELSE IF claims[i] \in kept
                 THEN ApplyFact(f[i - 1], claims[i], from, scope, source)
                 ELSE f[i - 1]]

LEMMA AfterExists ==
    ASSUME NEW k, NEW claims, NEW kept, NEW from, NEW scope, NEW source, NEW length \in Nat
    PROVE  \E f : AfterIs(f, length, k, claims, kept, from, scope, source)
  <1> DEFINE Next1(g, i) == IF claims[i] \in kept
                            THEN ApplyFact(g, claims[i], from, scope, source) ELSE g
             Good(n) == \E f : f = [i \in 0..n |-> IF i = 0 THEN k ELSE Next1(f[i - 1], i)]
             Bad == {n \in Nat : ~ Good(n)}
  <1>0. \A f : AfterIs(f, length, k, claims, kept, from, scope, source)
          <=> f = [i \in 0..length |-> IF i = 0 THEN k ELSE Next1(f[i - 1], i)]
    BY DEF AfterIs
  <1> HIDE DEF Next1
  <1>1. SUFFICES ASSUME Bad # {} PROVE FALSE
    BY <1>0
  <1>2. PICK n \in Bad : \A o \in Bad : n <= o
    <2>1. Bad \in SUBSET Nat
      OBVIOUS
    <2> HIDE DEF Bad
    <2> QED BY <1>1, <2>1, Least
  <1>3. n \in Nat /\ ~ Good(n)
    OBVIOUS
  <1>4. n # 0
    <2>1. SUFFICES ASSUME n = 0 PROVE FALSE
      OBVIOUS
    <2> DEFINE f == [i \in 0..0 |-> k]
    <2>2. f = [i \in 0..n |-> IF i = 0 THEN k ELSE Next1(f[i - 1], i)]
      BY <2>1
    <2> QED BY <1>3, <2>2
  <1>5. Good(n - 1)
    <2>1. n - 1 \in Nat /\ ~ (n <= n - 1)
      BY <1>3, <1>4
    <2> QED BY <1>2, <2>1
  <1>6. PICK g : g = [i \in 0..(n - 1) |-> IF i = 0 THEN k ELSE Next1(g[i - 1], i)]
    BY <1>5
  <1> DEFINE h == [i \in 0..n |-> IF i = n THEN Next1(g[n - 1], n) ELSE g[i]]
  <1>7. h = [i \in 0..n |-> IF i = 0 THEN k ELSE Next1(h[i - 1], i)]
    <2>1. ASSUME NEW i \in 0..n PROVE h[i] = IF i = 0 THEN k ELSE Next1(h[i - 1], i)
      <3>1. CASE i = n
        <4>1. h[n - 1] = g[n - 1]
          BY <1>3, <1>4
        <4> QED BY <3>1, <4>1, <1>4
      <3>2. CASE i # n
        <4>1. i \in 0..(n - 1) /\ h[i] = g[i]
          BY <1>3, <3>2
        <4>2. g[i] = IF i = 0 THEN k ELSE Next1(g[i - 1], i)
          <5> HIDE DEF h
          <5> QED BY <1>6, <4>1
        <4>3. i # 0 => h[i - 1] = g[i - 1]
          BY <1>3, <4>1
        <4> QED BY <4>1, <4>2, <4>3
      <3> QED BY <3>1, <3>2
    <2> QED BY <2>1
  <1> QED BY <1>3, <1>7

LEMMA FactsKept ==
    ASSUME NEW k, KnownKept(k), NEW claims, Len(claims) \in Nat,
           \A i \in 1..Len(claims) : IsClaim(claims[i]),
           NEW kept, NEW from \in Nat, NEW scope \in Scopes, NEW source
    PROVE  KnownKept(ApplyFacts(k, claims, kept, from, scope, source))
  <1> DEFINE f == CHOOSE f : AfterIs(f, Len(claims), k, claims, kept, from, scope, source)
  <1>1. AfterIs(f, Len(claims), k, claims, kept, from, scope, source)
    <2>1. \E h : AfterIs(h, Len(claims), k, claims, kept, from, scope, source)
      BY AfterExists
    <2> QED BY <2>1, Zenon
  <1>2. ApplyFacts(k, claims, kept, from, scope, source) = f[Len(claims)]
    BY DEF ApplyFacts, AfterIs
  <1> HIDE DEF f
  <1>3. f[0] = k
    BY <1>1 DEF AfterIs
  <1>4. ASSUME NEW i \in 1..Len(claims)
        PROVE  f[i] = IF claims[i] \in kept
                      THEN ApplyFact(f[i - 1], claims[i], from, scope, source)
                      ELSE f[i - 1]
    <2>1. i \in 0..Len(claims) /\ i # 0
      OBVIOUS
    <2>2. f[i] = IF i = 0 THEN k
                 ELSE IF claims[i] \in kept
                      THEN ApplyFact(f[i - 1], claims[i], from, scope, source)
                      ELSE f[i - 1]
      BY <1>1, <2>1, Zenon DEF AfterIs
    <2> QED BY <2>1, <2>2
  <1> DEFINE Bad == {i \in 0..Len(claims) : ~ KnownKept(f[i])}
  <1>5. Bad = {}
    <2> SUFFICES ASSUME Bad # {} PROVE FALSE
      OBVIOUS
    <2>1. PICK n \in Bad : \A o \in Bad : n <= o
      <3>1. Bad \in SUBSET Nat
        OBVIOUS
      <3> HIDE DEF Bad
      <3> QED BY <3>1, Least
    <2>2. n \in 0..Len(claims) /\ ~ KnownKept(f[n])
      OBVIOUS
    <2>3. n # 0
      BY <1>3, <2>2
    <2>4. n \in 1..Len(claims) /\ n - 1 \in 0..Len(claims) /\ ~ (n <= n - 1)
      BY <2>2, <2>3
    <2>5. KnownKept(f[n - 1])
      BY <2>1, <2>4
    <2>6. IsClaim(claims[n])
      BY <2>4
    <2>7. KnownKept(ApplyFact(f[n - 1], claims[n], from, scope, source))
      BY <2>5, <2>6, FactKept
    <2> HIDE DEF Bad
    <2> QED BY <1>4, <2>2, <2>4, <2>5, <2>7
  <1> HIDE DEF Bad
  <1>6. Len(claims) \notin Bad /\ Len(claims) \in 0..Len(claims)
    BY <1>5
  <1> QED BY <1>2, <1>6 DEF Bad

LEMMA ClosingKept ==
    ASSUME NEW k, KnownKept(k), NEW source, NEW now \in Nat
    PROVE  KnownKept(CloseSegmentFacts(k, source, now))
  <1> DEFINE Cut(f) == IF f.source = source /\ f.from < now /\ f.until > now
                       THEN [f EXCEPT !.until = now] ELSE f
             facts == {Cut(f) : f \in k.facts}
             after == CloseSegmentFacts(k, source, now)
  <1>1. AllApart(k.facts) /\ KnownOK(k)
        /\ k = [entities |-> k.entities, aliases |-> k.aliases, facts |-> k.facts]
    BY DEF KnownKept
  <1>2. ASSUME NEW f \in k.facts
        PROVE  /\ IsFact(Cut(f)) /\ Cut(f).from < Cut(f).until /\ Cut(f).until <= f.until
               /\ Cut(f).from = f.from /\ Cut(f).multi = f.multi
               /\ Cut(f).subject = f.subject /\ Cut(f).object = f.object
               /\ Cut(f).scope = f.scope /\ Cut(f).polarity = f.polarity
               /\ Cut(f).predicate = f.predicate
    <2>1. IsFact(f) /\ f.from < f.until /\ f.from \in Nat /\ f.until \in Nat
      BY <1>1 DEF AllApart, IsFact
    <2>2. CASE f.source = source /\ f.from < now /\ f.until > now
      <3>1. now <= f.until
        BY <2>1, <2>2
      <3> QED BY <2>1, <2>2, <3>1, CutShort
    <2>3. CASE ~ (f.source = source /\ f.from < now /\ f.until > now)
      <3>1. Cut(f) = f
        BY <2>3
      <3> HIDE DEF Cut
      <3> QED BY <2>1, <3>1
    <2> HIDE DEF Cut
    <2> QED BY <2>2, <2>3
  <1>3. after = [entities |-> k.entities, aliases |-> k.aliases, facts |-> facts]
    <2>1. after = [k EXCEPT !.facts = facts]
      BY DEF CloseSegmentFacts
    <2> HIDE DEF facts, after
    <2> QED BY <1>1, <2>1
  <1> HIDE DEF Cut, after
  <1>4. ASSUME NEW f \in k.facts, NEW g \in k.facts, Contradicts(Cut(f), Cut(g))
        PROVE  Apart(Cut(f), Cut(g))
    <2>1. Contradicts(f, g)
      BY <1>2, <1>4 DEF Contradicts, SameMatter, SameClaim
    <2>2. Apart(f, g)
      BY <1>1, <2>1 DEF AllApart
    <2>3. /\ Cut(f).from = f.from /\ Cut(f).until <= f.until /\ IsFact(Cut(f)) /\ IsFact(f)
          /\ Cut(g).from = g.from /\ Cut(g).until <= g.until /\ IsFact(Cut(g)) /\ IsFact(g)
      BY <1>1, <1>2 DEF AllApart
    <2> QED BY <2>2, <2>3 DEF Apart, IsFact
  <1>5. AllApart(facts)
    BY <1>2, <1>4 DEF AllApart
  <1>6. \A f \in facts : /\ {f.subject, f.object} \subseteq k.entities
                         /\ f.scope \in Scopes /\ f.polarity \in {1, -1} /\ f.from < f.until
    BY <1>1, <1>2 DEF KnownOK
  <1> HIDE DEF facts
  <1>7. KnownOK(after)
    BY <1>1, <1>3, <1>6 DEF KnownOK
  <1>8. KnownKept(after)
    BY <1>3, <1>5, <1>7 DEF KnownKept
  <1> QED BY <1>8 DEF after

LEMMA NothingKept == KnownKept(NothingKnown)
  <1>1. DOMAIN <<>> = {}
    OBVIOUS
  <1> QED BY <1>1 DEF KnownKept, KnownOK, AllApart, NothingKnown

\* What is kept apart has one answer at every time.
LEMMA OneAnswer ==
    ASSUME KnownKept(known)
    PROVE  FactsDisjoint
  <1> SUFFICES ASSUME NEW f \in known.facts, NEW g \in ValidFacts(known, {f.scope}, f.from),
                      ~ f.multi, ~ g.multi, SameMatter(f, g), ~ SameClaim(f, g)
               PROVE  FALSE
    BY DEF FactsDisjoint
  <1>1. g \in known.facts /\ g.from <= f.from /\ g.until > f.from
    BY DEF ValidFacts
  <1>2. AllApart(known.facts)
    BY DEF KnownKept
  <1>3. Apart(f, g)
    BY <1>1, <1>2 DEF AllApart, Contradicts
  <1>4. /\ f.from < f.until /\ f.from \in Nat /\ f.until \in Nat
        /\ g.from \in Nat /\ g.until \in Nat
    BY <1>1, <1>2 DEF AllApart, IsFact
  <1> QED BY <1>1, <1>3, <1>4 DEF Apart

-----------------------------------------------------------------------------
(* The segments: the inductive invariant *)

Topics == UNION ({Text[t].topics : t \in Turns} \cup {j.topics : j \in Judgements})

Segment == [turns : Seq(Turns), started : Nat, ended : Nat, topics : SUBSET Topics,
            judged : BOOLEAN, extracted : BOOLEAN, longTerm : BOOLEAN, scope : Scopes,
            recalls : Nat, active : BOOLEAN, supports : SUBSET Nat, heard : Seq(Turns)]

RowFits(n, row) ==
    /\ row.started <= row.ended
    /\ row.extracted => row.judged
    /\ row.judged => row.heard = Shown(row)
    /\ row.recalls >= RecallThreshold => row.longTerm
    /\ row.supports \subseteq (1..Len(segments)) \ {n}

ChainOK ==
    /\ segments \in Seq(Segment)
    /\ \A n \in 1..Len(segments) : RowFits(n, segments[n])

ArchiveOK ==
    /\ archive \in [Turns -> Nat]
    /\ \A t \in Turns : archive[t] <= Len(segments)
    /\ TurnsKept

Counting(n) == {u \in Inquiries : <<u, n>> \in recallUses}

CountsOK ==
    /\ recallUses \subseteq Inquiries \X (1..Len(segments))
    /\ \A n \in 1..Len(segments) : segments[n].recalls = Cardinality(Counting(n))

CopyOf(c, chain) == c.n \in 1..Len(chain) /\ c = [n |-> c.n, row |-> chain[c.n]]

Jobs == {"none", "append", "maintain", "finalize"}
Steps == {"idle", "judge", "extract", "prepare", "commit", "settle"}

\* The copies the keeper holds are the rows themselves: nothing else wrote them.
KeeperOK ==
    /\ keeper = [job |-> keeper.job, turn |-> keeper.turn, queue |-> keeper.queue,
                 step |-> keeper.step, draft |-> keeper.draft]
    /\ keeper.job \in Jobs /\ keeper.step \in Steps
    /\ \A c \in keeper.queue : CopyOf(c, segments)
    /\ keeper.step \notin {"judge", "extract"} => keeper.queue = {}
    /\ keeper.step # "commit" => keeper.draft = {}
    /\ keeper.step \in {"prepare", "commit"} => keeper.job = "append"
    /\ keeper.job = "append" /\ keeper.step # "settle"
          => keeper.turn \in Turns /\ archive[keeper.turn] = 0
    /\ \A d \in keeper.draft :
          \/ d = [n |-> Len(segments) + 1, row |-> FreshSegment(keeper.turn)]
          \/ /\ Len(segments) > 0
             /\ d = [n |-> Len(segments),
                     row |-> JoinedSegment(segments[Len(segments)], keeper.turn)]

SegmentInv ==
    /\ ChainOK /\ ArchiveOK /\ CountsOK /\ KeeperOK
    /\ clock \in 0..MaxTime
    /\ KnownKept(known)

-----------------------------------------------------------------------------
(* The segments: what a step writes *)

\* The next state of the archive and of the counts is that of the same segments, but for
\* what a row says beside its turns and its recalls.
LEMMA Rewritten ==
    ASSUME SegmentInv, UNCHANGED <<archive, recallUses>>,
           segments' \in Seq(Segment), Len(segments') = Len(segments),
           \A n \in 1..Len(segments) :
              /\ RowFits(n, segments'[n])
              /\ segments'[n].turns = segments[n].turns
              /\ segments'[n].recalls = segments[n].recalls
    PROVE  ChainOK' /\ ArchiveOK' /\ CountsOK'
  <1>1. segments \in Seq(Segment) /\ Len(segments) \in Nat
        /\ DOMAIN segments = 1..Len(segments) /\ DOMAIN segments' = 1..Len(segments)
    BY DEF SegmentInv, ChainOK
  <1>2. ChainOK'
    BY <1>1 DEF ChainOK, RowFits
  <1>3. ArchiveOK'
    <2>1. archive \in [Turns -> Nat] /\ \A t \in Turns : archive[t] <= Len(segments)
      BY DEF SegmentInv, ArchiveOK
    <2>2. TurnsKept'
      <3>1. TurnsKept
        BY DEF SegmentInv, ArchiveOK
      <3>2. \A n \in DOMAIN segments' : \A i, j \in DOMAIN segments'[n].turns :
               /\ archive'[segments'[n].turns[i]] = n
               /\ segments'[n].turns[i] = segments'[n].turns[j] => i = j
        BY <1>1, <3>1 DEF TurnsKept
      <3>3. ASSUME NEW t \in Turns, archive'[t] # 0
            PROVE  t \in ToSet(segments'[archive'[t]].turns)
        <4>1. archive[t] \in 1..Len(segments)
          BY <2>1, <3>3
        <4> QED BY <3>1, <3>3, <4>1 DEF TurnsKept
      <3> QED BY <3>2, <3>3 DEF TurnsKept
    <2> QED BY <2>1, <2>2 DEF ArchiveOK
  <1>4. CountsOK'
    BY DEF SegmentInv, CountsOK, Counting
  <1> QED BY <1>2, <1>3, <1>4

\* The same, for one row.
LEMMA RowRewritten ==
    ASSUME SegmentInv, UNCHANGED <<archive, recallUses>>,
           NEW n \in 1..Len(segments), NEW row \in Segment, RowFits(n, row),
           row.turns = segments[n].turns, row.recalls = segments[n].recalls, Wrote(n, row)
    PROVE  /\ ChainOK' /\ ArchiveOK' /\ CountsOK'
           /\ Len(segments') = Len(segments) /\ segments'[n] = row
           /\ \A m \in 1..Len(segments) : m # n => segments'[m] = segments[m]
  <1>1. segments \in Seq(Segment) /\ \A m \in 1..Len(segments) : RowFits(m, segments[m])
    BY DEF SegmentInv, ChainOK
  <1>2. /\ segments' \in Seq(Segment) /\ Len(segments') = Len(segments)
        /\ segments'[n] = row /\ \A m \in 1..Len(segments) : m # n => segments'[m] = segments[m]
    BY <1>1 DEF Wrote
  <1> QED BY <1>1, <1>2, Rewritten

LEMMA CopyIs ==
    ASSUME SegmentInv, NEW c \in keeper.queue
    PROVE  /\ c.n \in 1..Len(segments) /\ c.row = segments[c.n] /\ c = Copy(c.n)
           /\ c.row \in Segment /\ RowFits(c.n, c.row)
           /\ keeper.step \in {"judge", "extract"}
  <1>1. c.n \in 1..Len(segments) /\ c = Copy(c.n) /\ keeper.step \in {"judge", "extract"}
    BY DEF SegmentInv, KeeperOK, CopyOf, Copy
  <1>2. c.row = segments[c.n]
    BY <1>1 DEF Copy
  <1> QED BY <1>1, <1>2 DEF SegmentInv, ChainOK

\* What a prompt shows of a segment is some of its turns, and depends on no more.
LEMMA ShownIs ==
    ASSUME NEW row \in Segment
    PROVE  /\ Shown(row) \in Seq(Turns)
           /\ \A other \in Segment : other.turns = row.turns => Shown(other) = Shown(row)
  <1>1. PICK turns : turns = row.turns
    OBVIOUS
  <1>2. turns \in Seq(Turns) /\ Len(turns) \in Nat /\ PromptTurns \in Nat
    BY <1>1, SegmentAssumption DEF Segment
  <1>3. PICK room : room = IF Len(turns) < PromptTurns THEN Len(turns) ELSE PromptTurns
    OBVIOUS
  <1>4. room \in Nat /\ room <= Len(turns)
    BY <1>2, <1>3
  <1>5. SubSeq(turns, 1, room) \in Seq(Turns)
    BY <1>2, <1>4
  <1>6. Shown(row) = SubSeq(turns, 1, room)
    BY <1>1, <1>3 DEF Shown
  <1>7. \A other \in Segment : other.turns = row.turns => Shown(other) = Shown(row)
    BY DEF Shown
  <1> QED BY <1>5, <1>6, <1>7

\* A judgement writes a row that fits where the row it read did.
LEMMA JudgedFits ==
    ASSUME SegmentInv, NEW n \in 1..Len(segments), NEW j \in Judgements, ~ segments[n].judged
    PROVE  LET row == JudgedRow(n, segments[n], j)
           IN /\ row \in Segment /\ RowFits(n, row)
              /\ row.turns = segments[n].turns /\ row.recalls = segments[n].recalls
  <1> DEFINE old == segments[n]
             row == JudgedRow(n, old, j)
             others == {m \in DOMAIN segments : j.names /\ m # n}
  <1>1. old \in Segment /\ RowFits(n, old) /\ DOMAIN segments = 1..Len(segments)
        /\ Len(segments) \in Nat
    BY DEF SegmentInv, ChainOK
  <1>2. PICK long \in BOOLEAN, scope \in Scopes,
             supports \in {old.supports, old.supports \cup others},
             topics \in {old.topics, j.topics}, heard \in {Shown(old)} :
           /\ row = [old EXCEPT !.judged = TRUE, !.longTerm = long, !.scope = scope,
                                !.supports = supports, !.topics = topics, !.heard = heard]
           /\ old.recalls >= RecallThreshold => long
    BY DEF JudgedRow, Scopes
  <1>7. j.topics \subseteq Topics
    BY DEF Topics
  <1>3. others \subseteq (1..Len(segments)) \ {n}
    BY <1>1
  <1> HIDE DEF old, row, others
  <1>4. supports \in SUBSET Nat /\ supports \subseteq (1..Len(segments)) \ {n}
    BY <1>1, <1>2, <1>3 DEF RowFits
  <1>8. heard \in Seq(Turns)
    BY <1>1, <1>2, ShownIs
  <1>9. topics \in SUBSET Topics
    BY <1>1, <1>2, <1>7 DEF Segment
  <1>5. row \in Segment /\ row.judged /\ row.turns = old.turns /\ row.heard = heard
        /\ row.recalls = old.recalls /\ row.supports = supports /\ row.longTerm = long
        /\ row.started = old.started /\ row.ended = old.ended
    BY <1>1, <1>2, <1>4, <1>8, <1>9 DEF Segment
  <1>10. Shown(row) = heard
    BY <1>1, <1>2, <1>5, ShownIs
  <1>6. RowFits(n, row)
    BY <1>1, <1>2, <1>4, <1>5, <1>10 DEF RowFits
  <1> QED BY <1>5, <1>6 DEF old, row

\* What a segment states leaves what is known consistent.
LEMMA SegmentFactsKept ==
    ASSUME KnownKept(known), NEW n, NEW row \in Segment, NEW claims \in Statements
    PROVE  KnownKept(SegmentFacts(n, row, claims))
  <1> DEFINE source == <<"segment", n>>
             kept == ParseFacts(claims, FALSE)
             profile == {c \in kept : row.scope = "profile" /\ c.subject = User}
             closed == CloseSegmentFacts(known, source, row.ended)
             mine == ApplyFacts(closed, claims, profile, row.ended, "profile", source)
  <1>1. Len(claims) \in Nat /\ \A i \in 1..Len(claims) : IsClaim(claims[i])
    BY SegmentAssumption
  <1>2. row.ended \in Nat /\ "profile" \in Scopes /\ "conversation" \in Scopes
    BY DEF Segment, Scopes
  <1>3. KnownKept(closed)
    BY <1>2, ClosingKept
  <1>4. KnownKept(mine)
    <2> HIDE DEF closed, profile, source
    <2> QED BY <1>1, <1>2, <1>3, FactsKept
  <1>5. KnownKept(ApplyFacts(mine, claims, kept \ profile, row.ended, "conversation", source))
    <2> HIDE DEF mine, profile, source, kept
    <2> QED BY <1>1, <1>2, <1>4, FactsKept
  <1> QED BY <1>5 DEF SegmentFacts

-----------------------------------------------------------------------------
(* The segments: every step keeps the invariant *)

LEMMA IdleKept ==
    ASSUME keeper' = Idle
    PROVE  KeeperOK'
  <1>1. /\ keeper'.queue = {} /\ keeper'.draft = {} /\ keeper'.job = "none"
        /\ keeper'.step = "idle" /\ keeper'.turn = ""
        /\ keeper' = [job |-> "none", turn |-> "", queue |-> {}, step |-> "idle",
                      draft |-> {}]
    BY DEF Idle
  <1> QED BY <1>1 DEF KeeperOK, Jobs, Steps

\* The keeper goes on with a queue whose copies are what the rows have become.
LEMMA QueuedKept ==
    ASSUME NEW job \in Jobs, NEW turn, NEW queue, keeper' = Queued(job, turn, queue),
           \A c \in queue : CopyOf(c, segments'),
           job = "append" => turn \in Turns /\ archive'[turn] = 0
    PROVE  KeeperOK'
  <1>1. CASE queue = {} /\ After(job) = "idle"
    <2>1. keeper' = Idle
      BY <1>1 DEF Queued
    <2> QED BY <2>1, IdleKept
  <1>2. CASE ~ (queue = {} /\ After(job) = "idle")
    <2>1. keeper' = [job |-> job, turn |-> turn, queue |-> queue,
                     step |-> IF queue = {} THEN After(job) ELSE "judge", draft |-> {}]
      BY <1>2 DEF Queued
    <2>2. /\ keeper'.queue = queue /\ keeper'.draft = {} /\ keeper'.job = job
          /\ keeper'.step = IF queue = {} THEN After(job) ELSE "judge"
          /\ keeper'.turn = turn
          /\ keeper' = [job |-> keeper'.job, turn |-> keeper'.turn, queue |-> keeper'.queue,
                        step |-> keeper'.step, draft |-> keeper'.draft]
      BY <2>1
    <2>3. /\ keeper'.step \in Steps
          /\ keeper'.step \notin {"judge", "extract"} => queue = {}
          /\ keeper'.step \in {"prepare", "commit"} => job = "append"
      BY <2>2 DEF After, Steps
    <2> QED BY <2>2, <2>3 DEF KeeperOK
  <1> QED BY <1>1, <1>2

\* What the keeper does next when one copy is done with.
LEMMA AdvancedKept ==
    ASSUME SegmentInv, NEW c \in keeper.queue, keeper' = Advanced(c),
           UNCHANGED archive, Len(segments') = Len(segments),
           \A m \in 1..Len(segments) : m # c.n => segments'[m] = segments[m]
    PROVE  KeeperOK'
  <1>1. /\ keeper.job \in Jobs /\ keeper.step \in {"judge", "extract"}
        /\ keeper.job = "append" => keeper.turn \in Turns /\ archive[keeper.turn] = 0
    BY CopyIs DEF SegmentInv, KeeperOK
  <1>2. ASSUME NEW d \in keeper.queue \ {c}
        PROVE  CopyOf(d, segments')
    <2>1. d = Copy(d.n) /\ c = Copy(c.n) /\ d.n \in 1..Len(segments)
      BY CopyIs
    <2>2. d.n # c.n
      BY <2>1
    <2> QED BY <2>1, <2>2 DEF Copy, CopyOf
  <1>3. PICK job, turn, rest :
           /\ job = keeper.job /\ turn = keeper.turn /\ rest = keeper.queue \ {c}
           /\ keeper' = Queued(job, turn, rest)
    BY DEF Advanced
  <1>4. /\ job \in Jobs
        /\ job = "append" => turn \in Turns /\ archive'[turn] = 0
        /\ \A d \in rest : CopyOf(d, segments')
    BY <1>1, <1>2, <1>3
  <1> QED BY <1>3, <1>4, QueuedKept

LEMMA KeeperSame ==
    ASSUME SegmentInv, UNCHANGED <<segments, archive, keeper>>
    PROVE  KeeperOK'
  BY DEF SegmentInv, KeeperOK, CopyOf, FreshSegment, JoinedSegment

LEMMA ChainSame ==
    ASSUME SegmentInv, UNCHANGED <<segments, archive, recallUses>>
    PROVE  ChainOK' /\ ArchiveOK' /\ CountsOK'
  BY DEF SegmentInv, ChainOK, RowFits, ArchiveOK, TurnsKept, CountsOK, Counting

LEMMA JudgeKept ==
    ASSUME SegmentInv, NEW c \in keeper.queue, JudgeSegment(c)
    PROVE  SegmentInv'
  <1>1. PICK j \in Judgements :
           LET row == JudgedRow(c.n, c.row, j)
           IN /\ Wrote(c.n, row)
              /\ keeper' = [keeper EXCEPT !.step = "extract",
                               !.queue = (@ \ {c}) \cup {[n |-> c.n, row |-> row]}]
    BY DEF JudgeSegment
  <1> DEFINE row == JudgedRow(c.n, c.row, j)
  <1>2. ~ c.row.judged /\ UNCHANGED <<archive, recallUses, known, clock>>
    BY DEF JudgeSegment
  <1>3. c.n \in 1..Len(segments) /\ c.row = segments[c.n] /\ c = Copy(c.n)
    BY CopyIs
  <1>4. /\ row \in Segment /\ RowFits(c.n, row)
        /\ row.turns = segments[c.n].turns /\ row.recalls = segments[c.n].recalls
    BY <1>2, <1>3, JudgedFits
  <1>5. Wrote(c.n, row) /\ keeper' = [keeper EXCEPT !.step = "extract",
                               !.queue = (@ \ {c}) \cup {[n |-> c.n, row |-> row]}]
    BY <1>1
  <1> HIDE DEF row
  <1>6. /\ ChainOK' /\ ArchiveOK' /\ CountsOK'
        /\ Len(segments') = Len(segments) /\ segments'[c.n] = row
        /\ \A m \in 1..Len(segments) : m # c.n => segments'[m] = segments[m]
    BY <1>2, <1>3, <1>4, <1>5, RowRewritten
  <1>7. KeeperOK
    BY DEF SegmentInv
  <1>8. /\ keeper'.queue = (keeper.queue \ {c}) \cup {[n |-> c.n, row |-> row]}
        /\ keeper'.step = "extract" /\ keeper'.job = keeper.job
        /\ keeper'.turn = keeper.turn /\ keeper'.draft = keeper.draft
        /\ keeper' = [job |-> keeper'.job, turn |-> keeper'.turn, queue |-> keeper'.queue,
                      step |-> keeper'.step, draft |-> keeper'.draft]
    BY <1>5, <1>7 DEF KeeperOK
  <1>9. ASSUME NEW d \in keeper'.queue
        PROVE  CopyOf(d, segments')
    <2>1. CASE d = [n |-> c.n, row |-> row]
      BY <1>3, <1>6, <2>1 DEF CopyOf
    <2>2. CASE d \in keeper.queue \ {c}
      <3>1. d = Copy(d.n) /\ d.n \in 1..Len(segments)
        BY <2>2, CopyIs
      <3>2. d.n # c.n
        BY <1>3, <2>2, <3>1
      <3> QED BY <1>6, <3>1, <3>2 DEF Copy, CopyOf
    <2> QED BY <1>8, <2>1, <2>2
  <1>10. KeeperOK'
    <2>1. /\ keeper.step \in {"judge", "extract"} /\ keeper.draft = {}
          /\ keeper.job = "append" => keeper.turn \in Turns /\ archive[keeper.turn] = 0
          /\ keeper.job \in Jobs
      BY <1>7, CopyIs DEF KeeperOK
    <2> QED BY <1>2, <1>8, <1>9, <2>1 DEF KeeperOK, Steps
  <1> QED BY <1>2, <1>6, <1>10 DEF SegmentInv

LEMMA JudgeFailsKept ==
    ASSUME SegmentInv, NEW c \in keeper.queue, JudgeFails(c)
    PROVE  SegmentInv'
  <1>1. Wrote(c.n, c.row) /\ keeper' = [keeper EXCEPT !.step = "extract"]
        /\ UNCHANGED <<archive, recallUses, known, clock>>
    BY DEF JudgeFails
  <1>2. /\ c.n \in 1..Len(segments) /\ c.row = segments[c.n]
        /\ keeper.step \in {"judge", "extract"}
    BY CopyIs
  <1>3. segments' = segments
    BY <1>1, <1>2 DEF Wrote, SegmentInv, ChainOK
  <1>4. KeeperOK
    BY DEF SegmentInv
  <1>5. /\ keeper'.queue = keeper.queue
        /\ keeper'.step = "extract" /\ keeper'.job = keeper.job
        /\ keeper'.turn = keeper.turn /\ keeper'.draft = keeper.draft
        /\ keeper' = [job |-> keeper'.job, turn |-> keeper'.turn, queue |-> keeper'.queue,
                      step |-> keeper'.step, draft |-> keeper'.draft]
    BY <1>1, <1>4 DEF KeeperOK
  <1>6. KeeperOK'
    BY <1>1, <1>2, <1>3, <1>4, <1>5 DEF KeeperOK, Steps, CopyOf
  <1> QED BY <1>1, <1>3, <1>6, ChainSame DEF SegmentInv

LEMMA ExtractKept ==
    ASSUME SegmentInv, NEW c \in keeper.queue, ExtractFacts(c)
    PROVE  SegmentInv'
  <1> DEFINE row == [c.row EXCEPT !.extracted = TRUE]
  <1>1. /\ Wrote(c.n, row) /\ keeper' = Advanced(c) /\ c.row.judged
        /\ UNCHANGED <<archive, recallUses, clock>>
        /\ \E claims \in Understood(c.row) : known' = SegmentFacts(c.n, c.row, claims)
    BY DEF ExtractFacts
  <1>2. /\ c.n \in 1..Len(segments) /\ c.row = segments[c.n]
        /\ c.row \in Segment /\ RowFits(c.n, c.row)
    BY CopyIs
  <1>3. /\ row \in Segment /\ RowFits(c.n, row)
        /\ row.turns = segments[c.n].turns /\ row.recalls = segments[c.n].recalls
    <2>1. row \in Segment /\ row.turns = c.row.turns /\ row.heard = c.row.heard
      BY <1>2 DEF Segment
    <2>2. Shown(row) = Shown(c.row)
      BY <1>2, <2>1, ShownIs
    <2> QED BY <1>1, <1>2, <2>1, <2>2 DEF Segment, RowFits
  <1>4. KnownKept(known')
    BY <1>1, <1>2, SegmentFactsKept DEF Understood, SegmentInv
  <1> HIDE DEF row
  <1>5. /\ ChainOK' /\ ArchiveOK' /\ CountsOK'
        /\ Len(segments') = Len(segments)
        /\ \A m \in 1..Len(segments) : m # c.n => segments'[m] = segments[m]
    BY <1>1, <1>2, <1>3, RowRewritten
  <1>6. KeeperOK'
    BY <1>1, <1>5, AdvancedKept
  <1> QED BY <1>1, <1>4, <1>5, <1>6 DEF SegmentInv

LEMMA LeaveKept ==
    ASSUME SegmentInv, NEW c \in keeper.queue, LeaveFacts(c)
    PROVE  SegmentInv'
  <1>1. keeper' = Advanced(c) /\ UNCHANGED <<segments, archive, recallUses, known, clock>>
    BY DEF LeaveFacts
  <1>2. KeeperOK'
    BY <1>1, AdvancedKept
  <1> QED BY <1>1, <1>2, ChainSame DEF SegmentInv

LEMMA CopiesOf ==
    ASSUME SegmentInv, NEW n \in 1..Len(segments), UNCHANGED segments
    PROVE  CopyOf(Copy(n), segments')
  BY DEF Copy, CopyOf

LEMMA BeginAppendKept ==
    ASSUME SegmentInv, NEW t \in Turns, BeginAppend(t)
    PROVE  SegmentInv'
  <1>1. UNCHANGED <<segments, archive, recallUses, known, clock>>
    BY DEF BeginAppend
  <1>2. KeeperOK'
    <2>1. CASE Archived(t)
      <3>1. keeper' = Idle
        BY <2>1 DEF BeginAppend
      <3> QED BY <3>1, IdleKept
    <2>2. CASE ~ Archived(t)
      <3> DEFINE queue == IF /\ Latest > 0 /\ Text[t].speaker = "user"
                             /\ ~ Continues(segments[Latest], t)
                          THEN {Copy(Latest)} ELSE {}
      <3>1. keeper' = Queued("append", t, queue)
        BY <2>2 DEF BeginAppend
      <3>2. Latest > 0 => Latest \in 1..Len(segments)
        BY DEF Latest, SegmentInv, ChainOK
      <3>3. \A c \in queue : CopyOf(c, segments')
        <4>1. queue = {} \/ (Latest > 0 /\ queue = {Copy(Latest)})
          OBVIOUS
        <4>2. Latest > 0 => CopyOf(Copy(Latest), segments')
          BY <1>1, <3>2, CopiesOf
        <4> HIDE DEF queue
        <4> QED BY <4>1, <4>2
      <3>4. archive'[t] = 0
        BY <1>1, <2>2 DEF Archived
      <3>5. PICK q : q = queue
        OBVIOUS
      <3> HIDE DEF queue
      <3> QED BY <3>1, <3>3, <3>4, <3>5, QueuedKept DEF Jobs
    <2> QED BY <2>1, <2>2
  <1> QED BY <1>1, <1>2, ChainSame DEF SegmentInv

LEMMA PrepareKept ==
    ASSUME SegmentInv, PrepareTurn
    PROVE  SegmentInv'
  <1>1. UNCHANGED <<segments, archive, recallUses, known, clock>> /\ keeper.step = "prepare"
    BY DEF PrepareTurn
  <1>2. KeeperOK /\ Len(segments) \in Nat
    BY DEF SegmentInv, ChainOK
  <1> DEFINE d == IF Joins(keeper.turn)
                  THEN [n |-> Latest, row |-> JoinedSegment(segments[Latest], keeper.turn)]
                  ELSE [n |-> Latest + 1, row |-> FreshSegment(keeper.turn)]
  <1>3. keeper' = [keeper EXCEPT !.step = "commit", !.draft = {d}]
    BY DEF PrepareTurn
  <1>4. \/ d = [n |-> Len(segments) + 1, row |-> FreshSegment(keeper.turn)]
        \/ /\ Len(segments) > 0
           /\ d = [n |-> Len(segments),
                   row |-> JoinedSegment(segments[Len(segments)], keeper.turn)]
    BY DEF Joins, Latest
  <1> HIDE DEF d
  <1>5. /\ keeper'.queue = keeper.queue /\ keeper'.draft = {d}
        /\ keeper'.step = "commit" /\ keeper'.job = keeper.job
        /\ keeper'.turn = keeper.turn
        /\ keeper' = [job |-> keeper'.job, turn |-> keeper'.turn, queue |-> keeper'.queue,
                      step |-> keeper'.step, draft |-> keeper'.draft]
    BY <1>2, <1>3 DEF KeeperOK
  <1>6. /\ keeper.queue = {} /\ keeper.job = "append" /\ keeper.turn \in Turns
        /\ archive[keeper.turn] = 0
    BY <1>1, <1>2 DEF KeeperOK
  <1>7. \A e \in keeper'.draft :
          \/ e = [n |-> Len(segments) + 1, row |-> FreshSegment(keeper.turn)]'
          \/ /\ Len(segments') > 0
             /\ e = [n |-> Len(segments),
                     row |-> JoinedSegment(segments[Len(segments)], keeper.turn)]'
    BY <1>1, <1>4, <1>5 DEF FreshSegment, JoinedSegment
  <1>8. KeeperOK'
    BY <1>1, <1>5, <1>6, <1>7 DEF KeeperOK, Jobs, Steps
  <1> QED BY <1>1, <1>8, ChainSame DEF SegmentInv

\* A turn that is new to the archive is in no segment.
LEMMA NewTurn ==
    ASSUME SegmentInv, NEW t \in Turns, archive[t] = 0, NEW n \in 1..Len(segments)
    PROVE  /\ segments[n] \in Segment /\ segments[n].turns \in Seq(Turns)
           /\ DOMAIN segments[n].turns = 1..Len(segments[n].turns)
           /\ \A i \in 1..Len(segments[n].turns) :
                 /\ segments[n].turns[i] \in Turns /\ segments[n].turns[i] # t
                 /\ archive[segments[n].turns[i]] = n
           /\ \A i, j \in 1..Len(segments[n].turns) :
                 segments[n].turns[i] = segments[n].turns[j] => i = j
  <1>1. segments[n] \in Segment /\ n \in DOMAIN segments
    BY DEF SegmentInv, ChainOK
  <1>2. segments[n].turns \in Seq(Turns)
    BY <1>1 DEF Segment
  <1>3. DOMAIN segments[n].turns = 1..Len(segments[n].turns)
    BY <1>2
  <1>4. n # 0
    OBVIOUS
  <1>5. \A i, j \in DOMAIN segments[n].turns :
          /\ archive[segments[n].turns[i]] = n
          /\ segments[n].turns[i] = segments[n].turns[j] => i = j
    BY <1>1 DEF SegmentInv, ArchiveOK, TurnsKept
  <1>6. \A i \in 1..Len(segments[n].turns) : segments[n].turns[i] \in Turns
    BY <1>2
  <1> QED BY <1>1, <1>2, <1>3, <1>4, <1>5, <1>6

\* A turn that is archived in a segment is the last one of it.
LEMMA TurnArchived ==
    ASSUME SegmentInv, NEW t \in Turns, archive[t] = 0, NEW n \in Nat,
           archive' = [archive EXCEPT ![t] = n], n \in 1..Len(segments'),
           segments' \in Seq(Segment),
           \/ Len(segments') = Len(segments) /\ segments'[n].turns = Append(segments[n].turns, t)
           \/ Len(segments') = Len(segments) + 1 /\ n = Len(segments') /\ segments'[n].turns = <<t>>,
           \A m \in 1..Len(segments) : m # n => segments'[m].turns = segments[m].turns
    PROVE  ArchiveOK'
  <1>1. /\ archive \in [Turns -> Nat] /\ (\A u \in Turns : archive[u] <= Len(segments))
        /\ DOMAIN segments = 1..Len(segments) /\ Len(segments) \in Nat /\ TurnsKept
        /\ DOMAIN segments' = 1..Len(segments')
    BY DEF SegmentInv, ChainOK, ArchiveOK
  <1>l. PICK long : long = Len(segments')
    OBVIOUS
  <1>s. PICK short : short = Len(segments)
    OBVIOUS
  <1>a. /\ long \in Nat /\ n <= long /\ n >= 1 /\ short \in Nat /\ short <= long
        /\ long = short \/ (long = short + 1 /\ n = long)
    <2>1. long \in Nat /\ short \in Nat
      BY <1>1, <1>l, <1>s
    <2>2. n \in 1..long
      BY <1>l
    <2>3. long = short \/ (long = short + 1 /\ n = long)
      BY <1>l, <1>s
    <2> QED BY <2>1, <2>2, <2>3
  <1>b. /\ archive' \in [Turns -> Nat] /\ archive'[t] = n
        /\ \A u \in Turns : u # t => archive'[u] = archive[u]
    BY <1>1
  <1>2. /\ archive' \in [Turns -> Nat] /\ archive'[t] = n
        /\ \A u \in Turns : u # t => archive'[u] = archive[u]
        /\ \A u \in Turns : archive'[u] <= Len(segments')
    <2> SUFFICES ASSUME NEW u \in Turns PROVE archive'[u] <= long
      BY <1>b, <1>l
    <2>1. archive[u] <= short /\ archive[u] \in Nat
      BY <1>1, <1>s
    <2>2. CASE u = t
      BY <1>a, <1>b, <2>2
    <2>3. CASE u # t
      BY <1>a, <1>b, <2>1, <2>3
    <2> QED BY <2>2, <2>3
  <1>3. ASSUME NEW m \in 1..Len(segments'), m # n
        PROVE  m \in 1..Len(segments) /\ segments'[m].turns = segments[m].turns
    <2>1. m \in 1..long
      BY <1>3, <1>l
    <2>2. m \in 1..short
      BY <1>3, <1>a, <2>1
    <2> QED BY <1>3, <1>s, <2>2
  <1>4. \A i, j \in DOMAIN segments'[n].turns :
          /\ archive'[segments'[n].turns[i]] = n
          /\ segments'[n].turns[i] = segments'[n].turns[j] => i = j
    <2>1. CASE n \in 1..Len(segments) /\ segments'[n].turns = Append(segments[n].turns, t)
      <3> DEFINE old == segments[n].turns
                 new == segments'[n].turns
      <3>1. /\ old \in Seq(Turns) /\ new = Append(old, t)
            /\ \A i \in 1..Len(old) : old[i] \in Turns /\ old[i] # t /\ archive[old[i]] = n
            /\ \A i, j \in 1..Len(old) : old[i] = old[j] => i = j
        BY <2>1, NewTurn
      <3> HIDE DEF old, new
      <3>2. /\ DOMAIN new = 1..(Len(old) + 1) /\ new[Len(old) + 1] = t /\ Len(old) \in Nat
            /\ \A i \in 1..Len(old) : new[i] = old[i]
        BY <3>1
      <3>3. \A i, j \in DOMAIN new : archive'[new[i]] = n /\ (new[i] = new[j] => i = j)
        <4> SUFFICES ASSUME NEW i \in DOMAIN new, NEW j \in DOMAIN new
                     PROVE  archive'[new[i]] = n /\ (new[i] = new[j] => i = j)
          OBVIOUS
        <4>1. i \in 1..Len(old) \/ i = Len(old) + 1
          BY <3>2
        <4>2. j \in 1..Len(old) \/ j = Len(old) + 1
          BY <3>2
        <4> QED BY <1>2, <3>1, <3>2, <4>1, <4>2
      <3> QED BY <3>3 DEF new
    <2>2. CASE segments'[n].turns = <<t>>
      BY <1>2, <2>2
    <2>3. Len(segments') = Len(segments) => n \in 1..Len(segments)
      OBVIOUS
    <2> QED BY <2>1, <2>2, <2>3
  <1>5. ASSUME NEW m \in DOMAIN segments'
        PROVE  \A i, j \in DOMAIN segments'[m].turns :
                  /\ archive'[segments'[m].turns[i]] = m
                  /\ segments'[m].turns[i] = segments'[m].turns[j] => i = j
    <2>1. CASE m = n
      BY <1>4, <2>1
    <2>2. CASE m # n
      <3>1. m \in 1..Len(segments) /\ segments'[m].turns = segments[m].turns
        BY <1>1, <1>3, <2>2
      <3> DEFINE old == segments[m].turns
      <3>2. /\ DOMAIN old = 1..Len(old)
            /\ \A i \in 1..Len(old) : old[i] \in Turns /\ old[i] # t /\ archive[old[i]] = m
            /\ \A i, j \in 1..Len(old) : old[i] = old[j] => i = j
        BY <3>1, NewTurn
      <3>3. segments'[m].turns = old
        BY <3>1
      <3> HIDE DEF old
      <3> QED BY <1>2, <3>2, <3>3
    <2> QED BY <2>1, <2>2
  <1>6. t \in ToSet(segments'[n].turns)
    <2>1. CASE n \in 1..Len(segments) /\ segments'[n].turns = Append(segments[n].turns, t)
      <3>1. segments[n].turns \in Seq(Turns)
        BY <2>1, NewTurn
      <3>2. /\ Len(segments[n].turns) + 1 \in DOMAIN segments'[n].turns
            /\ segments'[n].turns[Len(segments[n].turns) + 1] = t
        BY <2>1, <3>1
      <3> QED BY <3>2 DEF ToSet
    <2>2. CASE segments'[n].turns = <<t>>
      <3>1. 1 \in DOMAIN <<t>> /\ <<t>>[1] = t
        OBVIOUS
      <3> QED BY <2>2, <3>1 DEF ToSet
    <2>3. Len(segments') = Len(segments) => n \in 1..Len(segments)
      OBVIOUS
    <2> QED BY <2>1, <2>2, <2>3
  <1>7. ASSUME NEW u \in Turns, archive'[u] # 0
        PROVE  u \in ToSet(segments'[archive'[u]].turns)
    <2>1. CASE u = t
      BY <1>2, <1>6, <2>1
    <2>2. CASE u # t
      <3>a. archive'[u] = archive[u] /\ archive[u] # 0
        BY <1>2, <1>7, <2>2
      <3>1. archive'[u] = archive[u] /\ archive[u] \in 1..Len(segments)
            /\ u \in ToSet(segments[archive[u]].turns)
        <4>1. archive[u] \in Nat /\ archive[u] <= short /\ short \in Nat
          BY <1>1, <1>s
        <4>2. archive[u] \in 1..short
          BY <3>a, <4>1
        <4>3. u \in ToSet(segments[archive[u]].turns)
          BY <1>1, <3>a DEF TurnsKept
        <4> QED BY <1>s, <3>a, <4>2, <4>3
      <3>2. CASE archive[u] # n
        BY <3>1, <3>2
      <3>3. CASE archive[u] = n
        <4>1. segments[n].turns \in Seq(Turns) /\ n \in 1..Len(segments)
          BY <3>1, <3>3, NewTurn
        <4>5. n \in 1..short
          BY <1>s, <4>1
        <4>6. ~ (long = short + 1 /\ n = long)
          BY <1>a, <4>5
        <4>2. segments'[n].turns = Append(segments[n].turns, t)
          BY <1>l, <1>s, <4>6
        <4>3. PICK i \in DOMAIN segments[n].turns : segments[n].turns[i] = u
          BY <3>1, <3>3 DEF ToSet
        <4>4. i \in DOMAIN segments'[n].turns /\ segments'[n].turns[i] = u
          BY <4>1, <4>2, <4>3
        <4> QED BY <3>1, <3>3, <4>4 DEF ToSet
      <3> QED BY <3>2, <3>3
    <2> QED BY <2>1, <2>2
  <1>8. TurnsKept'
    BY <1>5, <1>7 DEF TurnsKept
  <1> QED BY <1>2, <1>8 DEF ArchiveOK

\* The counts stay when the rows they count keep their recalls and a new one has none.
LEMMA CountsSame ==
    ASSUME SegmentInv, UNCHANGED recallUses, NEW long \in Nat, long = Len(segments'),
           Len(segments) <= long,
           \A n \in 1..Len(segments) : segments'[n].recalls = segments[n].recalls,
           \A n \in 1..long : n \notin 1..Len(segments) => segments'[n].recalls = 0
    PROVE  CountsOK'
  <1>s. PICK short : short = Len(segments)
    OBVIOUS
  <1>1. short \in Nat /\ recallUses \subseteq Inquiries \X (1..short)
    BY <1>s DEF SegmentInv, ChainOK, CountsOK
  <1>2. short <= long
    BY <1>s
  <1>3. 1..short \subseteq 1..long
    BY <1>1, <1>2
  <1>4. recallUses' \subseteq Inquiries \X (1..long)
    BY <1>1, <1>3
  <1>5. ASSUME NEW n \in 1..long
        PROVE  segments'[n].recalls = Cardinality(Counting(n)')
    <2>1. CASE n \in 1..short
      <3>1. segments[n].recalls = Cardinality(Counting(n))
        BY <1>s, <2>1 DEF SegmentInv, CountsOK
      <3>2. Counting(n)' = Counting(n)
        BY DEF Counting
      <3> QED BY <1>s, <2>1, <3>1, <3>2
    <2>2. CASE n \notin 1..short
      <3>1. Counting(n)' = {}
        BY <1>1, <2>2 DEF Counting
      <3>2. Cardinality(Counting(n)') = 0
        BY <3>1, FS_EmptySet
      <3> QED BY <1>s, <2>2, <3>2
    <2> QED BY <2>1, <2>2
  <1> QED BY <1>4, <1>5 DEF CountsOK

LEMMA FreshFits ==
    ASSUME SegmentInv, NEW t \in Turns, NEW n
    PROVE  /\ FreshSegment(t) \in Segment /\ RowFits(n, FreshSegment(t))
           /\ FreshSegment(t).turns = <<t>> /\ FreshSegment(t).recalls = 0
  <1>1. Text[t].at \in Nat /\ Text[t].topics \subseteq Topics
    BY SegmentAssumption DEF Topics
  <1>2. <<t>> \in Seq(Turns) /\ <<>> \in Seq(Turns)
    OBVIOUS
  <1>3. FreshSegment(t) \in Segment
    BY <1>1, <1>2 DEF FreshSegment, Segment, Scopes
  <1>4. 0 < RecallThreshold /\ RecallThreshold \in Nat
    BY SegmentAssumption
  <1>5. RowFits(n, FreshSegment(t))
    BY <1>1, <1>4 DEF FreshSegment, RowFits
  <1> QED BY <1>3, <1>5 DEF FreshSegment

\* What the commit makes of a row to which a turn was joined.
LEMMA JoinedFits ==
    ASSUME NEW old \in Segment, NEW t \in Turns, old.started <= old.ended, NEW n
    PROVE  LET row == [JoinedSegment(old, t) EXCEPT
                          !.recalls = old.recalls,
                          !.longTerm = old.recalls >= RecallThreshold,
                          !.supports = {}]
           IN /\ row \in Segment /\ RowFits(n, row)
              /\ row.turns = Append(old.turns, t) /\ row.recalls = old.recalls
  <1>1. Text[t].at \in Nat /\ Text[t].topics \subseteq Topics
    BY SegmentAssumption DEF Topics
  <1>2. PICK started, ended :
           /\ started = IF old.started < Text[t].at THEN old.started ELSE Text[t].at
           /\ ended = IF old.ended > Text[t].at THEN old.ended ELSE Text[t].at
    OBVIOUS
  <1>3. old.started \in Nat /\ old.ended \in Nat /\ old.recalls \in Nat
        /\ old.turns \in Seq(Turns) /\ old.topics \subseteq Topics
    BY DEF Segment
  <1>4. started \in Nat /\ ended \in Nat /\ started <= ended
    BY <1>1, <1>2, <1>3
  <1>5. Append(old.turns, t) \in Seq(Turns)
    BY <1>3
  <1>6. PICK long \in BOOLEAN : long = (old.recalls >= RecallThreshold)
    <2>1. (old.recalls >= RecallThreshold) \in BOOLEAN
      OBVIOUS
    <2> QED BY <2>1, Zenon
  <1> DEFINE row == [JoinedSegment(old, t) EXCEPT
                        !.recalls = old.recalls,
                        !.longTerm = old.recalls >= RecallThreshold,
                        !.supports = {}]
  <1>7. row = [old EXCEPT !.turns = Append(old.turns, t), !.started = started,
                          !.ended = ended, !.topics = old.topics \cup Text[t].topics,
                          !.judged = FALSE, !.extracted = FALSE,
                          !.longTerm = long, !.recalls = old.recalls, !.supports = {}]
    <2>1. JoinedSegment(old, t) =
             [old EXCEPT !.turns = Append(old.turns, t), !.started = started,
                         !.ended = ended, !.topics = old.topics \cup Text[t].topics,
                         !.judged = FALSE, !.extracted = FALSE, !.longTerm = long]
      BY <1>2, <1>6, Zenon DEF JoinedSegment
    <2>2. row = [JoinedSegment(old, t) EXCEPT !.recalls = old.recalls, !.longTerm = long,
                                              !.supports = {}]
      BY <1>6, Zenon
    <2> HIDE DEF row
    <2> QED BY <2>1, <2>2 DEF Segment
  <1> HIDE DEF row
  <1>8. /\ row \in Segment /\ row.turns = Append(old.turns, t) /\ row.recalls = old.recalls
        /\ row.started = started /\ row.ended = ended /\ row.judged = FALSE
        /\ row.extracted = FALSE /\ row.longTerm = long /\ row.supports = {}
    BY <1>1, <1>3, <1>4, <1>5, <1>7 DEF Segment
  <1>9. RowFits(n, row)
    BY <1>4, <1>6, <1>8 DEF RowFits
  <1> QED BY <1>8, <1>9 DEF row

\* The keeper's draft is of the chain as it is: a new last segment, or the last one joined.
LEMMA CommitKept ==
    ASSUME SegmentInv, NEW draft \in keeper.draft, CommitTurn(draft)
    PROVE  SegmentInv'
  <1> DEFINE t == keeper.turn
             long == Len(segments)
             settled == [draft.row EXCEPT !.recalls = segments[draft.n].recalls,
                                          !.longTerm = segments[draft.n].recalls >= RecallThreshold,
                                          !.supports = {}]
  <1>1. /\ keeper.step = "commit" /\ archive[t] = 0
        /\ segments' = IF draft.n > long THEN Append(segments, draft.row)
                       ELSE [segments EXCEPT ![draft.n] = settled]
        /\ archive' = [archive EXCEPT ![t] = draft.n]
        /\ keeper' = [keeper EXCEPT !.step = "settle", !.draft = {}]
        /\ UNCHANGED <<recallUses, known, clock, left>>
    BY DEF CommitTurn, Latest, Archived
  <1>2. /\ KeeperOK /\ segments \in Seq(Segment) /\ long \in Nat /\ t \in Turns
        /\ keeper.job = "append"
        /\ \A n \in 1..long : RowFits(n, segments[n])
    BY <1>1 DEF SegmentInv, ChainOK, KeeperOK
  <1>3. \/ draft = [n |-> long + 1, row |-> FreshSegment(t)]
        \/ /\ long > 0
           /\ draft = [n |-> long, row |-> JoinedSegment(segments[long], t)]
    BY <1>2 DEF KeeperOK
  <1>4. KeeperOK'
    <2>1. /\ keeper'.queue = keeper.queue /\ keeper'.draft = {}
          /\ keeper'.step = "settle" /\ keeper'.job = keeper.job
          /\ keeper'.turn = keeper.turn
          /\ keeper' = [job |-> keeper'.job, turn |-> keeper'.turn, queue |-> keeper'.queue,
                        step |-> keeper'.step, draft |-> keeper'.draft]
      BY <1>1, <1>2 DEF KeeperOK
    <2>2. keeper.queue = {}
      BY <1>1, <1>2 DEF KeeperOK
    <2> QED BY <1>2, <2>1, <2>2 DEF KeeperOK, Jobs, Steps
  <1>5. CASE draft = [n |-> long + 1, row |-> FreshSegment(t)]
    <2>1. draft.n = long + 1 /\ draft.row = FreshSegment(t)
      BY <1>5
    <2>2. segments' = Append(segments, FreshSegment(t))
      <3>1. draft.n > long
        BY <1>2, <2>1
      <3> QED BY <1>1, <2>1, <3>1
    <2>3. /\ FreshSegment(t) \in Segment /\ FreshSegment(t).turns = <<t>>
          /\ FreshSegment(t).recalls = 0 /\ \A n : RowFits(n, FreshSegment(t))
      BY <1>2, FreshFits
    <2>4. PICK fresh : fresh = FreshSegment(t)
      OBVIOUS
    <2> HIDE DEF t
    <2>5. /\ segments' \in Seq(Segment) /\ Len(segments') = long + 1
          /\ segments'[long + 1] = fresh
          /\ \A n \in 1..long : segments'[n] = segments[n]
      BY <1>2, <2>2, <2>3, <2>4
    <2>6. PICK longer : longer = long + 1
      OBVIOUS
    <2>a. longer \in Nat /\ longer # 0 /\ longer \in 1..Len(segments')
      BY <1>2, <2>5, <2>6
    <2>7. ASSUME NEW n \in 1..longer, n \notin 1..long
          PROVE  n = longer
      BY <1>2, <2>6, <2>7
    <2>8. ChainOK'
      <3> SUFFICES ASSUME NEW n \in 1..longer PROVE RowFits(n, segments[n])'
        BY <2>5, <2>6 DEF ChainOK
      <3>1. PICK row : row = segments'[n]
        OBVIOUS
      <3>2. RowFits(n, row)
        BY <1>2, <2>3, <2>4, <2>5, <2>6, <2>7, <3>1
      <3>3. 1..long \subseteq 1..Len(segments')
        BY <1>2, <2>5
      <3> QED BY <3>1, <3>2, <3>3 DEF RowFits
    <2>9. CountsOK'
      <3>1. \A n \in 1..long : segments'[n].recalls = segments[n].recalls
        BY <2>5
      <3>2. \A n \in 1..longer : n \notin 1..long => segments'[n].recalls = 0
        BY <2>3, <2>4, <2>5, <2>6, <2>7
      <3>3. longer = Len(segments') /\ long <= longer
        BY <1>2, <2>5, <2>6
      <3> QED BY <1>1, <2>a, <3>1, <3>2, <3>3, CountsSame
    <2>10. ArchiveOK'
      <3>1. /\ t \in Turns /\ archive[t] = 0 /\ archive' = [archive EXCEPT ![t] = longer]
        BY <1>1, <1>2, <2>1, <2>6
      <3>2. /\ Len(segments') = Len(segments) + 1 /\ longer = Len(segments')
            /\ segments'[longer].turns = <<t>>
        BY <2>3, <2>4, <2>5, <2>6
      <3>3. \A n \in 1..Len(segments) : segments'[n].turns = segments[n].turns
        BY <2>5
      <3> HIDE DEF long
      <3> QED BY <2>5, <2>a, <3>1, <3>2, <3>3, TurnArchived
    <2> QED BY <1>1, <1>4, <2>8, <2>9, <2>10 DEF SegmentInv
  <1>6. CASE long > 0 /\ draft = [n |-> long, row |-> JoinedSegment(segments[long], t)]
    <2>1. draft.n = long /\ draft.row = JoinedSegment(segments[long], t)
          /\ long \in 1..long
      BY <1>2, <1>6
    <2>2. PICK old : old = segments[long]
      OBVIOUS
    <2>3. old \in Segment /\ old.started <= old.ended
      BY <1>2, <2>1, <2>2 DEF RowFits
    <2> DEFINE row == [JoinedSegment(old, t) EXCEPT
                          !.recalls = old.recalls,
                          !.longTerm = old.recalls >= RecallThreshold,
                          !.supports = {}]
    <2>4. segments' = [segments EXCEPT ![long] = row]
      <3>1. ~ (draft.n > long)
        BY <1>2, <2>1
      <3>2. settled = row
        BY <2>1, <2>2
      <3> HIDE DEF row, settled, long
      <3> QED BY <1>1, <2>1, <3>1, <3>2
    <2>5. /\ row \in Segment /\ RowFits(long, row)
          /\ row.turns = Append(old.turns, t) /\ row.recalls = old.recalls
      BY <1>2, <2>3, JoinedFits
    <2>6. PICK new : new = row
      OBVIOUS
    <2> HIDE DEF row, t, settled
    <2>7. /\ segments' \in Seq(Segment) /\ Len(segments') = long
          /\ segments'[long] = new
          /\ \A n \in 1..long : n # long => segments'[n] = segments[n]
      BY <1>2, <2>1, <2>4, <2>5, <2>6
    <2>8. ChainOK'
      <3> SUFFICES ASSUME NEW n \in 1..long PROVE RowFits(n, segments[n])'
        BY <2>7 DEF ChainOK
      <3>1. PICK this : this = segments'[n]
        OBVIOUS
      <3>2. RowFits(n, this)
        BY <1>2, <2>5, <2>6, <2>7, <3>1
      <3> QED BY <2>7, <3>1, <3>2 DEF RowFits
    <2>9. CountsOK'
      <3>1. \A n \in 1..long : segments'[n].recalls = segments[n].recalls
        BY <2>2, <2>5, <2>6, <2>7
      <3>2. PICK size : size = long
        OBVIOUS
      <3>3. size \in Nat /\ size = Len(segments') /\ Len(segments) <= size
            /\ \A n \in 1..size : n \notin 1..Len(segments) => segments'[n].recalls = 0
        BY <1>2, <2>7, <3>2
      <3> QED BY <1>1, <3>1, <3>3, CountsSame
    <2>10. ArchiveOK'
      <3>0. PICK n : n = long
        OBVIOUS
      <3>1. /\ t \in Turns /\ archive[t] = 0 /\ archive' = [archive EXCEPT ![t] = n]
            /\ n \in Nat /\ n \in 1..Len(segments')
        BY <1>1, <1>2, <2>1, <2>7, <3>0
      <3>2. /\ Len(segments') = Len(segments)
            /\ segments'[n].turns = Append(segments[n].turns, t)
        BY <2>2, <2>5, <2>6, <2>7, <3>0
      <3>3. \A m \in 1..Len(segments) : m # n => segments'[m].turns = segments[m].turns
        BY <2>7, <3>0
      <3> HIDE DEF long
      <3> QED BY <2>7, <3>1, <3>2, <3>3, TurnArchived
    <2> QED BY <1>1, <1>4, <2>8, <2>9, <2>10 DEF SegmentInv
  <1> QED BY <1>3, <1>5, <1>6

LEMMA KeeperFailsKept ==
    ASSUME SegmentInv, KeeperFails
    PROVE  SegmentInv'
  BY IdleKept, ChainSame DEF KeeperFails, SegmentInv

\* Leaving the recall changes nothing else of a row.
LEMMA SettleKept ==
    ASSUME SegmentInv, SettleCapacity
    PROVE  SegmentInv'
  <1>1. UNCHANGED <<archive, recallUses, known, clock, left>> /\ keeper' = Idle
    BY DEF SettleCapacity
  <1>2. PICK gone \in Overflow :
           segments' = [n \in DOMAIN segments |->
                           [segments[n] EXCEPT !.active = @ /\ n \notin gone]]
    BY DEF SettleCapacity
  <1>3. /\ segments \in Seq(Segment) /\ Len(segments) \in Nat
        /\ DOMAIN segments = 1..Len(segments)
        /\ \A n \in 1..Len(segments) : segments[n] \in Segment /\ RowFits(n, segments[n])
    BY DEF SegmentInv, ChainOK
  <1>4. ASSUME NEW n \in 1..Len(segments)
        PROVE  /\ segments'[n] \in Segment /\ RowFits(n, segments'[n])
               /\ segments'[n].turns = segments[n].turns
               /\ segments'[n].recalls = segments[n].recalls
    <2>1. segments[n].active \in BOOLEAN
      BY <1>3 DEF Segment
    <2>2. PICK b \in BOOLEAN : b = (segments[n].active /\ n \notin gone)
      BY Zenon
    <2>3. segments'[n] = [segments[n] EXCEPT !.active = segments[n].active /\ n \notin gone]
      BY <1>2, <1>3
    <2>4. segments'[n] = [segments[n] EXCEPT !.active = b]
      BY <2>2, <2>3, Zenon
    <2>5. /\ segments'[n] \in Segment /\ segments'[n].turns = segments[n].turns
          /\ segments'[n].heard = segments[n].heard
      BY <1>3, <2>4 DEF Segment
    <2>6. Shown(segments'[n]) = Shown(segments[n])
      <3>1. PICK old, new : old = segments[n] /\ new = segments'[n]
        OBVIOUS
      <3>2. Shown(new) = Shown(old)
        BY <1>3, <2>5, <3>1, ShownIs
      <3> QED BY <3>1, <3>2
    <2> QED BY <1>3, <2>4, <2>5, <2>6 DEF Segment, RowFits
  <1>5. segments' \in Seq(Segment) /\ Len(segments') = Len(segments)
    <2>1. segments' \in [1..Len(segments) -> Segment]
      BY <1>2, <1>3, <1>4
    <2> QED BY <1>3, <2>1
  <1>6. ChainOK' /\ ArchiveOK' /\ CountsOK'
    BY <1>1, <1>4, <1>5, Rewritten
  <1> QED BY <1>1, <1>6, IdleKept DEF SegmentInv

LEMMA MaintainKept ==
    ASSUME SegmentInv, MaintainSegments
    PROVE  SegmentInv'
  <1>1. /\ UNCHANGED <<segments, archive, recallUses, known, clock>>
        /\ keeper' = Queued("maintain", "", Pending)
    BY DEF MaintainSegments
  <1>2. PICK queue : queue = Pending
    OBVIOUS
  <1>3. \A c \in queue : CopyOf(c, segments')
    <2> SUFFICES ASSUME NEW c \in Pending PROVE CopyOf(c, segments')
      BY <1>2
    <2>1. PICK n \in DOMAIN segments : c = Copy(n)
      BY DEF Pending
    <2>2. n \in 1..Len(segments)
      BY DEF SegmentInv, ChainOK
    <2> QED BY <1>1, <2>1, <2>2, CopiesOf
  <1>4. KeeperOK'
    BY <1>1, <1>2, <1>3, QueuedKept DEF Jobs
  <1> QED BY <1>1, <1>4, ChainSame DEF SegmentInv

LEMMA FinalizeKept ==
    ASSUME SegmentInv, FinalizeSegment
    PROVE  SegmentInv'
  <1>1. /\ UNCHANGED <<segments, archive, recallUses, known, clock>>
        /\ keeper' = Queued("finalize", "", {Copy(Latest)}) /\ Latest > 0
    BY DEF FinalizeSegment
  <1>2. PICK queue : queue = {Copy(Latest)}
    OBVIOUS
  <1>3. Latest \in 1..Len(segments)
    <2>1. Len(segments) \in Nat
      BY DEF SegmentInv, ChainOK
    <2>2. Latest > 0
      BY <1>1
    <2> QED BY <2>1, <2>2 DEF Latest
  <1>4. \A c \in queue : CopyOf(c, segments')
    BY <1>1, <1>2, <1>3, CopiesOf
  <1>5. KeeperOK'
    BY <1>1, <1>2, <1>4, QueuedKept DEF Jobs
  <1> QED BY <1>1, <1>5, ChainSame DEF SegmentInv

\* No copy is held when a recall is counted, and it is counted once.
LEMMA RecallKept ==
    ASSUME SegmentInv, NEW n \in DOMAIN segments, NEW u \in Inquiries, RecallSegment(n, u)
    PROVE  SegmentInv'
  <1>1. /\ UNCHANGED <<archive, known, keeper, clock, left>>
        /\ keeper = Idle /\ <<u, n>> \notin recallUses
        /\ recallUses' = recallUses \cup {<<u, n>>}
        /\ Wrote(n, [segments[n] EXCEPT
                        !.recalls = @ + 1,
                        !.longTerm = @ \/ segments[n].recalls + 1 >= RecallThreshold])
    BY DEF RecallSegment, LockFree
  <1>2. /\ segments \in Seq(Segment) /\ Len(segments) \in Nat
        /\ DOMAIN segments = 1..Len(segments)
        /\ \A m \in 1..Len(segments) : segments[m] \in Segment /\ RowFits(m, segments[m])
    BY DEF SegmentInv, ChainOK
  <1>3. PICK old : old = segments[n]
    OBVIOUS
  <1>4. old \in Segment /\ RowFits(n, old) /\ old.recalls \in Nat /\ old.longTerm \in BOOLEAN
    BY <1>2, <1>3 DEF Segment
  <1>5. PICK long \in BOOLEAN : long = (old.longTerm \/ old.recalls + 1 >= RecallThreshold)
    BY Zenon
  <1>6. segments' = [segments EXCEPT ![n] = [old EXCEPT !.recalls = old.recalls + 1,
                                                        !.longTerm = long]]
    BY <1>1, <1>3, <1>5, Zenon DEF Wrote
  <1>7. PICK row : row = [old EXCEPT !.recalls = old.recalls + 1, !.longTerm = long]
    OBVIOUS
  <1>8. /\ row \in Segment /\ RowFits(n, row) /\ row.turns = old.turns
        /\ row.recalls = old.recalls + 1
    <2>1. /\ row \in Segment /\ row.turns = old.turns /\ row.recalls = old.recalls + 1
          /\ row.longTerm = long /\ row.started = old.started /\ row.ended = old.ended
          /\ row.judged = old.judged /\ row.extracted = old.extracted
          /\ row.heard = old.heard /\ row.supports = old.supports
      <3>1. old \in Segment /\ old.recalls + 1 \in Nat
        BY <1>4
      <3> QED BY <1>7, <3>1 DEF Segment
    <2>2. ASSUME row.recalls >= RecallThreshold
          PROVE  long
      <3>1. old.recalls + 1 >= RecallThreshold
        BY <2>1, <2>2
      <3> QED BY <1>5, <3>1, Zenon
    <2>3. row.recalls >= RecallThreshold => row.longTerm
      BY <2>1, <2>2, Zenon
    <2>4. /\ old.started <= old.ended
          /\ old.extracted => old.judged
          /\ old.judged => old.heard = Shown(old)
          /\ old.supports \subseteq (1..Len(segments)) \ {n}
      BY <1>4 DEF RowFits
    <2>5. /\ row.started <= row.ended
          /\ row.extracted => row.judged
          /\ row.judged => row.heard = Shown(row)
          /\ row.supports \subseteq (1..Len(segments)) \ {n}
      <3>1. Shown(row) = Shown(old)
        BY <1>4, <2>1, ShownIs
      <3> QED BY <2>1, <2>4, <3>1, Zenon
    <2> QED BY <2>1, <2>3, <2>5 DEF RowFits
  <1>9. /\ segments' \in Seq(Segment) /\ Len(segments') = Len(segments)
        /\ segments'[n] = row
        /\ \A m \in 1..Len(segments) : m # n => segments'[m] = segments[m]
    BY <1>2, <1>6, <1>7, <1>8
  <1>10. ChainOK'
    BY <1>2, <1>8, <1>9 DEF ChainOK, RowFits
  <1>11. ArchiveOK'
    <2>1. \A m \in DOMAIN segments : segments'[m].turns = segments[m].turns
      BY <1>2, <1>3, <1>8, <1>9
    <2>2. DOMAIN segments' = DOMAIN segments
      BY <1>2, <1>9
    <2>3. \A t \in Turns : archive[t] # 0 => archive[t] \in DOMAIN segments
      BY <1>2 DEF SegmentInv, ArchiveOK
    <2>4. TurnsKept'
      BY <1>1, <2>1, <2>2, <2>3 DEF TurnsKept, SegmentInv, ArchiveOK
    <2> QED BY <1>1, <1>9, <2>4 DEF SegmentInv, ArchiveOK
  <1>12. CountsOK'
    <2>1. recallUses' \subseteq Inquiries \X (1..Len(segments'))
      BY <1>1, <1>2, <1>9 DEF SegmentInv, CountsOK
    <2>2. ASSUME NEW m \in 1..Len(segments)
          PROVE  segments'[m].recalls = Cardinality(Counting(m)')
      <3>1. segments[m].recalls = Cardinality(Counting(m))
        BY DEF SegmentInv, CountsOK
      <3>2. CASE m # n
        <4>1. Counting(m)' = Counting(m)
          BY <1>1, <3>2 DEF Counting
        <4> QED BY <1>9, <3>1, <3>2, <4>1
      <3>3. CASE m = n
        <4>1. Counting(m)' = Counting(m) \cup {u} /\ u \notin Counting(m)
          BY <1>1, <3>3 DEF Counting
        <4>2. IsFiniteSet(Counting(m))
          BY SegmentAssumption, FS_Subset DEF Counting
        <4>3. Cardinality(Counting(m)') = Cardinality(Counting(m)) + 1
          BY <4>1, <4>2, FS_AddElement
        <4> QED BY <1>3, <1>8, <1>9, <3>1, <3>3, <4>3
      <3> QED BY <3>2, <3>3
    <2> QED BY <1>9, <2>1, <2>2 DEF CountsOK
  <1>13. KeeperOK'
    BY <1>1, IdleKept
  <1> QED BY <1>1, <1>10, <1>11, <1>12, <1>13 DEF SegmentInv

LEMMA TickKept ==
    ASSUME SegmentInv, Tick
    PROVE  SegmentInv'
  <1>1. clock' = clock + 1 /\ clock < MaxTime
        /\ UNCHANGED <<segments, archive, recallUses, known, keeper>>
    BY DEF Tick
  <1>2. clock' \in 0..MaxTime
    BY <1>1, SegmentAssumption DEF SegmentInv
  <1> QED BY <1>1, <1>2, KeeperSame, ChainSame DEF SegmentInv

LEMMA SegmentStepKept ==
    ASSUME SegmentInv, SegmentNext
    PROVE  SegmentInv'
  <1>1. ASSUME NEW t \in Turns, BeginAppend(t) PROVE SegmentInv'
    BY <1>1, BeginAppendKept
  <1>2. ASSUME NEW c \in keeper.queue,
               JudgeSegment(c) \/ JudgeFails(c) \/ ExtractFacts(c) \/ LeaveFacts(c)
        PROVE  SegmentInv'
    BY <1>2, JudgeKept, JudgeFailsKept, ExtractKept, LeaveKept
  <1>3. ASSUME NEW draft \in keeper.draft, CommitTurn(draft) PROVE SegmentInv'
    BY <1>3, CommitKept
  <1>4. ASSUME NEW n \in DOMAIN segments, NEW u \in Inquiries, RecallSegment(n, u)
        PROVE  SegmentInv'
    BY <1>4, RecallKept
  <1> QED BY <1>1, <1>2, <1>3, <1>4, PrepareKept, KeeperFailsKept, SettleKept, MaintainKept,
             FinalizeKept, TickKept DEF SegmentNext

LEMMA SegmentsStart ==
    ASSUME SegmentInit
    PROVE  SegmentInv
  <1>1. /\ segments = <<>> /\ archive = [t \in Turns |-> 0] /\ recallUses = {}
        /\ known = NothingKnown /\ keeper = Idle /\ clock = 0
    BY DEF SegmentInit
  <1>2. Len(segments) = 0 /\ 1..Len(segments) = {} /\ DOMAIN segments = {}
    BY <1>1
  <1>3. ChainOK
    BY <1>1, <1>2 DEF ChainOK
  <1>4. ArchiveOK
    BY <1>1, <1>2 DEF ArchiveOK, TurnsKept
  <1>5. CountsOK
    BY <1>1, <1>2 DEF CountsOK
  <1>6. KeeperOK
    <2>1. /\ keeper.queue = {} /\ keeper.draft = {} /\ keeper.job = "none"
          /\ keeper.step = "idle"
          /\ keeper = [job |-> "none", turn |-> "", queue |-> {}, step |-> "idle",
                       draft |-> {}]
      BY <1>1 DEF Idle
    <2> QED BY <2>1 DEF KeeperOK, Jobs, Steps
  <1>7. clock \in 0..MaxTime
    BY <1>1, SegmentAssumption
  <1> QED BY <1>1, <1>3, <1>4, <1>5, <1>6, <1>7, NothingKept DEF SegmentInv

\* What is said of the segments in the module follows.
LEMMA SegmentsFollow ==
    ASSUME SegmentInv
    PROVE  SegmentsKept /\ FactsDisjoint /\ SegmentTypeOK
  <1>1. /\ segments \in Seq(Segment) /\ Len(segments) \in Nat
        /\ DOMAIN segments = 1..Len(segments)
        /\ \A n \in 1..Len(segments) : RowFits(n, segments[n])
    BY DEF SegmentInv, ChainOK
  <1>2. TurnsKept
    BY DEF SegmentInv, ArchiveOK
  <1>3. JudgedAsItStands
    BY <1>1 DEF JudgedAsItStands, RowFits
  <1>4. RecallsCounted
    BY <1>1 DEF RecallsCounted, RowFits, SegmentInv, CountsOK, Counting
  <1>5. FactsDisjoint
    BY OneAnswer DEF SegmentInv
  <1>6. SegmentTypeOK
    <2>1. archive \in [Turns -> 0..Len(segments)]
      BY <1>1 DEF SegmentInv, ArchiveOK
    <2>2. recallUses \subseteq (Inquiries \X (DOMAIN segments))
      BY <1>1 DEF SegmentInv, CountsOK
    <2>3. KnownOK(known) /\ clock \in 0..MaxTime /\ keeper.step \in Steps
      BY DEF SegmentInv, KnownKept, KeeperOK
    <2>4. \A n \in DOMAIN segments :
             /\ segments[n].started <= segments[n].ended
             /\ segments[n].extracted => segments[n].judged
             /\ segments[n].supports \subseteq (DOMAIN segments) \ {n}
      BY <1>1 DEF RowFits
    <2> QED BY <2>1, <2>2, <2>3, <2>4 DEF SegmentTypeOK, Steps
  <1> QED BY <1>2, <1>3, <1>4, <1>5, <1>6 DEF SegmentsKept

-----------------------------------------------------------------------------
(* Memory: the shape of its state *)

MemoryIds == {Made(w) : w \in Writers} \cup {LessonOf(n) : n \in Notes}
                \cup {RecordOf(n) : n \in Nat}

RowOK(m) ==
    /\ m = Row(m.id, m.content, m.kind, m.source, m.lasting, m.since)
    /\ m.id \in MemoryIds /\ m.lasting \in BOOLEAN /\ m.since \in Nat

RowsOK == \A m \in memories : RowOK(m)

WriterSteps == {"asked", "known", "composed", "listed", "link", "linking", "judge",
                "settle", "drop", "done"}

WriterOK(r) ==
    /\ r = [step |-> r.step, content |-> r.content, before |-> r.before, at |-> r.at,
            since |-> r.since, near |-> r.near, held |-> r.held, linked |-> r.linked]
    /\ r.step \in WriterSteps /\ r.at \in Nat /\ r.since \in Nat
    /\ r.near \subseteq MemoryIds /\ r.held \subseteq MemoryIds

WritersOK ==
    /\ writers = [w \in Writers |-> writers[w]]
    /\ \A w \in Writers : WriterOK(writers[w])

StepsFit ==
    \A w \in Writers :
        /\ writers[w].step \in {"known", "composed"} => Durable(w)
        /\ writers[w].step = "listed" => ~ Durable(w)

WritingOK ==
    /\ RowsOK /\ WritersOK /\ StepsFit
    /\ marked \subseteq {w \in Writers : Durable(w)}

TopicSet == {Remark[n].topic : n \in Notes}

LearnerOK ==
    \/ learner = Nobody
    \/ \E n \in Notes, step \in {"count", "persist", "promote"} :
          /\ learner = [note |-> n, step |-> step]
          /\ receipts[n] = "applied" /\ Remark[n].correction

LearningOK ==
    /\ receipts \in [Notes -> {"new", "queued", "repeated", "applied"}]
    /\ signals \in [TopicSet -> Nat]
    /\ LearnerOK

Reasons == {"memory_contradiction", "annotation_correction", "periodic", "idle_activity",
            "reading_revisit"}

RequestSet == [reason : Reasons, about : SUBSET MemoryIds, topic : TopicSet \cup {""},
               seen : Nat, at : Nat, done : BOOLEAN]

RequestsOK == requested \in Seq(RequestSet)

StorySet == [n : Nat, base : Nat, stamp : Nat, used : SUBSET ToSet(Evidence)]

ReflectorShape(r) ==
    r = [step |-> r.step, n |-> r.n, base |-> r.base, stamp |-> r.stamp, when |-> r.when,
         listed |-> r.listed, evidence |-> r.evidence, used |-> r.used, goals |-> r.goals,
         wants |-> r.wants]

ReflectorOK ==
    /\ ReflectorShape(reflector)
    /\ reflector.step \in {"idle", "thinking", "planned"}
    /\ reflector.step = "idle" => reflector = AtRest
    /\ reflector.step # "idle" => reflector.n \in 1..Len(requested)
    /\ reflector.base \in Nat /\ reflector.stamp \in Nat /\ reflector.when \in Nat
    /\ reflector.evidence \subseteq ToSet(Evidence)
    /\ reflector.used \subseteq ToSet(Evidence)

ReflectingOK ==
    /\ narrative = [updated |-> narrative.updated, when |-> narrative.when,
                    reviewed |-> narrative.reviewed, stories |-> narrative.stories]
    /\ narrative.updated \in Nat /\ narrative.when \in Nat
    /\ narrative.stories \in Seq(StorySet)
    /\ unread \subseteq ToSet(Evidence)
    /\ epoch \in Nat /\ ReflectorOK

MemoryInv ==
    /\ SegmentInv /\ WritingOK /\ LearningOK /\ RequestsOK /\ ReflectingOK

-----------------------------------------------------------------------------
(* Memory: what a step leaves alone *)

LEMMA ConversingSame ==
    ASSUME SegmentInv, UNCHANGED <<conversing, known>>
    PROVE  SegmentInv'
  <1>1. UNCHANGED <<segments, archive, recallUses, keeper, clock, known>>
    BY DEF conversing
  <1> QED BY <1>1, KeeperSame, ChainSame DEF SegmentInv

\* When only what is known changes, and stays consistent.
LEMMA LearnedSame ==
    ASSUME SegmentInv, UNCHANGED conversing, KnownKept(known')
    PROVE  SegmentInv'
  <1>1. UNCHANGED <<segments, archive, recallUses, keeper, clock>>
    BY DEF conversing
  <1> QED BY <1>1, KeeperSame, ChainSame DEF SegmentInv

LEMMA WritingSame ==
    ASSUME WritingOK, UNCHANGED <<memories, writers, marked>>
    PROVE  WritingOK'
  BY DEF WritingOK, RowsOK, WritersOK, StepsFit

LEMMA LearningSame ==
    ASSUME LearningOK, UNCHANGED learning
    PROVE  LearningOK'
  BY DEF LearningOK, LearnerOK, learning, Nobody

LEMMA ReflectingSame ==
    ASSUME ReflectingOK, UNCHANGED reflecting, Len(requested) \in Nat,
           Len(requested') \in Nat, Len(requested) <= Len(requested')
    PROVE  ReflectingOK'
  <1>1. UNCHANGED <<narrative, unread, goals, reflector, mood, epoch>>
    BY DEF reflecting
  <1>2. PICK short, long : short = Len(requested) /\ long = Len(requested')
    OBVIOUS
  <1>3. \A n \in 1..short : n \in 1..long
    BY <1>2
  <1>4. ReflectorOK'
    BY <1>1, <1>2, <1>3 DEF ReflectingOK, ReflectorOK
  <1> QED BY <1>1, <1>4 DEF ReflectingOK

\* A writer's step changes its own state only.
LEMMA Written ==
    ASSUME WritersOK, NEW w \in Writers, NEW r, WriterOK(r),
           writers' = [writers EXCEPT ![w] = r]
    PROVE  /\ WritersOK' /\ writers'[w] = r
           /\ \A v \in Writers : v # w => writers'[v] = writers[v]
  <1>1. DOMAIN writers = Writers
    BY Zenon DEF WritersOK
  <1>2. /\ writers'[w] = r /\ DOMAIN writers' = Writers
        /\ \A v \in Writers : v # w => writers'[v] = writers[v]
    BY <1>1
  <1>3. writers' = [v \in Writers |-> writers'[v]]
    BY <1>1
  <1>4. \A v \in Writers : WriterOK(writers[v])
    BY DEF WritersOK
  <1> QED BY <1>2, <1>3, <1>4 DEF WritersOK

\* What it means that one element was added.
Grown(s, e, t) ==
    /\ Len(s) \in Nat /\ Len(t) = Len(s) + 1 /\ t[Len(s) + 1] = e
    /\ Len(s) <= Len(t) /\ Len(t) \in Nat
    /\ \A i \in 1..Len(s) : t[i] = s[i]
    /\ \A i \in 1..Len(t) : i \in 1..Len(s) \/ i = Len(s) + 1

LEMMA Appended ==
    ASSUME NEW S, NEW s \in Seq(S), NEW e \in S
    PROVE  Append(s, e) \in Seq(S) /\ Grown(s, e, Append(s, e))
  BY DEF Grown

LEMMA Replaced ==
    ASSUME NEW S, NEW s \in Seq(S), NEW n \in 1..Len(s), NEW e \in S
    PROVE  LET t == [s EXCEPT ![n] = e]
           IN /\ t \in Seq(S) /\ Len(s) \in Nat /\ Len(t) = Len(s) /\ t[n] = e
              /\ \A i \in 1..Len(s) : i # n => t[i] = s[i]
  OBVIOUS

\* What a request to reflect adds.
LEMMA RequestAdded ==
    ASSUME RequestsOK, ReflectingOK, NEW reason \in Reasons, NEW about \in SUBSET MemoryIds,
           NEW topic \in TopicSet \cup {""}, NEW seen \in Nat, NEW request,
           request = Request(reason, about, topic, seen),
           requested' = Append(requested, request)
    PROVE  RequestsOK' /\ Grown(requested, request, requested')
  <1>1. requested \in Seq(RequestSet) /\ epoch \in Nat
    BY DEF RequestsOK, ReflectingOK
  <1>2. request \in RequestSet
    BY <1>1 DEF Request, RequestSet
  <1> QED BY <1>1, <1>2, Appended DEF RequestsOK

\* What marking one as done changes.
LEMMA RequestDone ==
    ASSUME RequestsOK, NEW n \in 1..Len(requested), NEW request,
           request = [requested[n] EXCEPT !.done = TRUE],
           requested' = [requested EXCEPT ![n] = request]
    PROVE  /\ RequestsOK' /\ Len(requested') = Len(requested) /\ Len(requested) \in Nat
           /\ requested'[n] = request
           /\ \A i \in 1..Len(requested) : i # n => requested'[i] = requested[i]
  <1>1. PICK old : old = requested
    OBVIOUS
  <1>2. old \in Seq(RequestSet) /\ n \in 1..Len(old)
    BY <1>1 DEF RequestsOK
  <1>3. request \in RequestSet
    <2>1. PICK row : row = old[n]
      OBVIOUS
    <2>2. row \in RequestSet
      BY <1>2, <2>1
    <2>3. request = [row EXCEPT !.done = TRUE]
      BY <1>1, <2>1, Zenon
    <2> QED BY <2>2, <2>3 DEF RequestSet
  <1>4. PICK new : new = [old EXCEPT ![n] = request]
    OBVIOUS
  <1>5. /\ new \in Seq(RequestSet) /\ Len(old) \in Nat /\ Len(new) = Len(old)
        /\ new[n] = request /\ \A i \in 1..Len(old) : i # n => new[i] = old[i]
    BY <1>2, <1>3, <1>4, Replaced
  <1>6. requested' = new
    BY <1>1, <1>4, Zenon
  <1> QED BY <1>1, <1>5, <1>6, Zenon DEF RequestsOK

-----------------------------------------------------------------------------
(* Memory: every step keeps the shape *)

\* A step that touches the rows and the requests to remember, at most.
LEMMA QuietKept ==
    ASSUME MemoryInv, UNCHANGED <<known, requested>>,
           UNCHANGED <<conversing, learning, reflecting>>, WritingOK'
    PROVE  MemoryInv'
  <1>1. /\ UNCHANGED known /\ UNCHANGED requested /\ UNCHANGED conversing
        /\ UNCHANGED learning /\ UNCHANGED reflecting
    OBVIOUS
  <1>2. SegmentInv' /\ LearningOK'
    BY <1>1, ConversingSame, LearningSame DEF MemoryInv
  <1>3. RequestsOK'
    BY <1>1 DEF RequestsOK, MemoryInv
  <1>4. Len(requested) \in Nat /\ Len(requested') = Len(requested)
    BY <1>1 DEF MemoryInv, RequestsOK
  <1>5. ReflectingOK'
    BY <1>1, <1>4, ReflectingSame DEF MemoryInv
  <1> QED BY <1>2, <1>3, <1>5 DEF MemoryInv

LEMMA WorkingOK ==
    /\ WriterOK(Working) /\ WriterOK(Finished)
    /\ Working.step = "asked" /\ Finished.step = "done"
    /\ Finished.near = {} /\ Finished.held = {} /\ Finished.linked = {}
    /\ Working.near = {} /\ Working.held = {} /\ Working.linked = {}
  <1>1. WriterOK(Working) /\ Working.near = {} /\ Working.held = {} /\ Working.linked = {}
        /\ Working.step = "asked"
    BY DEF WriterOK, WriterSteps, Working
  <1>2. PICK old : old = Working
    OBVIOUS
  <1>3. PICK r : r = [old EXCEPT !.step = "done"]
    OBVIOUS
  <1>4. WriterOK(r) /\ r.near = {} /\ r.held = {} /\ r.linked = {} /\ r.step = "done"
    BY <1>1, <1>2, <1>3 DEF WriterOK, WriterSteps
  <1>5. r = Finished
    BY <1>2, <1>3 DEF Finished
  <1> QED BY <1>1, <1>4, <1>5

LEMMA ClockIsNat ==
    ASSUME MemoryInv
    PROVE  clock \in Nat /\ epoch \in Nat
  BY DEF MemoryInv, SegmentInv, ReflectingOK

LEMMA ComposeShape ==
    ASSUME MemoryInv, NEW w \in Writers, Compose(w)
    PROVE  \E content \in Asked[w].contents : \E r :
              /\ writers' = [writers EXCEPT ![w] = r] /\ WriterOK(r)
              /\ r = [writers[w] EXCEPT !.step = r.step, !.content = content,
                                        !.before = observed, !.at = clock, !.since = epoch]
              /\ \/ r.step = "composed"
                 \/ /\ r.step = "known" /\ Asked[w].route = "observation"
                    /\ content = observed
              /\ observed' = IF Asked[w].route = "observation" THEN content ELSE observed
  <1>1. PICK content \in Asked[w].contents :
          LET seen == Asked[w].route = "observation"
          IN /\ writers' = [writers EXCEPT ![w] =
                   [@ EXCEPT !.step = IF seen /\ content = observed THEN "known"
                                      ELSE "composed",
                             !.content = content, !.before = observed,
                             !.at = clock, !.since = epoch]]
             /\ observed' = IF seen THEN content ELSE observed
    BY DEF Compose
  <1>2. PICK step : step = IF Asked[w].route = "observation" /\ content = observed
                           THEN "known" ELSE "composed"
    OBVIOUS
  <1>3. PICK old : old = writers[w]
    OBVIOUS
  <1>4. PICK r : r = [old EXCEPT !.step = step, !.content = content,
                                 !.before = observed, !.at = clock, !.since = epoch]
    OBVIOUS
  <1>5. WriterOK(old) /\ DOMAIN writers = Writers
    <2>1. WriterOK(old)
      BY <1>3 DEF MemoryInv, WritingOK, WritersOK
    <2>2. DOMAIN writers = Writers
      BY Zenon DEF MemoryInv, WritingOK, WritersOK
    <2> QED BY <2>1, <2>2
  <1>6. WriterOK(r) /\ r.step = step
    BY <1>2, <1>4, <1>5, ClockIsNat DEF WriterOK, WriterSteps
  <1>7. writers' = [writers EXCEPT ![w] = r]
    BY <1>1, <1>2, <1>3, <1>4, Zenon
  <1>8. r = [writers[w] EXCEPT !.step = r.step, !.content = content,
                               !.before = observed, !.at = clock, !.since = epoch]
    BY <1>3, <1>4, <1>6, Zenon
  <1> QED BY <1>1, <1>2, <1>6, <1>7, <1>8, Zenon

\* The request w goes to a step, with these ids in hand; the others stay where they are.
Beside(w) == \A v \in Writers : v # w => writers'[v] = writers[v]

SameWords(old, r) ==
    /\ r.content = old.content /\ r.before = old.before
    /\ r.at = old.at /\ r.since = old.since

Moves(w, step, near, held, linked) ==
    /\ WritersOK' /\ Beside(w) /\ SameWords(writers[w], writers'[w])
    /\ writers'[w].step = step /\ writers'[w].near = near
    /\ writers'[w].held = held /\ writers'[w].linked = linked

Ends(w) == WritersOK' /\ Beside(w) /\ writers'[w] = Finished

LEMMA WriterIs ==
    ASSUME MemoryInv, NEW w \in Writers
    PROVE  WriterOK(writers[w]) /\ WritersOK
  BY DEF MemoryInv, WritingOK, WritersOK

LEMMA Ended ==
    ASSUME MemoryInv, NEW w \in Writers, writers' = [writers EXCEPT ![w] = Finished]
    PROVE  Ends(w)
  <1>1. PICK r : r = Finished
    OBVIOUS
  <1>2. WriterOK(r)
    BY <1>1, WorkingOK
  <1>3. writers' = [writers EXCEPT ![w] = r]
    BY <1>1, Zenon
  <1>4. /\ WritersOK' /\ writers'[w] = r
        /\ \A v \in Writers : v # w => writers'[v] = writers[v]
    BY <1>2, <1>3, WriterIs, Written
  <1> QED BY <1>1, <1>4 DEF Ends, Beside

LEMMA Moved ==
    ASSUME MemoryInv, NEW w \in Writers, NEW r, WriterOK(r), SameWords(writers[w], r),
           writers' = [writers EXCEPT ![w] = r]
    PROVE  Moves(w, r.step, r.near, r.held, r.linked)
  <1>1. /\ WritersOK' /\ writers'[w] = r
        /\ \A v \in Writers : v # w => writers'[v] = writers[v]
    BY WriterIs, Written
  <1> QED BY <1>1 DEF Moves, Beside

LEMMA ChooseMoves ==
    ASSUME MemoryInv, NEW w \in Writers, ChooseLinks(w)
    PROVE  \E links \in SUBSET Others(w) :
              Moves(w, "linking", writers[w].near, links, writers[w].linked)
  <1>1. PICK links \in SUBSET Others(w) :
           writers' = [writers EXCEPT ![w] = [At(w, "linking") EXCEPT !.held = links]]
    BY DEF ChooseLinks
  <1>2. PICK old : old = writers[w]
    OBVIOUS
  <1>3. PICK r : r = [[old EXCEPT !.step = "linking"] EXCEPT !.held = links]
    OBVIOUS
  <1>4. links \subseteq MemoryIds
    BY DEF Others, Ids, IdsOf, MemoryInv, WritingOK, RowsOK, RowOK
  <1>5. WriterOK(old)
    BY <1>2, WriterIs
  <1>6. /\ WriterOK(r) /\ SameWords(old, r) /\ r.step = "linking" /\ r.held = links
        /\ r.near = old.near /\ r.linked = old.linked
    BY <1>3, <1>4, <1>5 DEF WriterOK, WriterSteps, SameWords
  <1>7. writers' = [writers EXCEPT ![w] = r]
    BY <1>1, <1>2, <1>3, Zenon DEF At
  <1> QED BY <1>2, <1>6, <1>7, Moved

LEMMA LinkMoves ==
    ASSUME MemoryInv, NEW w \in Writers, LinkOne(w)
    PROVE  \E id \in writers[w].held :
              \/ /\ id \in Ids /\ Made(w) \in Ids
                 /\ edges' = edges \cup {{id, Made(w)}}
                 /\ Moves(w, "linking", writers[w].near, writers[w].held \ {id},
                          writers[w].linked \cup {id})
              \/ /\ Moves(w, "judge", writers[w].near, {}, {})
                 /\ UNCHANGED edges
  <1>1. writers[w].step = "linking"
    BY DEF LinkOne
  <1>2. PICK id \in writers[w].held :
          IF {id, Made(w)} \subseteq Ids
          THEN /\ edges' = edges \cup {{id, Made(w)}}
               /\ writers' = [writers EXCEPT ![w].held = @ \ {id},
                                            ![w].linked = @ \cup {id}]
          ELSE /\ writers' = [writers EXCEPT ![w] =
                     [At(w, "judge") EXCEPT !.held = {}, !.linked = {}]]
               /\ UNCHANGED edges
    BY DEF LinkOne
  <1>3. PICK old : old = writers[w]
    OBVIOUS
  <1>4. WriterOK(old) /\ old.step = "linking"
    BY <1>1, <1>3, WriterIs
  <1>5. CASE {id, Made(w)} \subseteq Ids
    <2>1. PICK r : r = [[old EXCEPT !.held = old.held \ {id}] EXCEPT
                           !.linked = old.linked \cup {id}]
      OBVIOUS
    <2>2. /\ WriterOK(r) /\ SameWords(old, r) /\ r.step = "linking"
          /\ r.held = old.held \ {id} /\ r.near = old.near
          /\ r.linked = old.linked \cup {id}
      BY <1>4, <2>1 DEF WriterOK, WriterSteps, SameWords
    <2>3. writers' = [writers EXCEPT ![w] = r]
      <3>1. writers' = [writers EXCEPT ![w].held = writers[w].held \ {id},
                                      ![w].linked = writers[w].linked \cup {id}]
        <4>1. writers' = [writers EXCEPT ![w].held = @ \ {id}, ![w].linked = @ \cup {id}]
          BY <1>2, <1>5, Zenon
        <4> QED BY <4>1
      <3>2. DOMAIN writers = Writers
        BY Zenon DEF MemoryInv, WritingOK, WritersOK
      <3>3. /\ DOMAIN writers' = Writers
            /\ writers'[w] = [[writers[w] EXCEPT !.held = writers[w].held \ {id}] EXCEPT
                                 !.linked = writers[w].linked \cup {id}]
            /\ \A v \in Writers : v # w => writers'[v] = writers[v]
        BY <3>1, <3>2
      <3> QED BY <1>3, <2>1, <3>1, <3>2, <3>3
    <2>4. Moves(w, r.step, r.near, r.held, r.linked)
      BY <1>3, <2>2, <2>3, Moved
    <2>5. edges' = edges \cup {{id, Made(w)}} /\ id \in Ids /\ Made(w) \in Ids
      BY <1>2, <1>5
    <2> QED BY <1>3, <2>2, <2>4, <2>5
  <1>6. CASE ~ ({id, Made(w)} \subseteq Ids)
    <2>1. PICK r : r = [[old EXCEPT !.step = "judge"] EXCEPT !.held = {}, !.linked = {}]
      OBVIOUS
    <2>2. /\ WriterOK(r) /\ SameWords(old, r) /\ r.step = "judge"
          /\ r.held = {} /\ r.near = old.near /\ r.linked = {}
      BY <1>4, <2>1 DEF WriterOK, WriterSteps, SameWords
    <2>3. writers' = [writers EXCEPT ![w] = r] /\ UNCHANGED edges
      BY <1>2, <1>3, <1>6, <2>1, Zenon DEF At
    <2>4. Moves(w, r.step, r.near, r.held, r.linked)
      BY <1>3, <2>2, <2>3, Moved
    <2> QED BY <1>3, <2>2, <2>3, <2>4
  <1> QED BY <1>5, <1>6

LEMMA PruneMoves ==
    ASSUME MemoryInv, NEW w \in Writers, Prune(w)
    PROVE  Moves(w, "judge", writers[w].near, {}, {}) /\ edges' \subseteq edges
  <1>1. /\ writers[w].held = {} /\ edges' \subseteq edges
        /\ writers' = [writers EXCEPT ![w] = [At(w, "judge") EXCEPT !.linked = {}]]
    BY DEF Prune
  <1>2. PICK old : old = writers[w]
    OBVIOUS
  <1>3. PICK r : r = [[old EXCEPT !.step = "judge"] EXCEPT !.linked = {}]
    OBVIOUS
  <1>4. WriterOK(old) /\ old.held = {}
    BY <1>1, <1>2, WriterIs
  <1>5. /\ WriterOK(r) /\ SameWords(old, r) /\ r.step = "judge" /\ r.held = {}
        /\ r.near = old.near /\ r.linked = {}
    BY <1>3, <1>4 DEF WriterOK, WriterSteps, SameWords
  <1>6. writers' = [writers EXCEPT ![w] = r]
    BY <1>1, <1>2, <1>3, Zenon DEF At
  <1>7. Moves(w, "judge", writers[w].near, {}, {})
    BY <1>2, <1>5, <1>6, Moved
  <1> QED BY <1>1, <1>7

LEMMA JudgeMoves ==
    ASSUME MemoryInv, NEW w \in Writers, JudgeContradiction(w)
    PROVE  /\ Moves(w, "settle", {}, writers[w].held, writers[w].linked)
           /\ \/ UNCHANGED requested
              \/ \E id \in writers[w].near :
                    requested' = Append(requested,
                       Request("memory_contradiction", {Made(w), id}, "", 0))
  <1>1. /\ writers' = [writers EXCEPT ![w] = [At(w, "settle") EXCEPT !.near = {}]]
        /\ \/ UNCHANGED requested
           \/ \E id \in writers[w].near :
                 requested' = Append(requested,
                    Request("memory_contradiction", {Made(w), id}, "", 0))
    BY DEF JudgeContradiction
  <1>2. PICK old : old = writers[w]
    OBVIOUS
  <1>3. PICK r : r = [[old EXCEPT !.step = "settle"] EXCEPT !.near = {}]
    OBVIOUS
  <1>4. WriterOK(old)
    BY <1>2, WriterIs
  <1>5. /\ WriterOK(r) /\ SameWords(old, r) /\ r.step = "settle" /\ r.held = old.held
        /\ r.near = {} /\ r.linked = old.linked
    BY <1>3, <1>4 DEF WriterOK, WriterSteps, SameWords
  <1>6. writers' = [writers EXCEPT ![w] = r]
    BY <1>1, <1>2, <1>3, Zenon DEF At
  <1>7. Moves(w, "settle", {}, writers[w].held, writers[w].linked)
    BY <1>2, <1>5, <1>6, Moved
  <1> QED BY <1>1, <1>7

LEMMA ListMoves ==
    ASSUME MemoryInv, NEW w \in Writers, ListOverflow(w)
    PROVE  \E held \in SUBSET Passing :
              Moves(w, "drop", writers[w].near, held, writers[w].linked)
  <1>1. PICK held \in SUBSET Passing :
           writers' = [writers EXCEPT ![w] = [At(w, "drop") EXCEPT !.held = held]]
    BY DEF ListOverflow
  <1>2. PICK old : old = writers[w]
    OBVIOUS
  <1>3. PICK r : r = [[old EXCEPT !.step = "drop"] EXCEPT !.held = held]
    OBVIOUS
  <1>4. held \subseteq MemoryIds
    BY DEF Passing, IdsOf, MemoryInv, WritingOK, RowsOK, RowOK
  <1>5. WriterOK(old)
    BY <1>2, WriterIs
  <1>6. /\ WriterOK(r) /\ SameWords(old, r) /\ r.step = "drop" /\ r.held = held
        /\ r.near = old.near /\ r.linked = old.linked
    BY <1>3, <1>4, <1>5 DEF WriterOK, WriterSteps, SameWords
  <1>7. writers' = [writers EXCEPT ![w] = r]
    BY <1>1, <1>2, <1>3, Zenon DEF At
  <1> QED BY <1>2, <1>6, <1>7, Moved

LEMMA RowIs ==
    ASSUME NEW id \in MemoryIds, NEW content, NEW kind, NEW source, NEW lasting \in BOOLEAN,
           NEW since \in Nat, NEW row, row = Row(id, content, kind, source, lasting, since)
    PROVE  /\ RowOK(row) /\ row.id = id /\ row.content = content /\ row.kind = kind
           /\ row.lasting = lasting /\ row.since = since
  BY DEF RowOK, Row

LEMMA IdIs ==
    /\ \A w \in Writers : Made(w) \in MemoryIds
    /\ \A n \in Notes : LessonOf(n) \in MemoryIds
    /\ \A n \in Nat : RecordOf(n) \in MemoryIds
  BY DEF MemoryIds

\* A row stands for the words of a request, or there is a new one.
LEMMA KeepMoves ==
    ASSUME MemoryInv, NEW w \in Writers, NEW twins, NEW near \in SUBSET MemoryIds, NEW kept,
           Keep(w, twins, near, kept)
    PROVE  \/ /\ \E m \in twins : Touched(m, w, writers[w].content)
              /\ Ends(w) /\ UNCHANGED <<known, memories>>
           \/ /\ twins = {} /\ KnownKept(known')
              /\ Add(Row(Made(w), writers[w].content, Asked[w].kind, Asked[w].source,
                         Asked[w].lasting, writers[w].since))
              /\ \/ Asked[w].route = "lesson" /\ Ends(w)
                 \/ /\ Asked[w].route # "lesson"
                    /\ Moves(w, "link", near, writers[w].held, writers[w].linked)
  <1>1. CASE twins # {}
    <2>1. /\ \E m \in twins : Touched(m, w, writers[w].content)
          /\ writers' = [writers EXCEPT ![w] = Finished] /\ UNCHANGED known
      BY <1>1 DEF Keep
    <2>2. UNCHANGED memories
      BY <2>1 DEF Touched
    <2> QED BY <2>1, <2>2, Ended
  <1>2. CASE twins = {}
    <2>1. /\ Add(Row(Made(w), writers[w].content, Asked[w].kind, Asked[w].source,
                     Asked[w].lasting, writers[w].since))
          /\ writers' = [writers EXCEPT ![w] =
                IF Asked[w].route = "lesson" THEN Finished
                ELSE [At(w, "link") EXCEPT !.near = near]]
          /\ known' = ApplyFacts(known, Asked[w].claims, kept, writers[w].at,
                                 Asked[w].scope, Made(w))
      BY <1>2 DEF Keep
    <2>2. KnownKept(known')
      <3>1. KnownKept(known) /\ writers[w].at \in Nat
        BY WriterIs DEF MemoryInv, SegmentInv, WriterOK
      <3>2. /\ Asked[w].scope \in Scopes /\ Len(Asked[w].claims) \in Nat
            /\ \A i \in 1..Len(Asked[w].claims) : IsClaim(Asked[w].claims[i])
        BY AskedAssumption
      <3>3. PICK k, claims, at, scope, source :
               /\ k = known /\ claims = Asked[w].claims /\ at = writers[w].at
               /\ scope = Asked[w].scope /\ source = Made(w)
        OBVIOUS
      <3>4. known' = ApplyFacts(k, claims, kept, at, scope, source)
        BY <2>1, <3>3
      <3>5. /\ KnownKept(k) /\ at \in Nat /\ scope \in Scopes /\ Len(claims) \in Nat
            /\ \A i \in 1..Len(claims) : IsClaim(claims[i])
        BY <3>1, <3>2, <3>3
      <3> QED BY <3>4, <3>5, FactsKept
    <2>3. CASE Asked[w].route = "lesson"
      <3>1. writers' = [writers EXCEPT ![w] = Finished]
        BY <2>1, <2>3
      <3> QED BY <1>2, <2>1, <2>2, <2>3, <3>1, Ended
    <2>4. CASE Asked[w].route # "lesson"
      <3>1. PICK old : old = writers[w]
        OBVIOUS
      <3>2. PICK r : r = [[old EXCEPT !.step = "link"] EXCEPT !.near = near]
        OBVIOUS
      <3>3. WriterOK(old)
        BY <3>1, WriterIs
      <3>4. /\ WriterOK(r) /\ SameWords(old, r) /\ r.step = "link" /\ r.held = old.held
            /\ r.near = near /\ r.linked = old.linked
        BY <3>2, <3>3 DEF WriterOK, WriterSteps, SameWords
      <3>5. writers' = [writers EXCEPT ![w] = r]
        BY <2>1, <2>4, <3>1, <3>2, Zenon DEF At
      <3>6. Moves(w, "link", near, writers[w].held, writers[w].linked)
        BY <3>1, <3>4, <3>5, Moved
      <3> QED BY <1>2, <2>1, <2>2, <2>4, <3>6
    <2> QED BY <2>3, <2>4
  <1> QED BY <1>1, <1>2

LEMMA CandidatesAre ==
    ASSUME MemoryInv, NEW content
    PROVE  Candidates(content) \in SUBSET MemoryIds /\ Candidates(content) \subseteq Ids
  BY DEF Candidates, Ids, IdsOf, MemoryInv, WritingOK, RowsOK, RowOK

\* The writing keeps its shape when the rows do and the writers do.
LEMMA WritingFollows ==
    ASSUME MemoryInv, WritersOK', RowsOK', NEW w \in Writers, Beside(w),
           writers'[w].step \in {"known", "composed"} => Durable(w),
           writers'[w].step = "listed" => ~ Durable(w),
           marked' = marked \/ (Durable(w) /\ marked' = marked \cup {w})
    PROVE  WritingOK'
  <1>1. StepsFit'
    BY DEF MemoryInv, WritingOK, StepsFit, Beside, Durable
  <1> QED BY <1>1 DEF MemoryInv, WritingOK, Durable

LEMMA FitsIs ==
    ASSUME MemoryInv, NEW w \in Writers
    PROVE  /\ writers[w].step \in {"known", "composed"} => Durable(w)
           /\ writers[w].step = "listed" => ~ Durable(w)
  BY DEF MemoryInv, WritingOK, StepsFit

LEMMA RowsSame ==
    ASSUME MemoryInv, memories' \subseteq memories
    PROVE  RowsOK'
  BY DEF MemoryInv, WritingOK, RowsOK

LEMMA RowAdded ==
    ASSUME MemoryInv, NEW id \in MemoryIds, NEW content, NEW kind, NEW source,
           NEW lasting \in BOOLEAN, NEW since \in Nat,
           Add(Row(id, content, kind, source, lasting, since))
    PROVE  /\ RowsOK' /\ UNCHANGED merged
           /\ memories' = memories \cup {Row(id, content, kind, source, lasting, since)}
           /\ staler' = Refreshed(id)
  <1>1. PICK row : row = Row(id, content, kind, source, lasting, since)
    OBVIOUS
  <1>2. RowOK(row) /\ row.id = id
    BY <1>1, RowIs
  <1>3. memories' = memories \cup {row} /\ staler' = Refreshed(row.id) /\ UNCHANGED merged
    BY <1>1 DEF Add
  <1>4. RowsOK'
    BY <1>2, <1>3 DEF MemoryInv, WritingOK, RowsOK
  <1> QED BY <1>1, <1>2, <1>3, <1>4

\* The facts of a request are learned, or what is known stays.
LEMMA KeepKept ==
    ASSUME MemoryInv, NEW w \in Writers, NEW twins, NEW near \in SUBSET MemoryIds, NEW kept,
           Keep(w, twins, near, kept), UNCHANGED <<requested>>,
           UNCHANGED <<conversing, learning, reflecting>>,
           marked' = marked \/ (Durable(w) /\ marked' = marked \cup {w})
    PROVE  MemoryInv'
  <1>1. WritingOK' /\ KnownKept(known')
    <2>1. CASE Ends(w) /\ UNCHANGED <<known, memories>>
      <3>1. WritersOK' /\ RowsOK' /\ Beside(w) /\ writers'[w].step = "done"
        BY <2>1, RowsSame, WorkingOK DEF Ends
      <3> QED BY <2>1, <3>1, WritingFollows DEF MemoryInv, SegmentInv
    <2>2. CASE /\ KnownKept(known') /\ WritersOK' /\ Beside(w)
               /\ writers'[w].step \in {"done", "link"}
               /\ Add(Row(Made(w), writers[w].content, Asked[w].kind, Asked[w].source,
                          Asked[w].lasting, writers[w].since))
      <3>1. Asked[w].lasting \in BOOLEAN /\ writers[w].since \in Nat
        BY WriterIs, AskedAssumption DEF WriterOK
      <3>2. PICK id, content, kind, source, lasting, since :
               /\ id = Made(w) /\ content = writers[w].content /\ kind = Asked[w].kind
               /\ source = Asked[w].source /\ lasting = Asked[w].lasting /\ since = writers[w].since
        OBVIOUS
      <3>3. RowsOK'
        BY <2>2, <3>1, <3>2, IdIs, RowAdded
      <3> QED BY <2>2, <3>3, WritingFollows
    <2>3. \/ Ends(w) /\ UNCHANGED <<known, memories>>
          \/ /\ KnownKept(known') /\ WritersOK' /\ Beside(w)
             /\ writers'[w].step \in {"done", "link"}
             /\ Add(Row(Made(w), writers[w].content, Asked[w].kind, Asked[w].source,
                        Asked[w].lasting, writers[w].since))
      BY KeepMoves, WorkingOK DEF Ends, Moves
    <2> QED BY <2>1, <2>2, <2>3
  <1>2. /\ UNCHANGED requested /\ UNCHANGED conversing
        /\ UNCHANGED learning /\ UNCHANGED reflecting
    OBVIOUS
  <1>3. SegmentInv' /\ LearningOK'
    BY <1>1, <1>2, LearnedSame, LearningSame DEF MemoryInv
  <1>4. RequestsOK'
    BY <1>2 DEF RequestsOK, MemoryInv
  <1>5. Len(requested) \in Nat /\ Len(requested') = Len(requested)
    BY <1>2 DEF MemoryInv, RequestsOK
  <1>6. ReflectingOK'
    BY <1>2, <1>5, ReflectingSame DEF MemoryInv
  <1> QED BY <1>1, <1>3, <1>4, <1>6 DEF MemoryInv

LEMMA ComposeMoves ==
    ASSUME MemoryInv, NEW w \in Writers, Compose(w)
    PROVE  \E content \in Asked[w].contents :
              /\ WritersOK' /\ Beside(w)
              /\ writers'[w].content = content /\ writers'[w].before = observed
              /\ writers'[w].since = epoch /\ writers'[w].near = writers[w].near
              /\ writers'[w].held = writers[w].held
              /\ \/ writers'[w].step = "composed"
                 \/ /\ writers'[w].step = "known" /\ Asked[w].route = "observation"
                    /\ content = observed
              /\ observed' = IF Asked[w].route = "observation" THEN content ELSE observed
  <1>1. PICK content \in Asked[w].contents : \E r :
           /\ writers' = [writers EXCEPT ![w] = r] /\ WriterOK(r)
           /\ r = [writers[w] EXCEPT !.step = r.step, !.content = content,
                                     !.before = observed, !.at = clock, !.since = epoch]
           /\ \/ r.step = "composed"
              \/ /\ r.step = "known" /\ Asked[w].route = "observation"
                 /\ content = observed
           /\ observed' = IF Asked[w].route = "observation" THEN content ELSE observed
    BY ComposeShape
  <1>2. PICK r :
           /\ writers' = [writers EXCEPT ![w] = r] /\ WriterOK(r)
           /\ r = [writers[w] EXCEPT !.step = r.step, !.content = content,
                                     !.before = observed, !.at = clock, !.since = epoch]
           /\ \/ r.step = "composed"
              \/ /\ r.step = "known" /\ Asked[w].route = "observation"
                 /\ content = observed
           /\ observed' = IF Asked[w].route = "observation" THEN content ELSE observed
    BY <1>1
  <1>3. PICK old, step : old = writers[w] /\ step = r.step
    OBVIOUS
  <1>4. r = [old EXCEPT !.step = step, !.content = content,
                        !.before = observed, !.at = clock, !.since = epoch]
    BY <1>2, <1>3, Zenon
  <1>5. WriterOK(old)
    BY <1>3, WriterIs
  <1>6. /\ r.content = content /\ r.before = observed /\ r.since = epoch
        /\ r.near = old.near /\ r.held = old.held
    BY <1>4, <1>5 DEF WriterOK
  <1>7. WritersOK' /\ writers'[w] = r /\ Beside(w)
    BY <1>2, WriterIs, Written DEF Beside
  <1> QED BY <1>2, <1>3, <1>6, <1>7, Zenon

LEMMA ComposeKept ==
    ASSUME MemoryInv, NEW w \in Writers, Compose(w)
    PROVE  MemoryInv'
  <1>1. WritersOK' /\ Beside(w) /\ writers'[w].step \in {"known", "composed"}
    BY ComposeMoves
  <1>2. /\ UNCHANGED <<known, requested>> /\ UNCHANGED <<conversing, learning, reflecting>>
        /\ UNCHANGED marked /\ UNCHANGED memories /\ Durable(w)
    BY DEF Compose, rows
  <1>3. WritingOK'
    BY <1>1, <1>2, RowsSame, WritingFollows
  <1> QED BY <1>2, <1>3, QuietKept

LEMMA CommitKnownMoves ==
    ASSUME MemoryInv, NEW w \in Writers, CommitKnown(w)
    PROVE  Ends(w) /\ marked' = marked \cup {w}
  BY Ended DEF CommitKnown

LEMMA WriterFailsMoves ==
    ASSUME MemoryInv, NEW w \in Writers, WriterFails(w)
    PROVE  WritersOK' /\ Beside(w) /\ writers'[w] = Working
  <1>1. PICK r : r = Working
    OBVIOUS
  <1>2. WriterOK(r) /\ writers' = [writers EXCEPT ![w] = r]
    BY <1>1, WorkingOK DEF WriterFails
  <1>3. /\ WritersOK' /\ writers'[w] = r
        /\ \A v \in Writers : v # w => writers'[v] = writers[v]
    BY <1>2, WriterIs, Written
  <1> QED BY <1>1, <1>3 DEF Beside

LEMMA StartMoves ==
    ASSUME MemoryInv, NEW w \in Writers, StartDirect(w)
    PROVE  \E content \in Asked[w].contents : \E stand \in StandIns(w, content) :
              \/ /\ \E m \in stand : Touched(m, w, content)
                 /\ Ends(w)
              \/ /\ UNCHANGED rows /\ WritersOK' /\ Beside(w)
                 /\ writers'[w].step = "listed" /\ writers'[w].content = content
                 /\ writers'[w].since = epoch /\ writers'[w].near = Candidates(content)
                 /\ writers'[w].held = writers[w].held
  <1>1. PICK content \in Asked[w].contents : \E stand \in StandIns(w, content) :
          IF stand # {}
          THEN /\ \E m \in stand : Touched(m, w, content)
               /\ writers' = [writers EXCEPT ![w] = Finished]
          ELSE /\ writers' = [writers EXCEPT ![w] =
                     [@ EXCEPT !.step = "listed", !.content = content, !.at = clock,
                               !.since = epoch, !.near = Candidates(content)]]
               /\ UNCHANGED rows
    BY DEF StartDirect
  <1>4. PICK stand \in StandIns(w, content) :
          IF stand # {}
          THEN /\ \E m \in stand : Touched(m, w, content)
               /\ writers' = [writers EXCEPT ![w] = Finished]
          ELSE /\ writers' = [writers EXCEPT ![w] =
                     [@ EXCEPT !.step = "listed", !.content = content, !.at = clock,
                               !.since = epoch, !.near = Candidates(content)]]
               /\ UNCHANGED rows
    BY <1>1
  <1>2. CASE stand # {}
    BY <1>4, <1>2, Ended
  <1>3. CASE stand = {}
    <2>1. PICK old, near : old = writers[w] /\ near = Candidates(content)
      OBVIOUS
    <2>2. PICK r : r = [old EXCEPT !.step = "listed", !.content = content, !.at = clock,
                                   !.since = epoch, !.near = near]
      OBVIOUS
    <2>3. WriterOK(old) /\ near \subseteq MemoryIds
      BY <2>1, WriterIs, CandidatesAre
    <2>4. /\ WriterOK(r) /\ r.step = "listed" /\ r.content = content /\ r.since = epoch
          /\ r.near = near /\ r.held = old.held
      BY <2>2, <2>3, ClockIsNat DEF WriterOK, WriterSteps
    <2>5. writers' = [writers EXCEPT ![w] = r] /\ UNCHANGED rows
      BY <1>3, <1>4, <2>1, <2>2, Zenon
    <2>6. /\ WritersOK' /\ writers'[w] = r
          /\ \A v \in Writers : v # w => writers'[v] = writers[v]
      BY <2>4, <2>5, WriterIs, Written
    <2>7. Beside(w)
      BY <2>6 DEF Beside
    <2> QED BY <2>1, <2>4, <2>5, <2>6, <2>7, Zenon
  <1> QED BY <1>2, <1>3

LEMMA CommitDurableMoves ==
    ASSUME MemoryInv, NEW w \in Writers, CommitDurable(w)
    PROVE  \E near \in SUBSET Ids, stand \in StandIns(w, writers[w].content) : \E kept :
              /\ near \in SUBSET MemoryIds /\ near = Candidates(writers[w].content)
              /\ Keep(w, stand, near, kept)
  <1>1. PICK near : near = Candidates(writers[w].content)
    OBVIOUS
  <1>2. near \in SUBSET MemoryIds /\ near \in SUBSET Ids
    BY <1>1, CandidatesAre
  <1>3. PICK kept \in Heard(w), stand \in StandIns(w, writers[w].content) :
           Keep(w, stand, Candidates(writers[w].content), kept)
    BY DEF CommitDurable
  <1>4. Keep(w, stand, near, kept)
    BY <1>1, <1>3, Zenon
  <1> QED BY <1>1, <1>2, <1>3, <1>4

LEMMA CommitDirectMoves ==
    ASSUME MemoryInv, NEW w \in Writers, CommitDirect(w)
    PROVE  \E near \in SUBSET MemoryIds : \E kept :
              near = writers[w].near /\ Keep(w, FoundAgain(w), near, kept)
  <1>1. PICK near : near = writers[w].near
    OBVIOUS
  <1>2. near \in SUBSET MemoryIds
    BY <1>1, WriterIs DEF WriterOK
  <1>3. PICK kept \in Heard(w) : Keep(w, FoundAgain(w), writers[w].near, kept)
    BY DEF CommitDirect
  <1>4. Keep(w, FoundAgain(w), near, kept)
    BY <1>1, <1>3, Zenon
  <1> QED BY <1>1, <1>2, <1>4

LEMMA DropMoves ==
    ASSUME MemoryInv, NEW w \in Writers, DropListed(w)
    PROVE  /\ Ends(w)
           /\ memories' = {m \in memories : m.id \notin writers[w].held}
           /\ staler' = {pair \in staler : /\ pair[1] \notin writers[w].held
                                           /\ pair[2] \notin writers[w].held}
           /\ edges' = LinksLeft(writers[w].held)
  BY Ended DEF DropListed

\* Every step of the requests to remember keeps the shape.
LEMMA RememberKept ==
    ASSUME MemoryInv, Remember
    PROVE  MemoryInv'
  <1>1. PICK w \in Writers :
           \/ Compose(w) \/ CommitKnown(w) \/ CommitDurable(w) \/ WriterFails(w)
           \/ StartDirect(w) \/ CommitDirect(w) \/ ChooseLinks(w) \/ LinkOne(w)
           \/ Prune(w) \/ JudgeContradiction(w) \/ ListOverflow(w) \/ DropListed(w)
    BY DEF Remember
  <1>2. CASE Compose(w)
    BY <1>2, ComposeKept
  <1>3. CASE CommitKnown(w)
    <2>1. /\ UNCHANGED <<known, requested>> /\ UNCHANGED <<conversing, learning, reflecting>>
          /\ UNCHANGED memories /\ writers[w].step = "known"
      BY <1>3 DEF CommitKnown, rows
    <2>2. WritingOK'
      <3>1. WritersOK' /\ Beside(w) /\ writers'[w].step = "done" /\ Durable(w)
            /\ marked' = marked \cup {w}
        BY <1>3, <2>1, CommitKnownMoves, WorkingOK, FitsIs DEF Ends
      <3> QED BY <2>1, <3>1, RowsSame, WritingFollows
    <2> QED BY <2>1, <2>2, QuietKept
  <1>4. CASE CommitDurable(w)
    <2>1. writers[w].step = "composed" /\ marked' = marked \cup {w} /\ UNCHANGED requested
          /\ UNCHANGED <<conversing, learning, reflecting>>
      BY <1>4 DEF CommitDurable
    <2>2. Durable(w)
      BY <2>1, FitsIs
    <2>3. PICK near \in SUBSET MemoryIds : \E stand, kept : Keep(w, stand, near, kept)
      BY <1>4, CommitDurableMoves
    <2> QED BY <2>1, <2>2, <2>3, KeepKept
  <1>5. CASE WriterFails(w)
    <2>1. /\ UNCHANGED <<known, requested>> /\ UNCHANGED <<conversing, learning, reflecting>>
          /\ UNCHANGED memories /\ UNCHANGED marked
      BY <1>5 DEF WriterFails, rows
    <2>2. WritingOK'
      <3>1. WritersOK' /\ Beside(w) /\ writers'[w].step = "asked"
        BY <1>5, WriterFailsMoves, WorkingOK
      <3> QED BY <2>1, <3>1, RowsSame, WritingFollows
    <2> QED BY <2>1, <2>2, QuietKept
  <1>6. CASE StartDirect(w)
    <2>1. /\ UNCHANGED <<known, requested>> /\ UNCHANGED <<conversing, learning, reflecting>>
          /\ UNCHANGED marked /\ ~ Durable(w)
      BY <1>6 DEF StartDirect
    <2>2. WritersOK' /\ UNCHANGED memories /\ Beside(w)
          /\ writers'[w].step \in {"done", "listed"}
      BY <1>6, StartMoves, WorkingOK DEF Ends, Touched, rows
    <2>3. WritingOK'
      BY <2>1, <2>2, RowsSame, WritingFollows
    <2> QED BY <2>1, <2>3, QuietKept
  <1>7. CASE CommitDirect(w)
    <2>1. marked' = marked /\ UNCHANGED requested
          /\ UNCHANGED <<conversing, learning, reflecting>>
      BY <1>7 DEF CommitDirect
    <2>2. PICK near \in SUBSET MemoryIds : \E kept : Keep(w, FoundAgain(w), near, kept)
      BY <1>7, CommitDirectMoves
    <2> QED BY <2>1, <2>2, KeepKept
  <1>8. CASE ChooseLinks(w) \/ LinkOne(w) \/ Prune(w) \/ ListOverflow(w)
    <2>1. /\ UNCHANGED <<known, requested>> /\ UNCHANGED <<conversing, learning, reflecting>>
          /\ UNCHANGED marked /\ UNCHANGED memories
      BY <1>8 DEF ChooseLinks, LinkOne, Prune, ListOverflow, rows
    <2>2. WritersOK' /\ Beside(w) /\ writers'[w].step \in {"linking", "judge", "drop"}
      BY <1>8, ChooseMoves, LinkMoves, PruneMoves, ListMoves DEF Moves
    <2>3. WritingOK'
      BY <2>1, <2>2, RowsSame, WritingFollows
    <2> QED BY <2>1, <2>3, QuietKept
  <1>9. CASE JudgeContradiction(w)
    <2>1. /\ UNCHANGED known /\ UNCHANGED conversing /\ UNCHANGED learning
          /\ UNCHANGED reflecting /\ UNCHANGED marked /\ UNCHANGED memories
      BY <1>9 DEF JudgeContradiction, rows
    <2>2. WritersOK' /\ Beside(w) /\ writers'[w].step = "settle"
      BY <1>9, JudgeMoves DEF Moves
    <2>3. WritingOK' /\ SegmentInv' /\ LearningOK'
      BY <2>1, <2>2, RowsSame, WritingFollows, ConversingSame, LearningSame DEF MemoryInv
    <2>4. /\ RequestsOK' /\ Len(requested) \in Nat /\ Len(requested') \in Nat
          /\ Len(requested) <= Len(requested')
      <3>1. CASE UNCHANGED requested
        <4>1. RequestsOK'
          BY <3>1 DEF MemoryInv, RequestsOK
        <4>2. Len(requested) \in Nat
          BY DEF MemoryInv, RequestsOK
        <4> QED BY <3>1, <4>1, <4>2
      <3>2. CASE \E id \in writers[w].near :
                    requested' = Append(requested,
                       Request("memory_contradiction", {Made(w), id}, "", 0))
        <4>1. PICK id \in writers[w].near :
                    requested' = Append(requested,
                       Request("memory_contradiction", {Made(w), id}, "", 0))
          BY <3>2
        <4>2. PICK request : request = Request("memory_contradiction", {Made(w), id}, "", 0)
          OBVIOUS
        <4>3. {Made(w), id} \in SUBSET MemoryIds
          BY WriterIs, IdIs DEF WriterOK
        <4>4. requested' = Append(requested, request)
          BY <4>1, <4>2
        <4>5. "memory_contradiction" \in Reasons /\ "" \in TopicSet \cup {""} /\ 0 \in Nat
          BY DEF Reasons
        <4>6. RequestsOK' /\ Grown(requested, request, requested')
          BY <4>2, <4>3, <4>4, <4>5, RequestAdded DEF MemoryInv
        <4> QED BY <4>6 DEF Grown
      <3> QED BY <1>9, <3>1, <3>2, JudgeMoves
    <2>5. ReflectingOK'
      BY <2>1, <2>4, ReflectingSame DEF MemoryInv
    <2> QED BY <2>3, <2>4, <2>5 DEF MemoryInv
  <1>10. CASE DropListed(w)
    <2>1. /\ UNCHANGED <<known, requested>> /\ UNCHANGED <<conversing, learning, reflecting>>
          /\ UNCHANGED marked
      BY <1>10 DEF DropListed
    <2>2. /\ WritersOK' /\ memories' \subseteq memories /\ Beside(w)
          /\ writers'[w].step = "done"
      BY <1>10, DropMoves, WorkingOK DEF Ends
    <2>3. WritingOK'
      BY <2>1, <2>2, RowsSame, WritingFollows
    <2> QED BY <2>1, <2>3, QuietKept
  <1> QED BY <1>1, <1>2, <1>3, <1>4, <1>5, <1>6, <1>7, <1>8, <1>9, <1>10

\* The rest of the state when a remark is dealt with.
LEMMA AsideKept ==
    ASSUME MemoryInv, SegmentInv', WritingOK', LearningOK', UNCHANGED <<requested, reflecting>>
    PROVE  MemoryInv'
  <1>1. UNCHANGED requested /\ UNCHANGED reflecting
    OBVIOUS
  <1>2. RequestsOK'
    BY <1>1 DEF RequestsOK, MemoryInv
  <1>3. Len(requested) \in Nat /\ Len(requested') = Len(requested)
    BY <1>1 DEF MemoryInv, RequestsOK
  <1>4. ReflectingOK'
    BY <1>1, <1>3, ReflectingSame DEF MemoryInv
  <1> QED BY <1>2, <1>4 DEF MemoryInv

LEMMA LearnerIs ==
    ASSUME MemoryInv, learner # Nobody
    PROVE  \E n \in Notes, step \in {"count", "persist", "promote"} :
              /\ learner = [note |-> n, step |-> step]
              /\ learner.note = n /\ learner.step = step
              /\ receipts[n] = "applied" /\ Remark[n].correction
              /\ Topic = Remark[n].topic /\ Topic \in TopicSet
  <1>1. PICK n \in Notes, step \in {"count", "persist", "promote"} :
           /\ learner = [note |-> n, step |-> step]
           /\ receipts[n] = "applied" /\ Remark[n].correction
    BY DEF MemoryInv, LearningOK, LearnerOK
  <1>2. learner.note = n /\ learner.step = step
    BY <1>1
  <1>3. Remark[n].topic \in TopicSet
    BY DEF TopicSet
  <1> QED BY <1>1, <1>2, <1>3 DEF Topic

LEMMA NobodyIs == Nobody.step = "idle"
  BY DEF Nobody

LEMMA WritingAlone ==
    ASSUME MemoryInv, UNCHANGED writing
    PROVE  WritingOK'
  <1>1. UNCHANGED <<memories, writers, marked>>
    BY DEF writing, rows
  <1> QED BY <1>1, WritingSame DEF MemoryInv

LEMMA RecordKept ==
    ASSUME MemoryInv, NEW n \in Notes, RecordFeedback(n)
    PROVE  MemoryInv'
  <1>1. PICK r \in {"repeated", "queued"} : receipts' = [receipts EXCEPT ![n] = r]
    BY DEF RecordFeedback
  <1>2. /\ receipts[n] = "new" /\ UNCHANGED <<signals, learner>> /\ UNCHANGED known
        /\ UNCHANGED requested /\ UNCHANGED conversing /\ UNCHANGED writing
        /\ UNCHANGED reflecting
    BY DEF RecordFeedback
  <1>3. /\ receipts' \in [Notes -> {"new", "queued", "repeated", "applied"}]
        /\ \A o \in Notes : receipts[o] = "applied" => receipts'[o] = "applied"
    BY <1>1, <1>2 DEF MemoryInv, LearningOK
  <1>4. LearningOK'
    BY <1>2, <1>3 DEF MemoryInv, LearningOK, LearnerOK, Nobody
  <1> QED BY <1>2, <1>4, WritingAlone, ConversingSame, AsideKept DEF MemoryInv

LEMMA RemarkFactsKept ==
    ASSUME NEW k, KnownKept(k), NEW n \in Notes, NEW reply, NEW scope \in Scopes
    PROVE  KnownKept(RemarkFacts(n, k, reply, scope))
  <1>1. PICK claims, kept, at, source :
           /\ claims = Remark[n].claims /\ kept = About(n, reply)
           /\ at = Remark[n].at /\ source = <<"remark", n>>
    OBVIOUS
  <1>2. RemarkFacts(n, k, reply, scope) = ApplyFacts(k, claims, kept, at, scope, source)
    BY <1>1 DEF RemarkFacts
  <1>3. /\ at \in Nat /\ Len(claims) \in Nat
        /\ \A i \in 1..Len(claims) : IsClaim(claims[i])
    BY <1>1, RemarkAssumption
  <1> QED BY <1>2, <1>3, FactsKept

LEMMA ApplyKept ==
    ASSUME MemoryInv, NEW n \in Notes, ApplyFeedback(n)
    PROVE  /\ MemoryInv'
           /\ learner' = Nobody
              \/ (Remark[n].correction /\ learner' = [note |-> n, step |-> "count"])
  <1>1. /\ receipts[n] = "queued" /\ receipts' = [receipts EXCEPT ![n] = "applied"]
        /\ learner = Nobody
        /\ UNCHANGED signals /\ UNCHANGED requested /\ UNCHANGED conversing
        /\ UNCHANGED writing /\ UNCHANGED reflecting
    BY DEF ApplyFeedback
  <1>2. \/ UNCHANGED <<known, learner>>
        \/ /\ known' = RemarkFacts(n, RemarkFacts(n, known, FALSE, "profile"),
                                   TRUE, "conversation")
           /\ learner' = IF Remark[n].correction
                         THEN [note |-> n, step |-> "count"] ELSE Nobody
    BY DEF ApplyFeedback
  <1>3. learner' = Nobody
        \/ (Remark[n].correction /\ learner' = [note |-> n, step |-> "count"])
    BY <1>1, <1>2
  <1>4. receipts' \in [Notes -> {"new", "queued", "repeated", "applied"}]
        /\ receipts'[n] = "applied"
    BY <1>1 DEF MemoryInv, LearningOK
  <1>5. LearningOK'
    <2>1. LearnerOK'
      BY <1>3, <1>4 DEF LearnerOK, Nobody
    <2> QED BY <1>1, <1>4, <2>1 DEF MemoryInv, LearningOK
  <1>6. KnownKept(known')
    <2>1. KnownKept(known) /\ "profile" \in Scopes /\ "conversation" \in Scopes
      BY DEF MemoryInv, SegmentInv, Scopes
    <2>2. CASE UNCHANGED known
      BY <2>1, <2>2
    <2>3. CASE known' = RemarkFacts(n, RemarkFacts(n, known, FALSE, "profile"),
                                    TRUE, "conversation")
      <3>1. PICK k : k = RemarkFacts(n, known, FALSE, "profile")
        OBVIOUS
      <3>2. PICK old : old = known
        OBVIOUS
      <3>3. KnownKept(k)
        BY <2>1, <3>1, <3>2, RemarkFactsKept
      <3>4. known' = RemarkFacts(n, k, TRUE, "conversation")
        BY <2>3, <3>1
      <3> QED BY <2>1, <3>3, <3>4, RemarkFactsKept
    <2> QED BY <1>2, <2>2, <2>3
  <1>7. SegmentInv'
    BY <1>1, <1>6, LearnedSame DEF MemoryInv
  <1> QED BY <1>1, <1>3, <1>5, <1>7, WritingAlone, AsideKept

LEMMA CountKept ==
    ASSUME MemoryInv, CountCorrection
    PROVE  /\ MemoryInv' /\ Topic \in TopicSet
           /\ signals' = [signals EXCEPT ![Topic] = signals[Topic] + 1]
           /\ \/ signals[Topic] + 1 < LessonThreshold /\ learner' = Nobody
              \/ /\ signals[Topic] + 1 >= LessonThreshold
                 /\ learner' = [note |-> learner.note, step |-> "persist"]
  <1>1. learner.step = "count" /\ learner # Nobody
    BY NobodyIs DEF CountCorrection
  <1>2. PICK n \in Notes, step \in {"count", "persist", "promote"} :
           /\ learner = [note |-> n, step |-> step]
           /\ receipts[n] = "applied" /\ Remark[n].correction /\ Topic \in TopicSet
    BY <1>1, LearnerIs
  <1>3. /\ signals' = [signals EXCEPT ![Topic] = @ + 1]
        /\ learner' = IF signals[Topic] + 1 < LessonThreshold THEN Nobody
                      ELSE [learner EXCEPT !.step = "persist"]
        /\ UNCHANGED receipts /\ UNCHANGED known /\ UNCHANGED requested
        /\ UNCHANGED conversing /\ UNCHANGED writing /\ UNCHANGED reflecting
    BY DEF CountCorrection
  <1>4. /\ signals \in [TopicSet -> Nat] /\ signals[Topic] \in Nat
    BY <1>2 DEF MemoryInv, LearningOK
  <1>5. PICK topic : topic = Topic
    OBVIOUS
  <1>6. signals' = [signals EXCEPT ![Topic] = signals[Topic] + 1]
    BY <1>3
  <1>7. signals' \in [TopicSet -> Nat]
    BY <1>2, <1>4, <1>5, <1>6
  <1>8. \/ signals[Topic] + 1 < LessonThreshold /\ learner' = Nobody
        \/ /\ signals[Topic] + 1 >= LessonThreshold
           /\ learner' = [note |-> n, step |-> "persist"]
    <2>1. LessonThreshold \in Nat
      BY MemoryAssumption
    <2>2. PICK count : count = signals[Topic]
      OBVIOUS
    <2>3. count + 1 < LessonThreshold \/ count + 1 >= LessonThreshold
      BY <1>4, <2>1, <2>2
    <2>4. CASE count + 1 < LessonThreshold
      BY <1>3, <2>2, <2>4
    <2>5. CASE ~ (count + 1 < LessonThreshold)
      <3>1. learner' = [learner EXCEPT !.step = "persist"]
        BY <1>3, <2>2, <2>5
      <3>2. learner' = [note |-> n, step |-> "persist"]
        BY <1>2, <3>1
      <3> QED BY <2>2, <2>3, <2>5, <3>2
    <2> QED BY <2>4, <2>5
  <1>9. LearnerOK'
    BY <1>2, <1>3, <1>8 DEF LearnerOK, Nobody
  <1>10. LearningOK'
    BY <1>3, <1>7, <1>9 DEF MemoryInv, LearningOK
  <1>11. MemoryInv'
    BY <1>3, <1>10, WritingAlone, ConversingSame, AsideKept DEF MemoryInv
  <1>12. learner.note = n
    BY <1>2
  <1> QED BY <1>2, <1>6, <1>8, <1>11, <1>12

LEMMA PersistKept ==
    ASSUME MemoryInv, PersistLesson
    PROVE  /\ MemoryInv' /\ learner # Nobody
           /\ learner' = [note |-> learner.note, step |-> "promote"]
           /\ memories' = memories \cup
                 {Row(LessonOf(learner.note), learner.note, "lesson", "", TRUE, epoch)}
           /\ learner.note \in Notes
  <1>1. learner.step = "persist" /\ learner # Nobody
    BY NobodyIs DEF PersistLesson
  <1>2. PICK n \in Notes, step \in {"count", "persist", "promote"} :
           /\ learner = [note |-> n, step |-> step] /\ learner.note = n
           /\ receipts[n] = "applied" /\ Remark[n].correction
    BY <1>1, LearnerIs
  <1>3. /\ Add(Row(LessonOf(learner.note), learner.note, "lesson", "", TRUE, epoch))
        /\ learner' = [learner EXCEPT !.step = "promote"]
        /\ UNCHANGED <<edges, marked, writers, observed>> /\ UNCHANGED <<receipts, signals>>
        /\ UNCHANGED known /\ UNCHANGED requested /\ UNCHANGED conversing
        /\ UNCHANGED reflecting
    BY DEF PersistLesson
  <1>4. learner' = [note |-> n, step |-> "promote"]
    BY <1>2, <1>3
  <1>5. LearningOK'
    <2>1. LearnerOK'
      BY <1>2, <1>3, <1>4 DEF LearnerOK
    <2> QED BY <1>3, <2>1 DEF MemoryInv, LearningOK
  <1>6. PICK id, since : id = LessonOf(learner.note) /\ since = epoch
    OBVIOUS
  <1>7. id \in MemoryIds /\ since \in Nat
    BY <1>2, <1>6, IdIs, ClockIsNat
  <1>8. Add(Row(id, n, "lesson", "", TRUE, since))
    BY <1>2, <1>3, <1>6
  <1>9. /\ RowsOK' /\ memories' = memories \cup {Row(id, n, "lesson", "", TRUE, since)}
    BY <1>7, <1>8, RowAdded
  <1>10. WritingOK'
    BY <1>3, <1>9 DEF MemoryInv, WritingOK, WritersOK, StepsFit
  <1>11. MemoryInv'
    BY <1>3, <1>5, <1>10, ConversingSame, AsideKept DEF MemoryInv
  <1> QED BY <1>1, <1>2, <1>4, <1>6, <1>9, <1>11

LEMMA PromoteKept ==
    ASSUME MemoryInv, PromoteLesson
    PROVE  \E request :
              /\ MemoryInv' /\ learner.step = "promote" /\ learner' = Nobody
              /\ Topic \in TopicSet /\ signals' = [signals EXCEPT ![Topic] = 0]
              /\ request = Request("annotation_correction", {LessonOf(learner.note)}, Topic, 0)
              /\ Grown(requested, request, requested') /\ request.topic = Topic
              /\ request.about = {LessonOf(learner.note)} /\ request.at = epoch
              /\ ~ request.done /\ request.reason # "periodic"
  <1>1. learner.step = "promote" /\ learner # Nobody
    BY NobodyIs DEF PromoteLesson
  <1>2. PICK n \in Notes, step \in {"count", "persist", "promote"} :
           learner.note = n /\ Topic \in TopicSet
    BY <1>1, LearnerIs
  <1>3. /\ requested' = Append(requested,
               Request("annotation_correction", {LessonOf(learner.note)}, Topic, 0))
        /\ signals' = [signals EXCEPT ![Topic] = 0]
        /\ learner' = Nobody /\ UNCHANGED receipts
        /\ UNCHANGED known /\ UNCHANGED conversing /\ UNCHANGED writing /\ UNCHANGED reflecting
    BY DEF PromoteLesson, Cleared
  <1>4. PICK topic, about, request : /\ topic = Topic /\ about = {LessonOf(learner.note)}
           /\ request = Request("annotation_correction", about, topic, 0)
    OBVIOUS
  <1>5. /\ about \in SUBSET MemoryIds /\ topic \in TopicSet \cup {""} /\ 0 \in Nat
        /\ "annotation_correction" \in Reasons
    BY <1>2, <1>4, IdIs DEF Reasons
  <1>6. requested' = Append(requested, request)
    BY <1>3, <1>4
  <1>7. RequestsOK' /\ Grown(requested, request, requested')
    BY <1>4, <1>5, <1>6, RequestAdded DEF MemoryInv
  <1>8. LearningOK'
    <2>1. signals' \in [TopicSet -> Nat]
      BY <1>2, <1>3 DEF MemoryInv, LearningOK
    <2>2. LearnerOK'
      BY <1>3 DEF LearnerOK, Nobody
    <2> QED BY <1>3, <2>1, <2>2 DEF MemoryInv, LearningOK
  <1>9. ReflectingOK'
    BY <1>3, <1>7, ReflectingSame DEF MemoryInv, Grown
  <1>10. MemoryInv'
    BY <1>3, <1>7, <1>8, <1>9, WritingAlone, ConversingSame DEF MemoryInv
  <1>11. /\ request.topic = topic /\ request.about = about /\ request.at = epoch
         /\ ~ request.done /\ request.reason # "periodic"
    BY <1>4 DEF Request
  <1>12. request = Request("annotation_correction", {LessonOf(learner.note)}, Topic, 0)
    BY <1>4
  <1> QED BY <1>1, <1>2, <1>3, <1>4, <1>7, <1>10, <1>11, <1>12

LEMMA LearnFailsKept ==
    ASSUME MemoryInv, LearnFails
    PROVE  MemoryInv'
  <1>1. /\ learner' = Nobody /\ UNCHANGED <<receipts, signals>>
        /\ UNCHANGED known /\ UNCHANGED requested /\ UNCHANGED conversing
        /\ UNCHANGED writing /\ UNCHANGED reflecting
    BY DEF LearnFails
  <1>2. LearningOK'
    BY <1>1 DEF MemoryInv, LearningOK, LearnerOK, Nobody
  <1> QED BY <1>1, <1>2, WritingAlone, ConversingSame, AsideKept DEF MemoryInv

LEMMA LearnKept ==
    ASSUME MemoryInv, Learn
    PROVE  MemoryInv'
  BY RecordKept, ApplyKept, CountKept, PersistKept, PromoteKept, LearnFailsKept DEF Learn

\* The rest of the state when a reflection is asked for or goes on.
LEMMA ReflectKeeps ==
    ASSUME MemoryInv, UNCHANGED <<known, conversing, writing, learning>>,
           RequestsOK', ReflectingOK'
    PROVE  MemoryInv'
  <1>1. UNCHANGED known /\ UNCHANGED conversing /\ UNCHANGED writing /\ UNCHANGED learning
    OBVIOUS
  <1> QED BY <1>1, ConversingSame, WritingAlone, LearningSame DEF MemoryInv

LEMMA Asks ==
    ASSUME MemoryInv, CheckReflect \/ \E reason \in {"idle_activity", "reading_revisit"} :
                                         AskReflection(reason)
    PROVE  \E request :
              /\ MemoryInv' /\ Grown(requested, request, requested')
              /\ request.topic = "" /\ request.about = {} /\ request.at = epoch
              /\ ~ request.done
  <1>1. /\ UNCHANGED known /\ UNCHANGED conversing /\ UNCHANGED writing
        /\ UNCHANGED learning /\ UNCHANGED reflecting
    BY DEF CheckReflect, AskReflection
  <1>2. PICK reason \in Reasons, seen \in Nat :
           requested' = Append(requested, Request(reason, {}, "", seen))
    <2>1. CASE CheckReflect
      <3>1. requested' = Append(requested, Request("periodic", {}, "", narrative.updated))
        BY <2>1 DEF CheckReflect
      <3>2. "periodic" \in Reasons /\ narrative.updated \in Nat
        BY DEF Reasons, MemoryInv, ReflectingOK
      <3> QED BY <3>1, <3>2
    <2>2. CASE \E reason \in {"idle_activity", "reading_revisit"} : AskReflection(reason)
      <3>1. PICK reason \in {"idle_activity", "reading_revisit"} :
               requested' = Append(requested, Request(reason, {}, "", 0))
        BY <2>2 DEF AskReflection
      <3>2. reason \in Reasons /\ 0 \in Nat
        BY DEF Reasons
      <3> QED BY <3>1, <3>2
    <2> QED BY <2>1, <2>2
  <1>3. PICK request, about, topic : /\ about = {} /\ topic = ""
           /\ request = Request(reason, about, topic, seen)
    OBVIOUS
  <1>4. about \in SUBSET MemoryIds /\ topic \in TopicSet \cup {""}
    BY <1>3
  <1>5. requested' = Append(requested, request)
    BY <1>2, <1>3
  <1>6. RequestsOK' /\ Grown(requested, request, requested')
    BY <1>3, <1>4, <1>5, RequestAdded DEF MemoryInv
  <1>7. ReflectingOK'
    BY <1>1, <1>6, ReflectingSame DEF MemoryInv, Grown
  <1>8. MemoryInv'
    BY <1>1, <1>6, <1>7, ReflectKeeps
  <1>9. request.topic = topic /\ request.about = about /\ request.at = epoch /\ ~ request.done
    BY <1>3 DEF Request
  <1> QED BY <1>3, <1>6, <1>8, <1>9

\* The n-th request is done; nothing else of the requests changes.
Marks(n) ==
    /\ Len(requested') = Len(requested) /\ Len(requested) \in Nat
    /\ requested'[n].done /\ requested'[n].topic = requested[n].topic
    /\ requested'[n].about = requested[n].about /\ requested'[n].at = requested[n].at
    /\ requested'[n].reason = requested[n].reason
    /\ \A i \in 1..Len(requested) : i # n => requested'[i] = requested[i]

LEMMA DoneMarks ==
    ASSUME MemoryInv, NEW n \in 1..Len(requested),
           requested' = [requested EXCEPT ![n].done = TRUE]
    PROVE  Marks(n) /\ RequestsOK'
  <1>1. PICK old : old = requested[n]
    OBVIOUS
  <1>2. PICK request : request = [old EXCEPT !.done = TRUE]
    OBVIOUS
  <1>3. request = [requested[n] EXCEPT !.done = TRUE]
    BY <1>1, <1>2, Zenon
  <1>4. requested' = [requested EXCEPT ![n] = request]
    BY <1>3
  <1>5. /\ RequestsOK' /\ Len(requested') = Len(requested) /\ Len(requested) \in Nat
        /\ requested'[n] = request
        /\ \A i \in 1..Len(requested) : i # n => requested'[i] = requested[i]
    BY <1>3, <1>4, RequestDone DEF MemoryInv
  <1>6. old \in RequestSet
    BY <1>1 DEF MemoryInv, RequestsOK
  <1>7. request.done /\ request.topic = old.topic /\ request.about = old.about
        /\ request.at = old.at /\ request.reason = old.reason
    BY <1>2, <1>6 DEF RequestSet
  <1> QED BY <1>1, <1>5, <1>7 DEF Marks

LEMMA SkipKept ==
    ASSUME MemoryInv, NEW n \in DOMAIN requested, SkipReflection(n)
    PROVE  MemoryInv' /\ Marks(n) /\ n \in 1..Len(requested)
  <1>1. n \in 1..Len(requested)
    BY DEF MemoryInv, RequestsOK
  <1>2. /\ requested' = [requested EXCEPT ![n].done = TRUE]
        /\ UNCHANGED known /\ UNCHANGED conversing /\ UNCHANGED writing
        /\ UNCHANGED learning /\ UNCHANGED reflecting
    BY DEF SkipReflection
  <1>3. Marks(n) /\ RequestsOK'
    BY <1>1, <1>2, DoneMarks
  <1>4. ReflectingOK'
    BY <1>2, <1>3, ReflectingSame DEF MemoryInv, Marks
  <1> QED BY <1>1, <1>2, <1>3, <1>4, ReflectKeeps

LEMMA OldestAre ==
    ASSUME NEW S
    PROVE  Oldest(S) \subseteq S
  BY DEF Oldest

LEMMA AtRestIs ==
    /\ ReflectorShape(AtRest) /\ AtRest.step = "idle" /\ AtRest.used = {}
    /\ AtRest.evidence = {} /\ AtRest.base = 0 /\ AtRest.stamp = 0 /\ AtRest.when = 0
  BY DEF ReflectorShape, AtRest

LEMMA RestKept ==
    ASSUME reflector' = AtRest
    PROVE  ReflectorOK'
  BY AtRestIs DEF ReflectorOK

LEMMA BeginKept ==
    ASSUME MemoryInv, NEW n \in DOMAIN requested, BeginReflection(n)
    PROVE  /\ MemoryInv' /\ n \in 1..Len(requested)
           /\ epoch' = epoch + 1 /\ reflector'.step = "thinking" /\ reflector'.n = n
           /\ reflector'.base = narrative.updated /\ reflector'.stamp = epoch + 1
           /\ reflector'.listed = IdsOf({m \in memories : m.kind # "reflection"})
           /\ reflector'.used = {} /\ reflector'.evidence \subseteq unread
  <1>1. n \in 1..Len(requested)
    BY DEF MemoryInv, RequestsOK
  <1>2. /\ epoch' = epoch + 1
        /\ reflector' = [AtRest EXCEPT
              !.step = "thinking", !.n = n, !.base = narrative.updated,
              !.stamp = epoch', !.when = clock,
              !.listed = IdsOf({m \in memories: m.kind # "reflection"}),
              !.evidence = Oldest(unread)]
        /\ UNCHANGED known /\ UNCHANGED requested
        /\ UNCHANGED <<narrative, unread, goals, mood>>
        /\ UNCHANGED conversing /\ UNCHANGED writing /\ UNCHANGED learning
    BY DEF BeginReflection
  <1>3. PICK rest, base, stamp, when, listed, evidence :
           /\ rest = AtRest /\ base = narrative.updated /\ stamp = epoch + 1 /\ when = clock
           /\ listed = IdsOf({m \in memories: m.kind # "reflection"})
           /\ evidence = Oldest(unread)
    OBVIOUS
  <1>4. reflector' = [rest EXCEPT
              !.step = "thinking", !.n = n, !.base = base, !.stamp = stamp, !.when = when,
              !.listed = listed, !.evidence = evidence]
    BY <1>2, <1>3, Zenon
  <1>5. ReflectorShape(rest) /\ rest.used = {}
    BY <1>3, AtRestIs
  <1>6. /\ reflector'.step = "thinking" /\ reflector'.n = n /\ reflector'.base = base
        /\ reflector'.stamp = stamp /\ reflector'.when = when /\ reflector'.listed = listed
        /\ reflector'.evidence = evidence /\ reflector'.used = {}
        /\ ReflectorShape(reflector')
    BY <1>4, <1>5 DEF ReflectorShape
  <1>7. /\ base \in Nat /\ stamp \in Nat /\ when \in Nat /\ evidence \subseteq unread
        /\ unread \subseteq ToSet(Evidence) /\ epoch' \in Nat
    BY <1>2, <1>3, ClockIsNat, OldestAre DEF MemoryInv, ReflectingOK
  <1>8. ReflectorOK'
    BY <1>1, <1>2, <1>6, <1>7 DEF ReflectorOK
  <1>9. RequestsOK' /\ ReflectingOK'
    BY <1>2, <1>7, <1>8 DEF MemoryInv, RequestsOK, ReflectingOK
  <1>10. MemoryInv'
    BY <1>2, <1>9, ReflectKeeps
  <1> QED BY <1>1, <1>2, <1>3, <1>6, <1>7, <1>10

LEMMA ReflectorIs ==
    ASSUME MemoryInv, reflector.step # "idle"
    PROVE  /\ ReflectorShape(reflector) /\ reflector.n \in 1..Len(requested)
           /\ reflector.evidence \subseteq ToSet(Evidence)
           /\ reflector.used \subseteq ToSet(Evidence)
           /\ reflector.base \in Nat /\ reflector.stamp \in Nat /\ reflector.when \in Nat
  BY DEF MemoryInv, ReflectingOK, ReflectorOK

LEMMA PlanKept ==
    ASSUME MemoryInv, PlanReflection
    PROVE  /\ MemoryInv' /\ reflector.step = "thinking" /\ reflector'.step = "planned"
           /\ reflector'.n = reflector.n /\ reflector'.base = reflector.base
           /\ reflector'.stamp = reflector.stamp /\ reflector'.listed = reflector.listed
           /\ reflector'.used \subseteq reflector.evidence
  <1>1. PICK used \in SUBSET reflector.evidence, wants \in BOOLEAN :
           reflector' = [reflector EXCEPT !.step = "planned", !.used = used,
                                          !.goals = goals, !.wants = wants]
    BY DEF PlanReflection
  <1>2. /\ reflector.step = "thinking"
        /\ UNCHANGED known /\ UNCHANGED requested
        /\ UNCHANGED <<narrative, unread, goals, mood, epoch>>
        /\ UNCHANGED conversing /\ UNCHANGED writing /\ UNCHANGED learning
    BY DEF PlanReflection
  <1>3. /\ ReflectorShape(reflector) /\ reflector.n \in 1..Len(requested)
        /\ reflector.evidence \subseteq ToSet(Evidence)
        /\ reflector.base \in Nat /\ reflector.stamp \in Nat /\ reflector.when \in Nat
    BY <1>2, ReflectorIs
  <1>4. /\ reflector'.step = "planned" /\ reflector'.n = reflector.n
        /\ reflector'.base = reflector.base /\ reflector'.stamp = reflector.stamp
        /\ reflector'.when = reflector.when /\ reflector'.listed = reflector.listed
        /\ reflector'.evidence = reflector.evidence /\ reflector'.used = used
        /\ ReflectorShape(reflector')
    BY <1>1, <1>3 DEF ReflectorShape
  <1>5. ReflectorOK'
    BY <1>2, <1>3, <1>4 DEF ReflectorOK
  <1>6. RequestsOK' /\ ReflectingOK'
    BY <1>2, <1>5 DEF MemoryInv, RequestsOK, ReflectingOK
  <1>7. MemoryInv'
    BY <1>2, <1>6, ReflectKeeps
  <1> QED BY <1>2, <1>4, <1>7

LEMMA GiveUpKept ==
    ASSUME MemoryInv, ReflectionFails \/ RejectReflection
    PROVE  MemoryInv' /\ reflector' = AtRest /\ UNCHANGED <<requested, narrative, unread, epoch, mood>>
  <1>1. /\ reflector' = AtRest /\ UNCHANGED known /\ UNCHANGED requested
        /\ UNCHANGED <<narrative, unread, goals, epoch, mood>>
        /\ UNCHANGED conversing /\ UNCHANGED writing /\ UNCHANGED learning
    BY DEF ReflectionFails, RejectReflection, ShiftUndone
  <1>2. RequestsOK' /\ ReflectingOK'
    BY <1>1, RestKept DEF MemoryInv, RequestsOK, ReflectingOK
  <1> QED BY <1>1, <1>2, ReflectKeeps

LEMMA CommitReflectionKept ==
    ASSUME MemoryInv, CommitReflection
    PROVE  \E story \in StorySet :
              /\ MemoryInv' /\ reflector.step = "planned" /\ Marks(reflector.n)
              /\ story.n = reflector.n /\ story.base = reflector.base
              /\ story.stamp = reflector.stamp /\ story.used = reflector.used
              /\ Grown(narrative.stories, story, narrative'.stories)
              /\ narrative'.updated = reflector.stamp
              /\ narrative'.reviewed = narrative.reviewed \cup reflector.listed
              /\ unread' = unread \ reflector.used /\ reflector' = AtRest
              /\ memories' = memories \cup {Row(RecordOf(reflector.n), "reflection",
                                                "reflection", "", TRUE, epoch)}
              /\ UNCHANGED epoch
  <1>1. /\ reflector.step = "planned"
        /\ requested' = [requested EXCEPT ![reflector.n].done = TRUE]
        /\ narrative' = [updated |-> reflector.stamp, when |-> reflector.when,
                     reviewed |-> narrative.reviewed \cup reflector.listed,
                     stories |-> Append(narrative.stories,
                         [n |-> reflector.n, base |-> reflector.base,
                          stamp |-> reflector.stamp, used |-> reflector.used])]
        /\ unread' = unread \ reflector.used
        /\ Add(Row(RecordOf(reflector.n), "reflection", "reflection", "", TRUE, epoch))
        /\ reflector' = AtRest
        /\ UNCHANGED <<edges, marked, writers, observed>> /\ UNCHANGED known
        /\ UNCHANGED epoch /\ UNCHANGED conversing /\ UNCHANGED learning
    BY DEF CommitReflection, NarrativeStamp
  <1>2. /\ reflector.n \in 1..Len(requested) /\ reflector.used \subseteq ToSet(Evidence)
        /\ reflector.base \in Nat /\ reflector.stamp \in Nat /\ reflector.when \in Nat
    BY <1>1, ReflectorIs
  <1>3. PICK story : story = [n |-> reflector.n, base |-> reflector.base,
                              stamp |-> reflector.stamp, used |-> reflector.used]
    OBVIOUS
  <1>4. /\ story \in StorySet /\ story.n = reflector.n /\ story.base = reflector.base
        /\ story.stamp = reflector.stamp /\ story.used = reflector.used
    <2>1. Len(requested) \in Nat
      BY DEF MemoryInv, RequestsOK
    <2>2. reflector.n \in Nat
      BY <1>2, <2>1
    <2> QED BY <1>2, <1>3, <2>2 DEF StorySet
  <1>5. PICK new : new = Append(narrative.stories, story)
    OBVIOUS
  <1>6. new \in Seq(StorySet) /\ Grown(narrative.stories, story, new)
    <2>1. PICK old : old = narrative.stories
      OBVIOUS
    <2>2. old \in Seq(StorySet)
      BY <2>1 DEF MemoryInv, ReflectingOK
    <2>3. Append(old, story) \in Seq(StorySet) /\ Grown(old, story, Append(old, story))
      BY <1>4, <2>2, Appended
    <2> QED BY <1>5, <2>1, <2>3
  <1>7. narrative' = [updated |-> reflector.stamp, when |-> reflector.when,
                      reviewed |-> narrative.reviewed \cup reflector.listed,
                      stories |-> new]
    BY <1>1, <1>3, <1>5, Zenon
  <1>8. /\ narrative'.updated = reflector.stamp /\ narrative'.when = reflector.when
        /\ narrative'.reviewed = narrative.reviewed \cup reflector.listed
        /\ narrative'.stories = new
        /\ narrative' = [updated |-> narrative'.updated, when |-> narrative'.when,
                         reviewed |-> narrative'.reviewed, stories |-> narrative'.stories]
    BY <1>7
  <1>9. Marks(reflector.n) /\ RequestsOK'
    BY <1>1, <1>2, DoneMarks
  <1>10. PICK id, since : id = RecordOf(reflector.n) /\ since = epoch
    OBVIOUS
  <1>11. id \in MemoryIds /\ since \in Nat
    <2>1. Len(requested) \in Nat
      BY DEF MemoryInv, RequestsOK
    <2> QED BY <1>2, <1>10, <2>1, IdIs, ClockIsNat
  <1>12. Add(Row(id, "reflection", "reflection", "", TRUE, since))
    BY <1>1, <1>10
  <1>13. RowsOK' /\ memories' = memories \cup {Row(id, "reflection", "reflection", "", TRUE, since)}
    BY <1>11, <1>12, RowAdded
  <1>14. WritingOK'
    BY <1>1, <1>13 DEF MemoryInv, WritingOK, WritersOK, StepsFit
  <1>15. ReflectingOK'
    <2>1. unread' \subseteq ToSet(Evidence) /\ epoch' \in Nat
      BY <1>1 DEF MemoryInv, ReflectingOK
    <2>2. ReflectorOK'
      BY <1>1, RestKept
    <2> QED BY <1>2, <1>6, <1>8, <2>1, <2>2 DEF ReflectingOK
  <1>16. MemoryInv'
    BY <1>1, <1>9, <1>14, <1>15, ConversingSame, LearningSame DEF MemoryInv
  <1> QED BY <1>1, <1>4, <1>6, <1>8, <1>9, <1>10, <1>13, <1>16

LEMMA ReflectKept ==
    ASSUME MemoryInv, Reflect
    PROVE  MemoryInv'
  BY Asks, SkipKept, BeginKept, PlanKept, GiveUpKept, CommitReflectionKept DEF Reflect

\* A crash: what every request, the keeper, the learner and the reflector become.
LEMMA CrashKept ==
    ASSUME MemoryInv, Crash
    PROVE  /\ MemoryInv' /\ learner' = Nobody /\ reflector' = AtRest
           /\ \A w \in Writers :
                 \/ writers'[w] = Working
                    /\ (writers[w].step = "asked" \/ (Durable(w) /\ w \notin marked))
                 \/ writers'[w] = Finished
                    /\ writers[w].step # "asked" /\ ~ (Durable(w) /\ w \notin marked)
  <1>1. /\ writers' = [w \in Writers |->
              IF writers[w].step = "asked" \/ (Durable(w) /\ w \notin marked)
              THEN Working ELSE Finished]
        /\ learner' = Nobody /\ reflector' = AtRest /\ keeper' = Idle
        /\ UNCHANGED rows /\ UNCHANGED marked /\ UNCHANGED <<receipts, signals>>
        /\ UNCHANGED requested /\ UNCHANGED <<narrative, unread, goals, epoch>>
        /\ UNCHANGED <<segments, archive, recallUses, known, clock>>
    BY DEF Crash
  <1>2. \A w \in Writers :
           \/ writers'[w] = Working
              /\ (writers[w].step = "asked" \/ (Durable(w) /\ w \notin marked))
           \/ writers'[w] = Finished
              /\ writers[w].step # "asked" /\ ~ (Durable(w) /\ w \notin marked)
    BY <1>1, Zenon
  <1>3. \A w \in Writers : WriterOK(writers'[w]) /\ writers'[w].step \in {"asked", "done"}
    BY <1>2, WorkingOK
  <1>4. writers' = [w \in Writers |-> writers'[w]]
    BY <1>1
  <1>5. WritingOK'
    <2>1. WritersOK'
      BY <1>3, <1>4 DEF WritersOK
    <2>2. StepsFit'
      BY <1>3 DEF StepsFit
    <2>3. RowsOK'
      BY <1>1, RowsSame DEF rows
    <2> QED BY <1>1, <2>1, <2>2, <2>3 DEF MemoryInv, WritingOK
  <1>6. SegmentInv'
    <2>1. KeeperOK'
      BY <1>1, IdleKept
    <2> QED BY <1>1, <2>1, ChainSame DEF MemoryInv, SegmentInv
  <1>7. LearningOK' /\ RequestsOK'
    BY <1>1 DEF MemoryInv, LearningOK, LearnerOK, Nobody, RequestsOK
  <1>8. ReflectingOK'
    BY <1>1, RestKept DEF MemoryInv, ReflectingOK
  <1>9. MemoryInv'
    BY <1>5, <1>6, <1>7, <1>8 DEF MemoryInv
  <1> QED BY <1>1, <1>2, <1>9

LEMMA SegmentPartKept ==
    ASSUME MemoryInv, SegmentNext, UNCHANGED memoryVars
    PROVE  MemoryInv'
  <1>1. UNCHANGED <<memories, marked, writers, receipts, signals, learner, requested,
                    narrative, unread, goals, reflector, mood, epoch>>
    BY DEF memoryVars
  <1>2. WritingOK' /\ LearningOK' /\ RequestsOK' /\ ReflectingOK'
    BY <1>1 DEF MemoryInv, WritingOK, RowsOK, WritersOK, StepsFit, LearningOK, LearnerOK,
                Nobody, RequestsOK, ReflectingOK, ReflectorOK
  <1> QED BY <1>2, SegmentStepKept DEF MemoryInv

LEMMA StutterKept ==
    ASSUME MemoryInv, UNCHANGED vars
    PROVE  MemoryInv'
  <1>1. UNCHANGED segmentVars /\ UNCHANGED memoryVars
    BY DEF vars
  <1>2. UNCHANGED <<conversing, known>>
    BY <1>1 DEF segmentVars, conversing
  <1>3. UNCHANGED <<memories, marked, writers, receipts, signals, learner, requested,
                    narrative, unread, goals, reflector, mood, epoch>>
    BY <1>1 DEF memoryVars
  <1>4. WritingOK' /\ LearningOK' /\ RequestsOK' /\ ReflectingOK'
    BY <1>3 DEF MemoryInv, WritingOK, RowsOK, WritersOK, StepsFit, LearningOK, LearnerOK,
                Nobody, RequestsOK, ReflectingOK, ReflectorOK
  <1> QED BY <1>2, <1>4, ConversingSame DEF MemoryInv

LEMMA MemoryStart ==
    ASSUME Init
    PROVE  MemoryInv
  <1>1. SegmentInv
    BY SegmentsStart DEF Init
  <1>2. WritingOK
    <2>1. memories = {} /\ marked = {} /\ writers = [w \in Writers |-> Working]
      BY DEF Init
    <2>2. \A w \in Writers : writers[w] = Working
      BY <2>1
    <2>3. WritersOK
      <3>1. writers = [w \in Writers |-> writers[w]]
        BY <2>1, <2>2
      <3> QED BY <2>2, <3>1, WorkingOK DEF WritersOK
    <2>4. StepsFit
      BY <2>2, WorkingOK DEF StepsFit
    <2> QED BY <2>1, <2>3, <2>4 DEF WritingOK, RowsOK
  <1>3. LearningOK
    <2>1. receipts \in [Notes -> {"new", "queued", "repeated", "applied"}]
      BY DEF Init
    <2>2. signals \in [TopicSet -> Nat]
      BY DEF Init, TopicSet
    <2>3. LearnerOK
      BY DEF Init, LearnerOK
    <2> QED BY <2>1, <2>2, <2>3 DEF LearningOK
  <1>4. RequestsOK
    <2>1. requested = <<>>
      BY DEF Init
    <2>2. <<>> \in Seq(RequestSet)
      OBVIOUS
    <2> QED BY <2>1, <2>2 DEF RequestsOK
  <1>5. ReflectingOK
    <2>1. /\ narrative = [updated |-> 0, when |-> 0, reviewed |-> {}, stories |-> <<>>]
          /\ unread = ToSet(Evidence) /\ reflector = AtRest /\ epoch = 0
      BY DEF Init
    <2>2. ReflectorOK
      BY <2>1, AtRestIs DEF ReflectorOK
    <2>3. narrative.updated = 0 /\ narrative.when = 0 /\ narrative.stories = <<>>
          /\ narrative = [updated |-> narrative.updated, when |-> narrative.when,
                          reviewed |-> narrative.reviewed, stories |-> narrative.stories]
      BY <2>1
    <2> QED BY <2>1, <2>2, <2>3 DEF ReflectingOK
  <1> QED BY <1>1, <1>2, <1>3, <1>4, <1>5 DEF MemoryInv

(***************************************************************************)
(* Whatever the requests, the remarks and the turns are, the state keeps   *)
(* its shape and the archive its consistency.                              *)
(***************************************************************************)
THEOREM MemoryInvariant == Spec => []MemoryInv
  <1>1. Init => MemoryInv
    BY MemoryStart
  <1>2. MemoryInv /\ [Next]_vars => MemoryInv'
    BY SegmentPartKept, RememberKept, LearnKept, ReflectKept, CrashKept, StutterKept DEF Next
  <1> QED BY <1>1, <1>2, PTL DEF Spec

(***************************************************************************)
(* Whatever appends, judgements, recalls and restarts come between: a turn *)
(* is in the one segment the archive names, a segment counts as judged     *)
(* only for the turns it was judged with, and no recall is lost when a     *)
(* judgement is written back.                                              *)
(***************************************************************************)
THEOREM SegmentsKeptAlways == Spec => []SegmentsKept
  <1>1. MemoryInv => SegmentsKept
    BY SegmentsFollow DEF MemoryInv
  <1> QED BY <1>1, MemoryInvariant, PTL

(***************************************************************************)
(* In whatever order the claims of the segments are learned, no two facts  *)
(* about one functional matter hold at the same time.                      *)
(***************************************************************************)
THEOREM FactsDisjointAlways == Spec => []FactsDisjoint
  <1>1. MemoryInv => FactsDisjoint
    BY SegmentsFollow DEF MemoryInv
  <1> QED BY <1>1, MemoryInvariant, PTL

-----------------------------------------------------------------------------
(* Memory: a correction counts once *)

RemarksOn(t) ==
    {n \in Notes : receipts[n] = "applied" /\ Remark[n].correction /\ Remark[n].topic = t}

AskedFor(t) == {i \in DOMAIN requested : requested[i].topic = t}

\* A correction that is written and not yet counted.
Uncounted(t) == IF learner.step = "count" /\ Topic = t THEN 1 ELSE 0

Earned(t) ==
    signals[t] + LessonThreshold * Cardinality(AskedFor(t)) + Uncounted(t)
        <= Cardinality(RemarksOn(t))

\* A lesson that is being learned has been counted often enough.
Reached == learner.step \in {"persist", "promote"} => signals[Topic] >= LessonThreshold

LessonInv == Reached /\ \A t \in TopicSet : Earned(t)

\* The requests stay, or one is added that no lesson asked for, or one is done.
NoLesson ==
    \/ UNCHANGED requested
    \/ \E request : Grown(requested, request, requested') /\ request.topic = ""
    \/ \E n \in 1..Len(requested) : Marks(n)

LEMMA TopicNamed ==
    ASSUME NEW t \in TopicSet
    PROVE  t # ""
  BY RemarkAssumption DEF TopicSet

LEMMA LessonCounts ==
    ASSUME MemoryInv, NEW t \in TopicSet
    PROVE  /\ IsFiniteSet(AskedFor(t)) /\ Cardinality(AskedFor(t)) \in Nat
           /\ IsFiniteSet(RemarksOn(t)) /\ Cardinality(RemarksOn(t)) \in Nat
           /\ signals[t] \in Nat
  <1>1. IsFiniteSet(Notes)
    BY MemoryAssumption
  <1>2. RemarksOn(t) \in SUBSET Notes
    BY DEF RemarksOn
  <1>3. IsFiniteSet(RemarksOn(t))
    BY <1>1, <1>2, FS_Subset
  <1>4. DOMAIN requested = 1..Len(requested) /\ Len(requested) \in Nat
    BY DEF MemoryInv, RequestsOK
  <1>5. IsFiniteSet(1..Len(requested))
    BY <1>4, FS_Interval
  <1>6. AskedFor(t) \in SUBSET (1..Len(requested))
    BY <1>4 DEF AskedFor
  <1>7. IsFiniteSet(AskedFor(t))
    BY <1>5, <1>6, FS_Subset
  <1>8. signals[t] \in Nat
    BY DEF MemoryInv, LearningOK
  <1> QED BY <1>3, <1>7, <1>8, FS_CardinalityType

LEMMA AskedSame ==
    ASSUME MemoryInv, MemoryInv', NoLesson, NEW t \in TopicSet
    PROVE  AskedFor(t)' = AskedFor(t)
  <1>1. /\ DOMAIN requested = 1..Len(requested) /\ DOMAIN requested' = 1..Len(requested')
        /\ Len(requested) \in Nat
    BY DEF MemoryInv, RequestsOK
  <1>2. CASE UNCHANGED requested
    BY <1>2 DEF AskedFor
  <1>3. CASE \E request : Grown(requested, request, requested') /\ request.topic = ""
    <2>1. PICK request : Grown(requested, request, requested') /\ request.topic = ""
      BY <1>3
    <2>2. /\ \A i \in DOMAIN requested : /\ i \in DOMAIN requested'
                                        /\ requested'[i] = requested[i]
          /\ \A i \in DOMAIN requested' :
                i \in DOMAIN requested \/ requested'[i].topic = ""
      <3>1. PICK last : last = Len(requested) + 1
        OBVIOUS
      <3>2. /\ \A i \in DOMAIN requested : /\ i \in DOMAIN requested'
                                          /\ requested'[i] = requested[i]
            /\ \A i \in DOMAIN requested' : i \in DOMAIN requested \/ i = last
            /\ requested'[last] = request
        <4>1. PICK short, long : short = Len(requested) /\ long = Len(requested')
          OBVIOUS
        <4>2. /\ DOMAIN requested = 1..short /\ DOMAIN requested' = 1..long
              /\ short \in Nat /\ long = short + 1 /\ last = short + 1
              /\ \A i \in 1..short : requested'[i] = requested[i]
              /\ requested'[last] = request
          BY <1>1, <2>1, <3>1, <4>1 DEF Grown
        <4> QED BY <4>2
      <3> QED BY <2>1, <3>2
    <2>3. t # ""
      BY TopicNamed
    <2> QED BY <2>2, <2>3 DEF AskedFor
  <1>4. CASE \E n \in 1..Len(requested) : Marks(n)
    <2>1. PICK n \in 1..Len(requested) : Marks(n)
      BY <1>4
    <2>2. DOMAIN requested' = DOMAIN requested
      BY <1>1, <2>1 DEF Marks
    <2>3. \A i \in DOMAIN requested : requested'[i].topic = requested[i].topic
      BY <1>1, <2>1 DEF Marks
    <2> QED BY <2>2, <2>3 DEF AskedFor
  <1> QED BY <1>2, <1>3, <1>4 DEF NoLesson

LEMMA LessonsSame ==
    ASSUME MemoryInv, MemoryInv', LessonInv, NoLesson, UNCHANGED learning
    PROVE  LessonInv'
  <1>1. UNCHANGED <<receipts, signals, learner>>
    BY DEF learning
  <1>2. Reached'
    BY <1>1 DEF LessonInv, Reached, Topic
  <1>3. SUFFICES ASSUME NEW t \in TopicSet PROVE Earned(t)'
    BY <1>2 DEF LessonInv, TopicSet
  <1>4. /\ AskedFor(t)' = AskedFor(t) /\ RemarksOn(t)' = RemarksOn(t)
        /\ Uncounted(t)' = Uncounted(t)
    BY <1>1, AskedSame DEF RemarksOn, Uncounted, Topic
  <1>5. Earned(t)
    BY DEF LessonInv
  <1> QED BY <1>1, <1>4, <1>5 DEF Earned

\* A memory contradicts one that was like it when it was committed.
Contradicted(request) ==
    /\ Grown(requested, request, requested')
    /\ request.topic = "" /\ request.at = epoch /\ ~ request.done
    /\ request.reason # "periodic"
    /\ \E w \in Writers : \E id \in writers[w].near :
          writers[w].step = "judge" /\ request.about = {Made(w), id}

LEMMA RememberAsks ==
    ASSUME MemoryInv, Remember
    PROVE  /\ UNCHANGED learning /\ UNCHANGED reflecting /\ NoLesson
           /\ UNCHANGED requested \/ \E request : Contradicted(request)
  <1>1. PICK w \in Writers :
           \/ Compose(w) \/ CommitKnown(w) \/ CommitDurable(w) \/ WriterFails(w)
           \/ StartDirect(w) \/ CommitDirect(w) \/ ChooseLinks(w) \/ LinkOne(w)
           \/ Prune(w) \/ JudgeContradiction(w) \/ ListOverflow(w) \/ DropListed(w)
    BY DEF Remember
  <1>2. UNCHANGED learning /\ UNCHANGED reflecting
    BY <1>1 DEF Compose, CommitKnown, CommitDurable, WriterFails, StartDirect, CommitDirect,
                ChooseLinks, LinkOne, Prune, JudgeContradiction, ListOverflow, DropListed
  <1>3. CASE JudgeContradiction(w)
    <2>1. CASE UNCHANGED requested
      BY <1>2, <2>1 DEF NoLesson
    <2>2. CASE \E id \in writers[w].near :
                  requested' = Append(requested,
                     Request("memory_contradiction", {Made(w), id}, "", 0))
      <3>1. PICK id \in writers[w].near :
                  requested' = Append(requested,
                     Request("memory_contradiction", {Made(w), id}, "", 0))
        BY <2>2
      <3>2. PICK about, request :
               about = {Made(w), id} /\ request = Request("memory_contradiction", about, "", 0)
        OBVIOUS
      <3>3. about \in SUBSET MemoryIds
        BY <3>2, WriterIs, IdIs DEF WriterOK
      <3>4. requested' = Append(requested, request)
        BY <3>1, <3>2
      <3>5. "memory_contradiction" \in Reasons /\ "" \in TopicSet \cup {""} /\ 0 \in Nat
        BY DEF Reasons
      <3>6. Grown(requested, request, requested')
        BY <3>2, <3>3, <3>4, <3>5, RequestAdded DEF MemoryInv
      <3>7. /\ request.topic = "" /\ request.about = about /\ request.at = epoch
            /\ ~ request.done /\ request.reason # "periodic"
        BY <3>2 DEF Request
      <3>8. Contradicted(request)
        BY <1>3, <3>1, <3>2, <3>6, <3>7 DEF Contradicted, JudgeContradiction
      <3> QED BY <1>2, <3>6, <3>7, <3>8 DEF NoLesson
    <2> QED BY <1>3, <2>1, <2>2, JudgeMoves
  <1>4. CASE ~ JudgeContradiction(w)
    <2>1. UNCHANGED requested
      BY <1>1, <1>4 DEF Compose, CommitKnown, CommitDurable, WriterFails, StartDirect,
           CommitDirect, ChooseLinks, LinkOne, Prune, ListOverflow, DropListed
    <2> QED BY <1>2, <2>1 DEF NoLesson
  <1> QED BY <1>2, <1>3, <1>4

LEMMA ReflectAsks ==
    ASSUME MemoryInv, Reflect
    PROVE  UNCHANGED learning /\ NoLesson
  <1>1. UNCHANGED learning
    BY DEF Reflect, CheckReflect, AskReflection, SkipReflection, BeginReflection,
           PlanReflection, ReflectionFails, CommitReflection, RejectReflection
  <1>2. CASE CheckReflect \/ \E reason \in {"idle_activity", "reading_revisit"} :
                                         AskReflection(reason)
    BY <1>1, <1>2, Asks DEF NoLesson
  <1>3. CASE \E n \in DOMAIN requested : SkipReflection(n)
    BY <1>1, <1>3, SkipKept DEF NoLesson
  <1>4. CASE CommitReflection
    <2>1. Marks(reflector.n) /\ reflector.step = "planned"
      BY <1>4, CommitReflectionKept
    <2>2. reflector.n \in 1..Len(requested)
      BY <2>1, ReflectorIs
    <2> QED BY <1>1, <2>1, <2>2 DEF NoLesson
  <1>5. CASE \/ \E n \in DOMAIN requested : BeginReflection(n)
             \/ PlanReflection \/ ReflectionFails \/ RejectReflection
    <2>1. UNCHANGED requested
      BY <1>5 DEF BeginReflection, PlanReflection, ReflectionFails, RejectReflection
    <2> QED BY <1>1, <2>1 DEF NoLesson
  <1> QED BY <1>1, <1>2, <1>3, <1>4, <1>5 DEF Reflect

LEMMA RecordEarns ==
    ASSUME MemoryInv, MemoryInv', LessonInv, NEW n \in Notes, RecordFeedback(n)
    PROVE  LessonInv'
  <1>1. PICK r \in {"repeated", "queued"} : receipts' = [receipts EXCEPT ![n] = r]
    BY DEF RecordFeedback
  <1>2. receipts[n] = "new" /\ UNCHANGED <<signals, learner, requested>>
    BY DEF RecordFeedback
  <1>3. \A o \in Notes : receipts[o] = "applied" <=> receipts'[o] = "applied"
    BY <1>1, <1>2 DEF MemoryInv, LearningOK
  <1>4. Reached'
    BY <1>2 DEF LessonInv, Reached, Topic
  <1>5. SUFFICES ASSUME NEW t \in TopicSet PROVE Earned(t)'
    BY <1>4 DEF LessonInv, TopicSet
  <1>6. AskedFor(t)' = AskedFor(t) /\ Uncounted(t)' = Uncounted(t)
    BY <1>2 DEF AskedFor, Uncounted, Topic
  <1>7. RemarksOn(t)' = RemarksOn(t)
    BY <1>3 DEF RemarksOn
  <1>8. Earned(t)
    BY DEF LessonInv
  <1> QED BY <1>2, <1>6, <1>7, <1>8 DEF Earned

\* The sums of the steps that count.
LEMMA Sums ==
    ASSUME NEW s \in Nat, NEW a \in Nat, NEW r \in Nat, NEW u \in {0, 1}
    PROVE  /\ LessonThreshold * a \in Nat
           /\ LessonThreshold * (a + 1) = LessonThreshold * a + LessonThreshold
           /\ s + LessonThreshold * a + 1 <= r => (s + 1) + LessonThreshold * a + 0 <= r
           /\ s + LessonThreshold * a + u <= r => s + LessonThreshold * a + 0 <= r
           /\ s + LessonThreshold * a + 0 <= r => s + LessonThreshold * a + 1 <= r + 1
           /\ s + LessonThreshold * a + u <= r /\ s >= LessonThreshold
                 => 0 + LessonThreshold * (a + 1) + 0 <= r
  <1>1. LessonThreshold \in Nat
    BY MemoryAssumption
  <1>2. PICK T \in Nat : T = LessonThreshold
    BY <1>1
  <1>3. T * a \in Nat /\ T * (a + 1) = T * a + T
    BY <1>2
  <1>4. PICK p \in Nat : p = T * a
    BY <1>3
  <1> QED BY <1>2, <1>3, <1>4

LEMMA ApplyEarns ==
    ASSUME MemoryInv, MemoryInv', LessonInv, NEW n \in Notes, ApplyFeedback(n)
    PROVE  LessonInv'
  <1>1. /\ receipts[n] = "queued" /\ receipts' = [receipts EXCEPT ![n] = "applied"]
        /\ learner = Nobody /\ UNCHANGED <<signals, requested>>
    BY DEF ApplyFeedback
  <1>2. learner' = Nobody \/ (Remark[n].correction /\ learner' = [note |-> n, step |-> "count"])
    BY ApplyKept
  <1>3. learner'.step \in {"idle", "count"} /\ learner.step = "idle"
    BY <1>1, <1>2, NobodyIs
  <1>4. Reached'
    BY <1>3 DEF Reached
  <1>5. SUFFICES ASSUME NEW t \in TopicSet PROVE Earned(t)'
    BY <1>4 DEF LessonInv, TopicSet
  <1>6. AskedFor(t)' = AskedFor(t) /\ Uncounted(t) = 0
    BY <1>1, <1>3 DEF AskedFor, Uncounted
  <1>7. \A o \in Notes : receipts'[o] = IF o = n THEN "applied" ELSE receipts[o]
    BY <1>1 DEF MemoryInv, LearningOK
  <1>8. Earned(t) /\ signals[t] \in Nat /\ Cardinality(AskedFor(t)) \in Nat
        /\ IsFiniteSet(RemarksOn(t)) /\ Cardinality(RemarksOn(t)) \in Nat
    BY LessonCounts DEF LessonInv
  <1>9. CASE Remark[n].correction /\ Remark[n].topic = t
    <2>1. RemarksOn(t)' = RemarksOn(t) \cup {n} /\ n \notin RemarksOn(t)
      BY <1>1, <1>7, <1>9 DEF RemarksOn
    <2>2. Cardinality(RemarksOn(t)') = Cardinality(RemarksOn(t)) + 1
      BY <1>8, <2>1, FS_AddElement
    <2>3. PICK s, a, r : /\ s = signals[t] /\ a = Cardinality(AskedFor(t))
                         /\ r = Cardinality(RemarksOn(t))
      OBVIOUS
    <2>4. s + LessonThreshold * a + 0 <= r /\ s \in Nat /\ a \in Nat /\ r \in Nat
      BY <1>6, <1>8, <2>3 DEF Earned
    <2>5. s + LessonThreshold * a + 1 <= r + 1 /\ s + LessonThreshold * a + 0 <= r + 1
      <3>1. LessonThreshold * a \in Nat /\ s + LessonThreshold * a + 1 <= r + 1
        BY <2>4, Sums
      <3> QED BY <2>4, <3>1
    <2>6. Uncounted(t)' \in {0, 1}
      BY DEF Uncounted
    <2>7. s + LessonThreshold * a + Uncounted(t)' <= r + 1
      BY <2>5, <2>6
    <2>8. signals'[t] = s /\ Cardinality(AskedFor(t)') = a /\ Cardinality(RemarksOn(t)') = r + 1
      BY <1>1, <1>6, <2>2, <2>3
    <2> QED BY <2>7, <2>8 DEF Earned
  <1>10. CASE ~ (Remark[n].correction /\ Remark[n].topic = t)
    <2>1. RemarksOn(t)' = RemarksOn(t)
      BY <1>1, <1>7, <1>10 DEF RemarksOn
    <2>2. Uncounted(t)' = 0
      <3>1. CASE learner' = Nobody
        BY <3>1, NobodyIs DEF Uncounted
      <3>2. CASE Remark[n].correction /\ learner' = [note |-> n, step |-> "count"]
        <4>1. Topic' = Remark[n].topic
          BY <3>2 DEF Topic
        <4> QED BY <1>10, <3>2, <4>1 DEF Uncounted
      <3> QED BY <1>2, <3>1, <3>2
    <2> QED BY <1>1, <1>6, <1>8, <2>1, <2>2 DEF Earned
  <1> QED BY <1>9, <1>10

LEMMA CountEarns ==
    ASSUME MemoryInv, MemoryInv', LessonInv, CountCorrection
    PROVE  LessonInv'
  <1>1. /\ Topic \in TopicSet /\ signals' = [signals EXCEPT ![Topic] = signals[Topic] + 1]
        /\ \/ signals[Topic] + 1 < LessonThreshold /\ learner' = Nobody
           \/ /\ signals[Topic] + 1 >= LessonThreshold
              /\ learner' = [note |-> learner.note, step |-> "persist"]
    BY CountKept
  <1>2. learner.step = "count" /\ UNCHANGED <<receipts, requested>>
    BY DEF CountCorrection
  <1>3. /\ signals \in [TopicSet -> Nat]
        /\ \A t \in TopicSet : signals'[t] = IF t = Topic THEN signals[t] + 1 ELSE signals[t]
    BY <1>1 DEF MemoryInv, LearningOK
  <1>4. learner'.step # "count"
    BY <1>1, NobodyIs
  <1>5. Reached'
    <2>1. CASE learner' = Nobody
      BY <2>1, NobodyIs DEF Reached
    <2>2. CASE signals[Topic] + 1 >= LessonThreshold
               /\ learner' = [note |-> learner.note, step |-> "persist"]
      <3>1. Topic' = Topic
        BY <2>2 DEF Topic
      <3>2. signals'[Topic] >= LessonThreshold
        BY <1>1, <1>3, <2>2
      <3> QED BY <3>1, <3>2 DEF Reached
    <2> QED BY <1>1, <2>1, <2>2
  <1>6. SUFFICES ASSUME NEW t \in TopicSet PROVE Earned(t)'
    BY <1>5 DEF LessonInv, TopicSet
  <1>7. AskedFor(t)' = AskedFor(t) /\ RemarksOn(t)' = RemarksOn(t) /\ Uncounted(t)' = 0
    BY <1>2, <1>4 DEF AskedFor, RemarksOn, Uncounted
  <1>8. Earned(t) /\ signals[t] \in Nat /\ Cardinality(AskedFor(t)) \in Nat
        /\ Cardinality(RemarksOn(t)) \in Nat
    BY LessonCounts DEF LessonInv
  <1>9. PICK s, a, r : /\ s = signals[t] /\ a = Cardinality(AskedFor(t))
                       /\ r = Cardinality(RemarksOn(t))
    OBVIOUS
  <1>10. CASE t = Topic
    <2>1. s + LessonThreshold * a + 1 <= r
      BY <1>2, <1>8, <1>9, <1>10 DEF Earned, Uncounted
    <2>2. (s + 1) + LessonThreshold * a + 0 <= r
      BY <1>8, <1>9, <2>1, Sums
    <2>3. signals'[t] = s + 1
      BY <1>3, <1>9, <1>10
    <2> QED BY <1>7, <1>9, <2>2, <2>3 DEF Earned
  <1>11. CASE t # Topic
    <2>1. s + LessonThreshold * a + 0 <= r
      BY <1>8, <1>9, <1>11 DEF Earned, Uncounted
    <2>2. signals'[t] = s
      BY <1>3, <1>9, <1>11
    <2> QED BY <1>7, <1>9, <2>1, <2>2 DEF Earned
  <1> QED BY <1>10, <1>11

LEMMA PersistEarns ==
    ASSUME MemoryInv, MemoryInv', LessonInv, PersistLesson
    PROVE  LessonInv'
  <1>1. learner' = [note |-> learner.note, step |-> "promote"]
    BY PersistKept
  <1>2. learner.step = "persist" /\ UNCHANGED <<receipts, signals, requested>>
    BY DEF PersistLesson
  <1>3. Topic' = Topic
    BY <1>1 DEF Topic
  <1>4. Reached'
    BY <1>2, <1>3 DEF LessonInv, Reached
  <1>5. SUFFICES ASSUME NEW t \in TopicSet PROVE Earned(t)'
    BY <1>4 DEF LessonInv, TopicSet
  <1>6. /\ AskedFor(t)' = AskedFor(t) /\ RemarksOn(t)' = RemarksOn(t)
        /\ Uncounted(t)' = 0 /\ Uncounted(t) = 0
    BY <1>1, <1>2 DEF AskedFor, RemarksOn, Uncounted
  <1>7. Earned(t)
    BY DEF LessonInv
  <1> QED BY <1>2, <1>6, <1>7 DEF Earned

LEMMA PromoteEarns ==
    ASSUME MemoryInv, MemoryInv', LessonInv, PromoteLesson
    PROVE  LessonInv'
  <1>1. PICK request :
           /\ learner.step = "promote" /\ learner' = Nobody
           /\ Topic \in TopicSet /\ signals' = [signals EXCEPT ![Topic] = 0]
           /\ Grown(requested, request, requested') /\ request.topic = Topic
    BY PromoteKept
  <1>2. UNCHANGED receipts /\ learner'.step = "idle"
    BY <1>1, NobodyIs DEF PromoteLesson
  <1>3. \A t \in TopicSet : signals'[t] = IF t = Topic THEN 0 ELSE signals[t]
    BY <1>1 DEF MemoryInv, LearningOK
  <1>4. Reached'
    BY <1>2 DEF Reached
  <1>5. SUFFICES ASSUME NEW t \in TopicSet PROVE Earned(t)'
    BY <1>4 DEF LessonInv, TopicSet
  <1>6. RemarksOn(t)' = RemarksOn(t) /\ Uncounted(t)' = 0
    BY <1>2 DEF RemarksOn, Uncounted
  <1>7. /\ Earned(t) /\ signals[t] \in Nat /\ Cardinality(AskedFor(t)) \in Nat
        /\ IsFiniteSet(AskedFor(t)) /\ Cardinality(RemarksOn(t)) \in Nat
        /\ Uncounted(t) \in {0, 1}
    BY LessonCounts DEF LessonInv, Uncounted
  <1>8. PICK s, a, r, u : /\ s = signals[t] /\ a = Cardinality(AskedFor(t))
                          /\ r = Cardinality(RemarksOn(t)) /\ u = Uncounted(t)
    OBVIOUS
  <1>9. s + LessonThreshold * a + u <= r
    BY <1>7, <1>8 DEF Earned
  <1>10. PICK last : last = Len(requested) + 1
    OBVIOUS
  <1>11. /\ \A i \in DOMAIN requested : i \in DOMAIN requested' /\ requested'[i] = requested[i]
         /\ \A i \in DOMAIN requested' : i \in DOMAIN requested \/ i = last
         /\ last \in DOMAIN requested' /\ last \notin DOMAIN requested
         /\ requested'[last].topic = Topic
    <2>1. /\ DOMAIN requested = 1..Len(requested) /\ DOMAIN requested' = 1..Len(requested')
          /\ Len(requested) \in Nat
      BY DEF MemoryInv, RequestsOK
    <2> QED BY <1>1, <1>10, <2>1 DEF Grown
  <1>12. CASE t = Topic
    <2>1. AskedFor(t)' = AskedFor(t) \cup {last} /\ last \notin AskedFor(t)
      BY <1>11, <1>12 DEF AskedFor
    <2>2. Cardinality(AskedFor(t)') = a + 1
      BY <1>7, <1>8, <2>1, FS_AddElement
    <2>3. s >= LessonThreshold
      BY <1>1, <1>8, <1>12 DEF LessonInv, Reached
    <2>4. 0 + LessonThreshold * (a + 1) + 0 <= r
      BY <1>7, <1>8, <1>9, <2>3, Sums
    <2>5. signals'[t] = 0
      BY <1>3, <1>12
    <2> QED BY <1>6, <1>8, <2>2, <2>4, <2>5 DEF Earned
  <1>13. CASE t # Topic
    <2>1. AskedFor(t)' = AskedFor(t)
      BY <1>11, <1>13 DEF AskedFor
    <2>2. s + LessonThreshold * a + 0 <= r
      BY <1>7, <1>8, <1>9, Sums
    <2>3. signals'[t] = s
      BY <1>3, <1>8, <1>13
    <2> QED BY <1>6, <1>8, <2>1, <2>2, <2>3 DEF Earned
  <1> QED BY <1>12, <1>13

\* The learner gives up, or the process dies: what was counted stays.
LEMMA GivenUpEarns ==
    ASSUME MemoryInv, MemoryInv', LessonInv, learner' = Nobody,
           UNCHANGED <<receipts, signals, requested>>
    PROVE  LessonInv'
  <1>1. learner'.step = "idle"
    BY NobodyIs
  <1>2. Reached'
    BY <1>1 DEF Reached
  <1>3. SUFFICES ASSUME NEW t \in TopicSet PROVE Earned(t)'
    BY <1>2 DEF LessonInv, TopicSet
  <1>4. AskedFor(t)' = AskedFor(t) /\ RemarksOn(t)' = RemarksOn(t) /\ Uncounted(t)' = 0
    BY <1>1 DEF AskedFor, RemarksOn, Uncounted
  <1>5. /\ Earned(t) /\ signals[t] \in Nat /\ Cardinality(AskedFor(t)) \in Nat
        /\ Cardinality(RemarksOn(t)) \in Nat /\ Uncounted(t) \in {0, 1}
    BY LessonCounts DEF LessonInv, Uncounted
  <1>6. PICK s, a, r, u : /\ s = signals[t] /\ a = Cardinality(AskedFor(t))
                          /\ r = Cardinality(RemarksOn(t)) /\ u = Uncounted(t)
    OBVIOUS
  <1>7. s + LessonThreshold * a + u <= r
    BY <1>5, <1>6 DEF Earned
  <1>8. s + LessonThreshold * a + 0 <= r
    BY <1>5, <1>6, <1>7, Sums
  <1> QED BY <1>4, <1>6, <1>8 DEF Earned

LEMMA LessonStep ==
    ASSUME MemoryInv, MemoryInv', LessonInv, [Next]_vars
    PROVE  LessonInv'
  <1>1. CASE (SegmentNext /\ UNCHANGED memoryVars) \/ UNCHANGED vars
    <2>1. UNCHANGED memoryVars
      BY <1>1 DEF vars
    <2>2. UNCHANGED learning /\ UNCHANGED requested
      BY <2>1 DEF memoryVars, learning
    <2> QED BY <2>2, LessonsSame DEF NoLesson
  <1>2. CASE Remember \/ Reflect
    BY <1>2, RememberAsks, ReflectAsks, LessonsSame
  <1>3. CASE Learn
    <2>1. CASE LearnFails
      <3>1. learner' = Nobody /\ UNCHANGED <<receipts, signals, requested>>
        BY <2>1 DEF LearnFails
      <3> QED BY <3>1, GivenUpEarns
    <2> QED BY <1>3, <2>1, RecordEarns, ApplyEarns, CountEarns, PersistEarns, PromoteEarns
            DEF Learn
  <1>4. CASE Crash
    <2>1. learner' = Nobody /\ UNCHANGED <<receipts, signals, requested>>
      BY <1>4 DEF Crash
    <2> QED BY <2>1, GivenUpEarns
  <1> QED BY <1>1, <1>2, <1>3, <1>4 DEF Next

LEMMA LessonStart ==
    ASSUME Init
    PROVE  LessonInv
  <1>1. /\ signals = [t \in TopicSet |-> 0] /\ learner = Nobody /\ requested = <<>>
        /\ receipts = [n \in Notes |-> "new"]
    BY DEF Init, TopicSet
  <1>2. Reached
    BY <1>1, NobodyIs DEF Reached
  <1>3. SUFFICES ASSUME NEW t \in TopicSet PROVE Earned(t)
    BY <1>2 DEF LessonInv
  <1>4. AskedFor(t) = {} /\ RemarksOn(t) = {} /\ Uncounted(t) = 0 /\ signals[t] = 0
    BY <1>1, NobodyIs DEF AskedFor, RemarksOn, Uncounted
  <1>5. Cardinality({}) = 0 /\ LessonThreshold \in Nat
    BY FS_EmptySet, MemoryAssumption
  <1> QED BY <1>4, <1>5 DEF Earned

LEMMA LessonsFollow ==
    ASSUME MemoryInv, LessonInv
    PROVE  LessonsEarned
  <1>1. DOMAIN signals = TopicSet
    BY DEF MemoryInv, LearningOK
  <1>2. SUFFICES ASSUME NEW t \in TopicSet
        PROVE  signals[t] + LessonThreshold * Cardinality(AskedFor(t))
                  <= Cardinality(RemarksOn(t))
    BY <1>1 DEF LessonsEarned, AskedFor, RemarksOn
  <1>3. /\ Earned(t) /\ signals[t] \in Nat /\ Cardinality(AskedFor(t)) \in Nat
        /\ Cardinality(RemarksOn(t)) \in Nat /\ Uncounted(t) \in {0, 1}
    BY LessonCounts DEF LessonInv, Uncounted
  <1>4. PICK s, a, r, u : /\ s = signals[t] /\ a = Cardinality(AskedFor(t))
                          /\ r = Cardinality(RemarksOn(t)) /\ u = Uncounted(t)
    OBVIOUS
  <1>5. s + LessonThreshold * a + u <= r
    BY <1>3, <1>4 DEF Earned
  <1>6. s + LessonThreshold * a + 0 <= r /\ LessonThreshold * a \in Nat
    BY <1>3, <1>4, <1>5, Sums
  <1> QED BY <1>3, <1>4, <1>6

(***************************************************************************)
(* A correction counts once, whatever is delivered again or fails between  *)
(* the count and the request to reflect: the remarks applied on a topic    *)
(* are enough for its count and for all the reflections it asked for.      *)
(***************************************************************************)
THEOREM LessonsEarnedAlways == Spec => []LessonsEarned
  <1>1. Init => LessonInv
    BY LessonStart
  <1>2. MemoryInv /\ MemoryInv' /\ LessonInv /\ [Next]_vars => LessonInv'
    BY LessonStep
  <1>3. MemoryInv /\ LessonInv => LessonsEarned
    BY LessonsFollow
  <1> QED BY <1>1, <1>2, <1>3, MemoryInvariant, PTL DEF Spec

-----------------------------------------------------------------------------
(* Memory: the inner state follows from the reflections *)

\* When the narrative was revised, as the reflections tell it.
LastStamp(stories) == IF Len(stories) = 0 THEN 0 ELSE stories[Len(stories)].stamp

StoryOK(stories, i) ==
    /\ stories[i].n \in 1..Len(requested) /\ requested[stories[i].n].done
    /\ stories[i].used \cap unread = {}
    /\ stories[i].base = IF i = 1 THEN 0 ELSE stories[i - 1].stamp

StoriesApart(stories) ==
    \A i, j \in 1..Len(stories) : i # j =>
        /\ stories[i].n # stories[j].n
        /\ stories[i].used \cap stories[j].used = {}

StoriesOK ==
    /\ \A i \in 1..Len(narrative.stories) : StoryOK(narrative.stories, i)
    /\ StoriesApart(narrative.stories)
    /\ narrative.updated = LastStamp(narrative.stories)

InHand == reflector.step # "idle" => ~ requested[reflector.n].done

MoodOK ==
    /\ mood = [shifts |-> mood.shifts, since |-> mood.since]
    /\ mood.since \in Nat /\ mood.shifts = Len(narrative.stories) - mood.since

StoryInv == StoriesOK /\ InHand /\ MoodOK

\* The requests stay as they are, and others may come.
RequestsStay ==
    \A i \in 1..Len(requested) : i \in 1..Len(requested') /\ requested'[i] = requested[i]

\* The requests that are done stay done.
StaysDone ==
    \A i \in 1..Len(requested) :
        i \in 1..Len(requested') /\ (requested[i].done => requested'[i].done)

LEMMA Continuing ==
    ASSUME MemoryInv, UNCHANGED requested \/ \E request : Grown(requested, request, requested')
    PROVE  RequestsStay /\ StaysDone
  <1>1. CASE UNCHANGED requested
    BY <1>1 DEF RequestsStay, StaysDone
  <1>2. CASE \E request : Grown(requested, request, requested')
    <2>1. PICK request : Grown(requested, request, requested')
      BY <1>2
    <2>2. PICK short, long : short = Len(requested) /\ long = Len(requested')
      OBVIOUS
    <2>3. /\ short \in Nat /\ long = short + 1
          /\ \A i \in 1..short : requested'[i] = requested[i]
      BY <2>1, <2>2 DEF Grown
    <2>4. \A i \in 1..short : i \in 1..long
      BY <2>3
    <2> QED BY <2>2, <2>3, <2>4 DEF RequestsStay, StaysDone
  <1> QED BY <1>1, <1>2

LEMMA MarkStaysDone ==
    ASSUME MemoryInv, NEW n \in 1..Len(requested), Marks(n)
    PROVE  StaysDone
  BY DEF Marks, StaysDone

LEMMA StoriesStay ==
    ASSUME MemoryInv, StoriesOK, StaysDone, UNCHANGED <<narrative, unread>>
    PROVE  StoriesOK'
  <1>1. PICK stories : stories = narrative.stories
    OBVIOUS
  <1>2. ASSUME NEW i \in 1..Len(stories) PROVE StoryOK(stories, i)'
    <2>1. StoryOK(stories, i)
      BY <1>1 DEF StoriesOK
    <2> QED BY <2>1 DEF StoryOK, StaysDone
  <1>3. narrative'.stories = stories /\ narrative'.updated = narrative.updated
    BY <1>1
  <1> QED BY <1>1, <1>2, <1>3 DEF StoriesOK

\* The reflection in hand and the mood stay, too.
LEMMA StorySame ==
    ASSUME MemoryInv, StoryInv, RequestsStay, StaysDone,
           UNCHANGED <<narrative, unread, mood, reflector>>
    PROVE  StoryInv'
  <1>1. StoriesOK'
    BY StoriesStay DEF StoryInv
  <1>2. InHand'
    <2>1. SUFFICES ASSUME reflector.step # "idle" PROVE ~ requested'[reflector.n].done
      BY DEF InHand
    <2>2. reflector.n \in 1..Len(requested) /\ ~ requested[reflector.n].done
      BY <2>1, ReflectorIs DEF StoryInv, InHand
    <2> QED BY <2>2 DEF RequestsStay
  <1>3. MoodOK'
    BY DEF StoryInv, MoodOK
  <1> QED BY <1>1, <1>2, <1>3 DEF StoryInv

LEMMA StoryRests ==
    ASSUME MemoryInv, StoryInv, StaysDone, UNCHANGED <<narrative, unread>>,
           reflector' = AtRest, MoodOK'
    PROVE  StoryInv'
  <1>1. StoriesOK'
    BY StoriesStay DEF StoryInv
  <1>2. InHand'
    BY AtRestIs DEF InHand
  <1> QED BY <1>1, <1>2 DEF StoryInv

LEMMA StoryBegins ==
    ASSUME MemoryInv, StoryInv, NEW n \in DOMAIN requested, BeginReflection(n)
    PROVE  StoryInv'
  <1>1. /\ ~ requested[n].done /\ UNCHANGED requested /\ UNCHANGED <<narrative, unread, mood>>
    BY DEF BeginReflection
  <1>2. reflector'.n = n
    BY BeginKept
  <1>3. StoriesOK'
    BY <1>1, Continuing, StoriesStay DEF StoryInv
  <1> QED BY <1>1, <1>2, <1>3 DEF StoryInv, InHand, MoodOK

LEMMA StoryPlanned ==
    ASSUME MemoryInv, StoryInv, PlanReflection
    PROVE  StoryInv'
  <1>1. /\ UNCHANGED requested /\ UNCHANGED <<narrative, unread, mood>>
    BY DEF PlanReflection
  <1>2. reflector'.n = reflector.n /\ reflector.step = "thinking"
    BY PlanKept
  <1>3. StoriesOK'
    BY <1>1, Continuing, StoriesStay DEF StoryInv
  <1> QED BY <1>1, <1>2, <1>3 DEF StoryInv, InHand, MoodOK

LEMMA StorySkipped ==
    ASSUME MemoryInv, StoryInv, NEW n \in DOMAIN requested, SkipReflection(n)
    PROVE  StoryInv'
  <1>1. /\ reflector = AtRest /\ UNCHANGED <<narrative, unread, mood, reflector>>
    BY DEF SkipReflection, reflecting
  <1>2. StaysDone
    BY SkipKept, MarkStaysDone
  <1>3. MoodOK'
    BY <1>1 DEF StoryInv, MoodOK
  <1> QED BY <1>1, <1>2, <1>3, StoryRests

LEMMA StoryCommitted ==
    ASSUME MemoryInv, MemoryInv', StoryInv, CommitReflection
    PROVE  StoryInv'
  <1>1. PICK story \in StorySet :
           /\ reflector.step = "planned" /\ Marks(reflector.n)
           /\ story.n = reflector.n /\ story.base = reflector.base
           /\ story.stamp = reflector.stamp /\ story.used = reflector.used
           /\ Grown(narrative.stories, story, narrative'.stories)
           /\ narrative'.updated = reflector.stamp
           /\ unread' = unread \ reflector.used /\ reflector' = AtRest
    BY CommitReflectionKept
  <1>2. /\ narrative.updated = reflector.base /\ reflector.used \subseteq unread
        /\ mood' = [mood EXCEPT !.shifts = @ + 1]
    BY DEF CommitReflection, SameNarrative, StillUnread
  <1>3. reflector.n \in 1..Len(requested) /\ ~ requested[reflector.n].done
    BY <1>1, ReflectorIs DEF StoryInv, InHand
  <1>4. PICK old, new, last : /\ old = narrative.stories /\ new = narrative'.stories
                              /\ last = Len(old) + 1
    OBVIOUS
  <1>5. /\ Len(old) \in Nat /\ Len(new) = last /\ new[last] = story /\ last \in Nat
        /\ \A i \in 1..Len(old) : new[i] = old[i]
        /\ \A i \in 1..Len(new) : i \in 1..Len(old) \/ i = last
    BY <1>1, <1>4 DEF Grown
  <1>6. \A i \in 1..Len(old) : StoryOK(old, i)
    BY <1>4 DEF StoryInv, StoriesOK
  <1>7. StaysDone /\ reflector.n \in 1..Len(requested') /\ requested'[reflector.n].done
    BY <1>1, <1>3, MarkStaysDone DEF Marks, StaysDone
  <1>8. ASSUME NEW i \in 1..Len(old) PROVE StoryOK(new, i)'
    <2>1. StoryOK(old, i) /\ new[i] = old[i]
      BY <1>5, <1>6
    <2>2. i # 1 => new[i - 1] = old[i - 1]
      BY <1>5
    <2>3. new[i].n \in 1..Len(requested') /\ requested'[new[i].n].done
      BY <1>7, <2>1 DEF StoryOK, StaysDone
    <2>4. new[i].used \cap unread' = {}
      BY <1>1, <2>1 DEF StoryOK
    <2>5. new[i].base = IF i = 1 THEN 0 ELSE new[i - 1].stamp
      BY <2>1, <2>2 DEF StoryOK
    <2> QED BY <2>3, <2>4, <2>5 DEF StoryOK
  <1>9. StoryOK(new, last)'
    <2>1. new[last].base = IF last = 1 THEN 0 ELSE new[last - 1].stamp
      <3>1. narrative.updated = LastStamp(old)
        BY <1>4 DEF StoryInv, StoriesOK
      <3>2. CASE Len(old) = 0
        <4>1. last = 1 /\ LastStamp(old) = 0
          BY <1>4, <3>2 DEF LastStamp
        <4> QED BY <1>1, <1>2, <1>5, <3>1, <4>1
      <3>3. CASE Len(old) # 0
        <4>1. last # 1 /\ last - 1 = Len(old) /\ Len(old) \in 1..Len(old)
          BY <1>4, <1>5, <3>3
        <4>2. new[last - 1] = old[Len(old)] /\ LastStamp(old) = old[Len(old)].stamp
          BY <1>5, <3>3, <4>1 DEF LastStamp
        <4> QED BY <1>1, <1>2, <1>5, <3>1, <4>1, <4>2
      <3> QED BY <3>2, <3>3
    <2>2. new[last].used \cap unread' = {} /\ new[last].n = reflector.n
      BY <1>1, <1>5
    <2> QED BY <1>7, <2>1, <2>2 DEF StoryOK
  <1>10. StoriesApart(new)
    <2>1. \A i \in 1..Len(old) : new[i].n # story.n /\ new[i].used \cap story.used = {}
      <3>1. \A i \in 1..Len(old) : requested[old[i].n].done /\ old[i].used \cap unread = {}
        BY <1>6 DEF StoryOK
      <3> QED BY <1>1, <1>2, <1>3, <1>5, <3>1
    <2>2. StoriesApart(old)
      BY <1>4 DEF StoryInv, StoriesOK
    <2>3. ASSUME NEW i \in 1..Len(new), NEW j \in 1..Len(new), i # j
          PROVE  new[i].n # new[j].n /\ new[i].used \cap new[j].used = {}
      <3>1. CASE i \in 1..Len(old) /\ j \in 1..Len(old)
        BY <1>5, <2>2, <2>3, <3>1 DEF StoriesApart
      <3>2. CASE i = last /\ j \in 1..Len(old)
        BY <1>5, <2>1, <3>2
      <3>3. CASE j = last /\ i \in 1..Len(old)
        BY <1>5, <2>1, <3>3
      <3> QED BY <1>5, <2>3, <3>1, <3>2, <3>3
    <2> QED BY <2>3 DEF StoriesApart
  <1>11. narrative'.updated = LastStamp(new)
    BY <1>1, <1>4, <1>5 DEF LastStamp
  <1>12. StoriesOK'
    <2>1. \A i \in 1..Len(new) : StoryOK(new, i)'
      BY <1>5, <1>8, <1>9
    <2> QED BY <1>4, <1>10, <1>11, <2>1 DEF StoriesOK
  <1>13. InHand'
    BY <1>1, AtRestIs DEF InHand
  <1>14. MoodOK'
    <2>1. PICK was : was = mood
      OBVIOUS
    <2>2. was = [shifts |-> was.shifts, since |-> was.since] /\ was.since \in Nat
          /\ was.shifts = Len(old) - was.since
      BY <1>4, <2>1 DEF StoryInv, MoodOK
    <2>3. mood' = [was EXCEPT !.shifts = was.shifts + 1]
      BY <1>2, <2>1
    <2>4. mood' = [shifts |-> was.shifts + 1, since |-> was.since]
      BY <2>2, <2>3
    <2>5. was.shifts + 1 = Len(new) - was.since
      BY <1>4, <1>5, <2>2
    <2> QED BY <1>4, <2>2, <2>4, <2>5 DEF MoodOK
  <1> QED BY <1>12, <1>13, <1>14 DEF StoryInv

\* What the steps of the conversation, the requests and the remarks leave alone.
LEMMA ReflectionAside ==
    ASSUME MemoryInv, (SegmentNext /\ UNCHANGED memoryVars) \/ UNCHANGED vars \/ Remember \/ Learn
    PROVE  /\ UNCHANGED reflecting
           /\ UNCHANGED requested \/ \E request : Grown(requested, request, requested')
  <1>1. CASE (SegmentNext /\ UNCHANGED memoryVars) \/ UNCHANGED vars
    <2>1. UNCHANGED memoryVars
      BY <1>1 DEF vars
    <2> QED BY <2>1 DEF memoryVars, reflecting
  <1>2. CASE Remember
    BY <1>2, RememberAsks DEF Contradicted
  <1>3. CASE Learn
    <2>1. UNCHANGED reflecting
      BY <1>3 DEF Learn, RecordFeedback, ApplyFeedback, CountCorrection, PersistLesson,
                  PromoteLesson, LearnFails
    <2>2. CASE PromoteLesson
      BY <2>1, <2>2, PromoteKept
    <2>3. CASE ~ PromoteLesson
      <3>1. UNCHANGED requested
        BY <1>3, <2>3 DEF Learn, RecordFeedback, ApplyFeedback, CountCorrection,
                          PersistLesson, LearnFails
      <3> QED BY <2>1, <3>1
    <2> QED BY <2>2, <2>3
  <1> QED BY <1>1, <1>2, <1>3

LEMMA StoryStep ==
    ASSUME MemoryInv, MemoryInv', StoryInv, [Next]_vars
    PROVE  StoryInv'
  <1>1. CASE (SegmentNext /\ UNCHANGED memoryVars) \/ UNCHANGED vars \/ Remember \/ Learn
    <2>1. UNCHANGED reflecting /\ RequestsStay /\ StaysDone
      BY <1>1, ReflectionAside, Continuing
    <2>2. UNCHANGED <<narrative, unread, mood, reflector>>
      BY <2>1 DEF reflecting
    <2> QED BY <2>1, <2>2, StorySame
  <1>2. CASE CheckReflect \/ \E reason \in {"idle_activity", "reading_revisit"} :
                                AskReflection(reason)
    <2>1. UNCHANGED <<narrative, unread, mood, reflector>>
      BY <1>2 DEF CheckReflect, AskReflection, reflecting
    <2>2. RequestsStay /\ StaysDone
      BY <1>2, Asks, Continuing
    <2> QED BY <2>1, <2>2, StorySame
  <1>3. CASE ReflectionFails \/ RejectReflection
    <2>1. reflector' = AtRest /\ UNCHANGED <<requested, narrative, unread, mood>>
      BY <1>3, GiveUpKept
    <2>2. StaysDone /\ MoodOK'
      BY <2>1, Continuing DEF StoryInv, MoodOK
    <2> QED BY <2>1, <2>2, StoryRests
  <1>4. CASE Crash
    <2>1. /\ mood' = [shifts |-> 0, since |-> Len(narrative.stories)]
          /\ reflector' = AtRest /\ UNCHANGED <<requested, narrative, unread>>
      BY <1>4 DEF Crash
    <2>2. Len(narrative.stories) \in Nat
      BY DEF MemoryInv, ReflectingOK
    <2>3. MoodOK'
      BY <2>1, <2>2 DEF MoodOK
    <2>4. StaysDone
      BY <2>1, Continuing
    <2> QED BY <2>1, <2>3, <2>4, StoryRests
  <1>5. CASE \E n \in DOMAIN requested : SkipReflection(n) \/ BeginReflection(n)
    BY <1>5, StorySkipped, StoryBegins
  <1>6. CASE PlanReflection
    BY <1>6, StoryPlanned
  <1>7. CASE CommitReflection
    BY <1>7, StoryCommitted
  <1> QED BY <1>1, <1>2, <1>3, <1>4, <1>5, <1>6, <1>7 DEF Next, Reflect

LEMMA StoryStart ==
    ASSUME Init
    PROVE  StoryInv
  <1>1. /\ narrative = [updated |-> 0, when |-> 0, reviewed |-> {}, stories |-> <<>>]
        /\ mood = [shifts |-> 0, since |-> 0] /\ reflector = AtRest
    BY DEF Init
  <1>2. narrative.stories = <<>> /\ narrative.updated = 0
    BY <1>1
  <1>3. StoriesOK
    BY <1>2 DEF StoriesOK, StoriesApart, LastStamp
  <1>4. InHand
    BY <1>1, AtRestIs DEF InHand
  <1>5. MoodOK
    BY <1>1, <1>2 DEF MoodOK
  <1> QED BY <1>3, <1>4, <1>5 DEF StoryInv

LEMMA StoriesFollow ==
    ASSUME MemoryInv, StoryInv
    PROVE  InnerStateFollows
  <1>1. PICK stories : stories = narrative.stories
    OBVIOUS
  <1>2. DOMAIN stories = 1..Len(stories)
    BY <1>1 DEF MemoryInv, ReflectingOK
  <1>3. \A i \in DOMAIN stories : StoryOK(stories, i)
    BY <1>1, <1>2 DEF StoryInv, StoriesOK
  <1>4. \A i \in DOMAIN stories : \A j \in DOMAIN stories : i # j =>
           stories[i].n # stories[j].n /\ stories[i].used \cap stories[j].used = {}
    BY <1>1, <1>2 DEF StoryInv, StoriesOK, StoriesApart
  <1>5. mood.shifts = Len(stories) - mood.since
    BY <1>1 DEF StoryInv, MoodOK
  <1>6. \A i \in DOMAIN stories :
             /\ requested[stories[i].n].done
             /\ stories[i].used \cap unread = {}
             /\ stories[i].base = IF i = 1 THEN 0 ELSE stories[i - 1].stamp
    BY <1>3 DEF StoryOK
  <1> QED BY <1>1, <1>4, <1>5, <1>6 DEF InnerStateFollows

(***************************************************************************)
(* Whatever fails, is rejected or is delivered again, no request shapes    *)
(* the inner state twice, each reflection starts from the narrative the    *)
(* one before it left, and no passage forms the taste in two of them.      *)
(***************************************************************************)
THEOREM InnerStateFollowsAlways == Spec => []InnerStateFollows
  <1>1. Init => StoryInv
    BY StoryStart
  <1>2. MemoryInv /\ MemoryInv' /\ StoryInv /\ [Next]_vars => StoryInv'
    BY StoryStep
  <1>3. MemoryInv /\ StoryInv => InnerStateFollows
    BY StoriesFollow
  <1> QED BY <1>1, <1>2, <1>3, MemoryInvariant, PTL DEF Spec

-----------------------------------------------------------------------------
(* Memory: no id is given away twice *)

\* Before its commit a request has left nothing.
Early == {"asked", "known", "composed", "listed"}

LessonBorn(n) ==
    receipts[n] = "applied" /\ ~ (learner.note = n /\ learner.step \in {"count", "persist"})

\* The ids that were given away: what has such an id is never made again.
Born(id) ==
    \/ \E w \in Writers : id = Made(w) /\ writers[w].step \notin Early
    \/ \E n \in Notes : id = LessonOf(n) /\ LessonBorn(n)
    \/ \E n \in 1..Len(requested) : id = RecordOf(n) /\ requested[n].done

Uncommitted == {"asked", "known", "composed"}

\* What an event asked for is marked in the transaction that leaves it.
Marking == \A w \in Writers : Durable(w) /\ writers[w].step \notin Uncommitted => w \in marked

IdsBorn == \A m \in memories : Born(m.id)

IdsApart == \A m, o \in memories : m.id = o.id => m = o

NearBorn == \A w \in Writers : \A id \in writers[w].near : Born(id)

AboutBorn == \A i \in 1..Len(requested) : \A id \in requested[i].about : Born(id)

\* What is listed to be dropped does not last, nor does it come again.
DropsFade ==
    \A w \in Writers : writers[w].step = "drop" =>
        \A id \in writers[w].held :
            Born(id) /\ \A m \in memories : m.id = id => ~ m.lasting

BirthInv == Marking /\ IdsBorn /\ IdsApart /\ NearBorn /\ AboutBorn /\ DropsFade

\* What was given away stays so.
BornStays == \A id : Born(id) => Born(id)'

\* Rows go, or one comes whose id nobody had.
RowsGrow ==
    \/ memories' \subseteq memories
    \/ \E row : /\ memories' = memories \cup {row}
                /\ ~ Born(row.id) /\ Born(row.id)'

WritersStay == \A w \in Writers : writers[w].step \notin Early => writers'[w].step \notin Early

LessonsStay == \A n \in Notes : LessonBorn(n) => LessonBorn(n)'

NearStays == \A w \in Writers : writers'[w].near \subseteq writers[w].near \cup Ids

DropStays ==
    \A w \in Writers : writers'[w].step = "drop" =>
        \/ writers[w].step = "drop" /\ writers'[w].held = writers[w].held
        \/ writers'[w].held \subseteq Passing /\ UNCHANGED memories

LEMMA IdsDiffer ==
    ASSUME NEW x, NEW y
    PROVE  /\ Made(x) = Made(y) => x = y
           /\ LessonOf(x) = LessonOf(y) => x = y
           /\ RecordOf(x) = RecordOf(y) => x = y
           /\ Made(x) # LessonOf(y) /\ Made(x) # RecordOf(y) /\ LessonOf(x) # RecordOf(y)
  BY DEF Made, LessonOf, RecordOf

LEMMA BirthsStay ==
    ASSUME WritersStay, LessonsStay, StaysDone
    PROVE  BornStays
  BY DEF WritersStay, LessonsStay, StaysDone, BornStays, Born

LEMMA IdsFollow ==
    ASSUME BirthInv, BornStays, RowsGrow
    PROVE  IdsBorn' /\ IdsApart'
  <1>1. IdsBorn /\ IdsApart
    BY DEF BirthInv
  <1>2. CASE memories' \subseteq memories
    BY <1>1, <1>2 DEF IdsBorn, IdsApart, BornStays
  <1>3. CASE \E row : /\ memories' = memories \cup {row}
                      /\ ~ Born(row.id) /\ Born(row.id)'
    <2>1. PICK row : /\ memories' = memories \cup {row}
                     /\ ~ Born(row.id) /\ Born(row.id)'
      BY <1>3
    <2>2. IdsBorn'
      BY <1>1, <2>1 DEF IdsBorn, BornStays
    <2>3. \A m \in memories : m.id # row.id
      BY <1>1, <2>1 DEF IdsBorn
    <2>4. IdsApart'
      BY <1>1, <2>1, <2>3 DEF IdsApart
    <2> QED BY <2>2, <2>4
  <1> QED BY <1>2, <1>3 DEF RowsGrow

LEMMA NearFollows ==
    ASSUME BirthInv, BornStays, NearStays
    PROVE  NearBorn'
  <1>1. SUFFICES ASSUME NEW w \in Writers, NEW id \in writers'[w].near PROVE Born(id)'
    BY DEF NearBorn
  <1>2. id \in writers[w].near \/ \E m \in memories : m.id = id
    BY DEF NearStays, Ids, IdsOf
  <1>3. Born(id)
    BY <1>2 DEF BirthInv, NearBorn, IdsBorn
  <1> QED BY <1>3 DEF BornStays

LEMMA DropsFollow ==
    ASSUME BirthInv, BornStays, RowsGrow, DropStays
    PROVE  DropsFade'
  <1>1. SUFFICES ASSUME NEW w \in Writers, writers'[w].step = "drop",
                        NEW id \in writers'[w].held
                 PROVE  Born(id)' /\ \A m \in memories' : m.id = id => ~ m.lasting
    BY DEF DropsFade
  <1>2. CASE writers[w].step = "drop" /\ writers'[w].held = writers[w].held
    <2>1. Born(id) /\ \A m \in memories : m.id = id => ~ m.lasting
      BY <1>1, <1>2 DEF BirthInv, DropsFade
    <2>2. \A m \in memories' : m.id = id => m \in memories
      BY <2>1 DEF RowsGrow
    <2> QED BY <2>1, <2>2 DEF BornStays
  <1>3. CASE writers'[w].held \subseteq Passing /\ UNCHANGED memories
    <2>1. PICK m \in memories : m.id = id /\ ~ m.lasting
      BY <1>1, <1>3 DEF Passing, IdsOf
    <2>2. \A o \in memories : o.id = id => ~ o.lasting
      BY <2>1 DEF BirthInv, IdsApart
    <2>3. Born(id)
      BY <2>1 DEF BirthInv, IdsBorn
    <2> QED BY <1>3, <2>2, <2>3 DEF BornStays
  <1> QED BY <1>1, <1>2, <1>3 DEF DropStays

\* The requests stay, one is done, or one comes that names what is there.
AboutStays ==
    \/ UNCHANGED requested
    \/ \E request : /\ Grown(requested, request, requested')
                    /\ \A id \in request.about : Born(id)'
    \/ \E n \in 1..Len(requested) : Marks(n)

LEMMA AboutFollows ==
    ASSUME MemoryInv, BirthInv, BornStays, AboutStays
    PROVE  AboutBorn'
  <1>1. \A i \in 1..Len(requested) : \A id \in requested[i].about : Born(id)'
    BY DEF BirthInv, AboutBorn, BornStays
  <1>2. CASE UNCHANGED requested
    BY <1>1, <1>2 DEF AboutBorn
  <1>3. CASE \E request : /\ Grown(requested, request, requested')
                          /\ \A id \in request.about : Born(id)'
    <2>1. PICK request : /\ Grown(requested, request, requested')
                         /\ \A id \in request.about : Born(id)'
      BY <1>3
    <2>2. \A i \in 1..Len(requested') : requested'[i].about = request.about
             \/ (i \in 1..Len(requested) /\ requested'[i] = requested[i])
      BY <2>1 DEF Grown
    <2> QED BY <1>1, <2>1, <2>2 DEF AboutBorn
  <1>4. CASE \E n \in 1..Len(requested) : Marks(n)
    <2>1. PICK n \in 1..Len(requested) : Marks(n)
      BY <1>4
    <2>2. \A i \in 1..Len(requested') : i \in 1..Len(requested)
             /\ requested'[i].about = requested[i].about
      BY <2>1 DEF Marks
    <2> QED BY <1>1, <2>2 DEF AboutBorn
  <1> QED BY <1>2, <1>3, <1>4 DEF AboutStays

LEMMA BirthFollows ==
    ASSUME MemoryInv, BirthInv, BornStays, RowsGrow, NearStays, DropStays, AboutStays,
           Marking'
    PROVE  BirthInv'
  BY IdsFollow, NearFollows, DropsFollow, AboutFollows DEF BirthInv

\* When one request to remember goes on.
LEMMA OneStays ==
    ASSUME Marking, NEW w \in Writers, Beside(w),
           writers[w].step \in Early \/ writers'[w].step \notin Early,
           marked \subseteq marked',
           \/ w \in marked' \/ ~ Durable(w) \/ writers'[w].step \in Uncommitted
           \/ writers[w].step \notin Uncommitted
    PROVE  WritersStay /\ Marking'
  <1>1. WritersStay
    BY DEF WritersStay, Beside
  <1>2. Marking'
    <2>1. SUFFICES ASSUME NEW v \in Writers, Durable(v), writers'[v].step \notin Uncommitted
                   PROVE  v \in marked'
      BY DEF Marking, Durable
    <2>2. CASE v # w
      BY <2>1, <2>2 DEF Marking, Beside
    <2>3. CASE v = w
      BY <2>1, <2>3 DEF Marking
    <2> QED BY <2>2, <2>3
  <1> QED BY <1>1, <1>2

LEMMA OneNears ==
    ASSUME NEW w \in Writers, Beside(w), writers'[w].near \subseteq writers[w].near \cup Ids,
           writers'[w].step # "drop"
    PROVE  NearStays /\ DropStays
  <1>1. NearStays
    BY DEF NearStays, Beside
  <1>2. DropStays
    BY DEF DropStays, Beside
  <1> QED BY <1>1, <1>2

LEMMA MadeBorn ==
    ASSUME NEW w \in Writers
    PROVE  Born(Made(w)) <=> writers[w].step \notin Early
  <1>1. ASSUME Born(Made(w)) PROVE writers[w].step \notin Early
    <2>1. PICK v \in Writers : Made(w) = Made(v) /\ writers[v].step \notin Early
      BY <1>1, IdsDiffer DEF Born
    <2> QED BY <2>1, IdsDiffer
  <1>2. ASSUME writers[w].step \notin Early PROVE Born(Made(w))
    BY <1>2 DEF Born
  <1> QED BY <1>1, <1>2

LEMMA LessonOfBorn ==
    ASSUME NEW n \in Notes
    PROVE  Born(LessonOf(n)) <=> LessonBorn(n)
  <1>1. ASSUME Born(LessonOf(n)) PROVE LessonBorn(n)
    <2>1. PICK m \in Notes : LessonOf(n) = LessonOf(m) /\ LessonBorn(m)
      BY <1>1, IdsDiffer DEF Born
    <2> QED BY <2>1, IdsDiffer
  <1>2. ASSUME LessonBorn(n) PROVE Born(LessonOf(n))
    BY <1>2 DEF Born
  <1> QED BY <1>1, <1>2

LEMMA RecordBorn ==
    ASSUME NEW n \in 1..Len(requested)
    PROVE  Born(RecordOf(n)) <=> requested[n].done
  <1>1. ASSUME Born(RecordOf(n)) PROVE requested[n].done
    <2>1. PICK m \in 1..Len(requested) : RecordOf(n) = RecordOf(m) /\ requested[m].done
      BY <1>1, IdsDiffer DEF Born
    <2> QED BY <2>1, IdsDiffer
  <1>2. ASSUME requested[n].done PROVE Born(RecordOf(n))
    BY <1>2 DEF Born
  <1> QED BY <1>1, <1>2

\* What a request to remember does to the ids.
Goes == WritersStay /\ Marking' /\ NearStays /\ DropStays /\ RowsGrow

LEMMA KeepGoes ==
    ASSUME MemoryInv, BirthInv, NEW w \in Writers, NEW twins, NEW near \in SUBSET MemoryIds,
           NEW kept, near \subseteq writers[w].near \cup Ids, Keep(w, twins, near, kept),
           writers[w].step \in {"composed", "listed"}, marked \subseteq marked',
           w \in marked' \/ ~ Durable(w)
    PROVE  Goes
  <1>1. \/ UNCHANGED memories /\ Beside(w) /\ writers'[w] = Finished
        \/ /\ \E row : row.id = Made(w) /\ memories' = memories \cup {row}
           /\ Beside(w)
           /\ writers'[w] = Finished
              \/ (writers'[w].step = "link" /\ writers'[w].near = near)
    <2>1. CASE Ends(w) /\ UNCHANGED <<known, memories>>
      BY <2>1 DEF Ends
    <2>2. CASE /\ Add(Row(Made(w), writers[w].content, Asked[w].kind, Asked[w].source,
                          Asked[w].lasting, writers[w].since))
               /\ \/ Ends(w)
                  \/ Moves(w, "link", near, writers[w].held, writers[w].linked)
      <3>1. PICK row : row = Row(Made(w), writers[w].content, Asked[w].kind, Asked[w].source,
                                 Asked[w].lasting, writers[w].since)
        OBVIOUS
      <3>2. row.id = Made(w)
        BY <3>1 DEF Row
      <3>3. memories' = memories \cup {row}
        BY <2>2, <3>1 DEF Add
      <3>4. /\ Beside(w)
            /\ writers'[w] = Finished
               \/ (writers'[w].step = "link" /\ writers'[w].near = near)
        BY <2>2 DEF Ends, Moves
      <3> QED BY <3>2, <3>3, <3>4
    <2> QED BY <2>1, <2>2, KeepMoves
  <1>2. /\ Beside(w) /\ writers'[w].step \in {"done", "link"}
        /\ writers'[w].near \subseteq writers[w].near \cup Ids
    BY <1>1, WorkingOK
  <1>3. WritersStay /\ Marking'
    <2>1. writers'[w].step \notin Early
      BY <1>2 DEF Early
    <2> QED BY <1>2, <2>1, OneStays DEF BirthInv
  <1>4. NearStays /\ DropStays
    <2>1. writers'[w].step # "drop"
      BY <1>2
    <2> QED BY <1>2, <2>1, OneNears
  <1>5. RowsGrow
    <2>1. ~ Born(Made(w))
      BY MadeBorn DEF Early
    <2>2. Born(Made(w))'
      <3>1. writers'[w].step \notin Early
        BY <1>2 DEF Early
      <3> QED BY <3>1 DEF Born
    <2>3. CASE UNCHANGED memories
      BY <2>3 DEF RowsGrow
    <2>4. CASE \E row : row.id = Made(w) /\ memories' = memories \cup {row}
      BY <2>1, <2>2, <2>4 DEF RowsGrow
    <2> QED BY <1>1, <2>3, <2>4
  <1> QED BY <1>3, <1>4, <1>5 DEF Goes

\* The rows stay, or fewer stay.
LEMMA OneGoes ==
    ASSUME BirthInv, NEW w \in Writers, Beside(w), memories' \subseteq memories,
           writers[w].step \in Early \/ writers'[w].step \notin Early,
           marked \subseteq marked',
           \/ w \in marked' \/ ~ Durable(w) \/ writers'[w].step \in Uncommitted
           \/ writers[w].step \notin Uncommitted,
           writers'[w].near \subseteq writers[w].near \cup Ids, writers'[w].step # "drop"
    PROVE  Goes
  BY OneStays, OneNears DEF BirthInv, Goes, RowsGrow

LEMMA Remembering ==
    ASSUME MemoryInv, BirthInv, Remember
    PROVE  Goes
  <1>1. PICK w \in Writers :
           \/ Compose(w) \/ CommitKnown(w) \/ CommitDurable(w) \/ WriterFails(w)
           \/ StartDirect(w) \/ CommitDirect(w) \/ ChooseLinks(w) \/ LinkOne(w)
           \/ Prune(w) \/ JudgeContradiction(w) \/ ListOverflow(w) \/ DropListed(w)
    BY DEF Remember
  <1>2. CASE Compose(w)
    <2>1. /\ UNCHANGED memories /\ UNCHANGED marked /\ writers[w].step = "asked"
      BY <1>2 DEF Compose, rows
    <2>2. /\ Beside(w) /\ writers'[w].step \in {"composed", "known"}
          /\ writers'[w].near = writers[w].near
      BY <1>2, ComposeMoves
    <2>3. writers[w].step \in Early /\ writers'[w].step \in Uncommitted
          /\ writers'[w].step # "drop"
      BY <2>1, <2>2 DEF Early, Uncommitted
    <2> QED BY <2>1, <2>2, <2>3, OneGoes
  <1>3. CASE CommitKnown(w)
    <2>1. /\ UNCHANGED memories /\ writers[w].step = "known"
      BY <1>3 DEF CommitKnown, rows
    <2>2. Beside(w) /\ writers'[w] = Finished /\ marked' = marked \cup {w}
      BY <1>3, CommitKnownMoves DEF Ends
    <2>3. /\ writers[w].step \in Early /\ writers'[w].step # "drop"
          /\ writers'[w].near = {}
      BY <2>1, <2>2, WorkingOK DEF Early
    <2> QED BY <2>1, <2>2, <2>3, OneGoes
  <1>4. CASE CommitDurable(w)
    <2>1. writers[w].step = "composed" /\ marked' = marked \cup {w}
      BY <1>4 DEF CommitDurable
    <2>2. PICK near \in SUBSET Ids : \E twins, kept :
             /\ near \in SUBSET MemoryIds
             /\ Keep(w, twins, near, kept)
      BY <1>4, CommitDurableMoves
    <2>4. /\ marked \subseteq marked' /\ w \in marked' /\ near \in SUBSET MemoryIds
          /\ near \subseteq writers[w].near \cup Ids
          /\ writers[w].step \in {"composed", "listed"}
      BY <2>1, <2>2
    <2>5. PICK twins, kept : Keep(w, twins, near, kept)
      BY <2>2
    <2> QED BY <2>4, <2>5, KeepGoes
  <1>5. CASE WriterFails(w)
    <2>1. /\ UNCHANGED memories /\ UNCHANGED marked
          /\ writers[w].step \in {"composed", "known"}
      BY <1>5 DEF WriterFails, rows
    <2>2. Beside(w) /\ writers'[w] = Working
      BY <1>5, WriterFailsMoves
    <2>3. /\ writers[w].step \in Early /\ writers'[w].step # "drop"
          /\ writers'[w].near = {} /\ writers'[w].step \in Uncommitted
      BY <2>1, <2>2, WorkingOK DEF Early, Uncommitted
    <2> QED BY <2>1, <2>2, <2>3, OneGoes
  <1>6. CASE StartDirect(w)
    <2>1. /\ UNCHANGED marked /\ writers[w].step = "asked" /\ ~ Durable(w)
      BY <1>6 DEF StartDirect
    <2>2. /\ UNCHANGED memories /\ Beside(w) /\ writers'[w].step \in {"done", "listed"}
          /\ writers'[w].near \subseteq Ids
      <3>1. PICK content :
              \/ /\ \E m : Touched(m, w, content)
                 /\ Ends(w)
              \/ /\ UNCHANGED rows /\ Beside(w)
                 /\ writers'[w].step = "listed" /\ writers'[w].near = Candidates(content)
        BY <1>6, StartMoves
      <3> QED BY <3>1, WorkingOK, CandidatesAre DEF Ends, Touched, rows
    <2>3. writers[w].step \in Early /\ writers'[w].step # "drop"
      BY <2>1, <2>2 DEF Early
    <2> QED BY <2>1, <2>2, <2>3, OneGoes
  <1>7. CASE CommitDirect(w)
    <2>1. writers[w].step = "listed" /\ marked' = marked /\ ~ Durable(w)
      BY <1>7, FitsIs DEF CommitDirect
    <2>2. PICK near \in SUBSET MemoryIds : \E kept :
             near = writers[w].near /\ Keep(w, FoundAgain(w), near, kept)
      BY <1>7, CommitDirectMoves
    <2>3. PICK twins, kept : twins = FoundAgain(w) /\ Keep(w, twins, near, kept)
      BY <2>2
    <2>4. /\ marked \subseteq marked' /\ near \subseteq writers[w].near \cup Ids
          /\ writers[w].step \in {"composed", "listed"}
      BY <2>1, <2>2
    <2> QED BY <2>1, <2>3, <2>4, KeepGoes
  <1>8. CASE ChooseLinks(w) \/ LinkOne(w) \/ Prune(w) \/ JudgeContradiction(w)
    <2>1. /\ UNCHANGED memories /\ UNCHANGED marked
          /\ writers[w].step \in {"link", "linking", "judge"}
      BY <1>8 DEF ChooseLinks, LinkOne, Prune, JudgeContradiction, rows
    <2>2. /\ Beside(w) /\ writers'[w].step \in {"linking", "judge", "settle"}
          /\ writers'[w].near \subseteq writers[w].near
      BY <1>8, ChooseMoves, LinkMoves, PruneMoves, JudgeMoves DEF Moves
    <2>3. writers'[w].step \notin Early /\ writers'[w].step # "drop"
          /\ writers[w].step \notin Uncommitted
      BY <2>1, <2>2 DEF Early, Uncommitted
    <2> QED BY <2>1, <2>2, <2>3, OneGoes
  <1>9. CASE ListOverflow(w)
    <2>1. /\ UNCHANGED memories /\ UNCHANGED marked /\ writers[w].step = "settle"
      BY <1>9 DEF ListOverflow, rows
    <2>2. PICK held \in SUBSET Passing :
             Moves(w, "drop", writers[w].near, held, writers[w].linked)
      BY <1>9, ListMoves
    <2>3. writers'[w].step \notin Early /\ writers[w].step \notin Uncommitted /\ Beside(w)
      BY <2>1, <2>2 DEF Early, Uncommitted, Moves
    <2>4. WritersStay /\ Marking'
      BY <2>1, <2>3, OneStays DEF BirthInv
    <2>5. NearStays
      BY <2>2 DEF NearStays, Moves, Beside
    <2>6. DropStays
      BY <2>1, <2>2 DEF DropStays, Moves, Beside
    <2> QED BY <2>1, <2>4, <2>5, <2>6 DEF Goes, RowsGrow
  <1>10. CASE DropListed(w)
    <2>1. /\ UNCHANGED marked /\ writers[w].step = "drop"
      BY <1>10 DEF DropListed
    <2>2. Beside(w) /\ writers'[w] = Finished /\ memories' \subseteq memories
      BY <1>10, DropMoves DEF Ends
    <2>3. /\ writers'[w].step \notin Early /\ writers[w].step \notin Uncommitted
          /\ writers'[w].near = {} /\ writers'[w].step # "drop"
      BY <2>1, <2>2, WorkingOK DEF Early, Uncommitted
    <2> QED BY <2>1, <2>2, <2>3, OneGoes
  <1> QED BY <1>1, <1>2, <1>3, <1>4, <1>5, <1>6, <1>7, <1>8, <1>9, <1>10

LEMMA QuietGoes ==
    ASSUME BirthInv, UNCHANGED <<writers, memories, marked>>
    PROVE  Goes
  BY DEF BirthInv, Goes, WritersStay, Marking, NearStays, DropStays, RowsGrow, Durable

LEMMA StepFollows ==
    ASSUME MemoryInv, BirthInv, Goes, LessonsStay, StaysDone, AboutStays
    PROVE  BirthInv' /\ BornStays /\ RowsGrow
  <1>1. BornStays
    BY BirthsStay DEF Goes
  <1> QED BY <1>1, BirthFollows DEF Goes

LEMMA RememberBirth ==
    ASSUME MemoryInv, BirthInv, Remember
    PROVE  BirthInv' /\ BornStays /\ RowsGrow
  <1>1. Goes
    BY Remembering
  <1>2. UNCHANGED learning /\ (UNCHANGED requested \/ \E request : Contradicted(request))
    BY RememberAsks
  <1>3. LessonsStay
    BY <1>2 DEF learning, LessonsStay, LessonBorn
  <1>4. StaysDone
    BY <1>2, Continuing DEF Contradicted
  <1>5. BornStays
    BY <1>1, <1>3, <1>4, BirthsStay DEF Goes
  <1>6. AboutStays
    <2>1. CASE UNCHANGED requested
      BY <2>1 DEF AboutStays
    <2>2. CASE \E request : Contradicted(request)
      <3>1. PICK request : Contradicted(request)
        BY <2>2
      <3>2. PICK w \in Writers : \E id \in writers[w].near :
               writers[w].step = "judge" /\ request.about = {Made(w), id}
        BY <3>1 DEF Contradicted
      <3>3. PICK id \in writers[w].near :
               writers[w].step = "judge" /\ request.about = {Made(w), id}
        BY <3>2
      <3>4. Born(Made(w)) /\ Born(id)
        BY <3>3, MadeBorn DEF Early, BirthInv, NearBorn
      <3>5. Born(Made(w))' /\ Born(id)'
        <4>1. PICK made : made = Made(w)
          OBVIOUS
        <4>2. Born(made)'
          BY <1>5, <3>4, <4>1 DEF BornStays
        <4>3. Born(id)'
          BY <1>5, <3>4 DEF BornStays
        <4> QED BY <4>1, <4>2, <4>3
      <3>6. \A i \in request.about : Born(i)'
        BY <3>3, <3>5
      <3> QED BY <3>1, <3>6 DEF AboutStays, Contradicted
    <2> QED BY <1>2, <2>1, <2>2
  <1> QED BY <1>1, <1>3, <1>4, <1>6, StepFollows

LEMMA LearnBirth ==
    ASSUME MemoryInv, BirthInv, Learn
    PROVE  BirthInv' /\ BornStays /\ RowsGrow
  <1>1. CASE \E n \in Notes : RecordFeedback(n) \/ ApplyFeedback(n)
    <2>1. PICK n \in Notes : RecordFeedback(n) \/ ApplyFeedback(n)
      BY <1>1
    <2>2. UNCHANGED writing /\ UNCHANGED requested
      BY <2>1 DEF RecordFeedback, ApplyFeedback
    <2>3. Goes /\ StaysDone /\ AboutStays
      BY <2>2, QuietGoes, Continuing DEF writing, rows, AboutStays
    <2>4. /\ receipts[n] \in {"new", "queued"}
          /\ \A m \in Notes : m # n => receipts'[m] = receipts[m]
      BY <2>1 DEF RecordFeedback, ApplyFeedback, MemoryInv, LearningOK
    <2>5. \/ UNCHANGED learner
          \/ learner' = Nobody \/ learner' = [note |-> n, step |-> "count"]
      BY <2>1, ApplyKept DEF RecordFeedback
    <2>6. ASSUME NEW m \in Notes, LessonBorn(m) PROVE LessonBorn(m)'
      <3>1. m # n
        BY <2>4, <2>6 DEF LessonBorn
      <3> QED BY <2>4, <2>5, <2>6, <3>1, NobodyIs DEF LessonBorn
    <2>7. LessonsStay
      BY <2>6 DEF LessonsStay
    <2> QED BY <2>3, <2>7, StepFollows
  <1>2. CASE CountCorrection
    <2>1. /\ UNCHANGED writing /\ UNCHANGED requested /\ UNCHANGED receipts
          /\ learner.step = "count"
      BY <1>2 DEF CountCorrection
    <2>2. Goes /\ StaysDone /\ AboutStays
      BY <2>1, QuietGoes, Continuing DEF writing, rows, AboutStays
    <2>3. learner' = Nobody \/ learner' = [note |-> learner.note, step |-> "persist"]
      BY <1>2, CountKept
    <2>4. LessonsStay
      BY <2>1, <2>3, NobodyIs DEF LessonsStay, LessonBorn
    <2> QED BY <2>2, <2>4, StepFollows
  <1>3. CASE PersistLesson
    <2>1. /\ UNCHANGED <<writers, marked>> /\ UNCHANGED requested /\ UNCHANGED receipts
          /\ learner.step = "persist"
      BY <1>3 DEF PersistLesson
    <2>2. /\ learner' = [note |-> learner.note, step |-> "promote"]
          /\ memories' = memories \cup
                {Row(LessonOf(learner.note), learner.note, "lesson", "", TRUE, epoch)}
          /\ learner.note \in Notes /\ learner # Nobody
      BY <1>3, PersistKept
    <2>3. StaysDone /\ AboutStays
      BY <2>1, Continuing DEF AboutStays
    <2>4. LessonsStay
      BY <2>1, <2>2 DEF LessonsStay, LessonBorn
    <2>5. WritersStay /\ Marking' /\ NearStays
      BY <2>1 DEF BirthInv, WritersStay, Marking, NearStays, Durable
    <2>6. DropStays
      BY <2>1 DEF DropStays
    <2>7. RowsGrow
      <3>1. PICK n \in Notes : n = learner.note
        BY <2>2
      <3>2. PICK row : row = Row(LessonOf(n), n, "lesson", "", TRUE, epoch)
        OBVIOUS
      <3>3. row.id = LessonOf(n) /\ memories' = memories \cup {row}
        BY <2>2, <3>1, <3>2 DEF Row
      <3>4. ~ Born(LessonOf(n))
        <4>1. ~ LessonBorn(n)
          BY <2>1, <3>1 DEF LessonBorn
        <4> QED BY <4>1, LessonOfBorn
      <3>5. Born(LessonOf(n))'
        <4>1. receipts[n] = "applied"
          BY <2>2, <3>1, LearnerIs
        <4>2. LessonBorn(n)'
          BY <2>1, <2>2, <4>1 DEF LessonBorn
        <4> QED BY <4>2 DEF Born
      <3> QED BY <3>3, <3>4, <3>5 DEF RowsGrow
    <2> QED BY <2>3, <2>4, <2>5, <2>6, <2>7, StepFollows DEF Goes
  <1>4. CASE PromoteLesson
    <2>1. UNCHANGED writing /\ UNCHANGED receipts
      BY <1>4 DEF PromoteLesson
    <2>2. PICK request : /\ learner.step = "promote" /\ learner' = Nobody
             /\ Grown(requested, request, requested')
             /\ request.about = {LessonOf(learner.note)}
      BY <1>4, PromoteKept
    <2>3. Goes /\ StaysDone
      BY <2>1, <2>2, QuietGoes, Continuing DEF writing, rows
    <2>4. LessonsStay
      BY <2>1, <2>2, NobodyIs DEF LessonsStay, LessonBorn
    <2>5. AboutStays
      <3>1. PICK n \in Notes : learner.note = n /\ receipts[n] = "applied"
        BY <2>2, LearnerIs, NobodyIs
      <3>2. LessonBorn(n)'
        BY <2>1, <2>2, <3>1, NobodyIs DEF LessonBorn
      <3>3. Born(LessonOf(n))'
        BY <3>2 DEF Born
      <3>4. \A id \in request.about : Born(id)'
        BY <2>2, <3>1, <3>3
      <3> QED BY <2>2, <3>4 DEF AboutStays
    <2> QED BY <2>3, <2>4, <2>5, StepFollows
  <1>5. CASE LearnFails
    <2>1. /\ UNCHANGED writing /\ UNCHANGED requested /\ UNCHANGED receipts
          /\ learner' = Nobody
      BY <1>5 DEF LearnFails
    <2>2. Goes /\ StaysDone /\ AboutStays
      BY <2>1, QuietGoes, Continuing DEF writing, rows, AboutStays
    <2>3. LessonsStay
      BY <2>1, NobodyIs DEF LessonsStay, LessonBorn
    <2> QED BY <2>2, <2>3, StepFollows
  <1> QED BY <1>1, <1>2, <1>3, <1>4, <1>5 DEF Learn

LEMMA ReflectBirth ==
    ASSUME MemoryInv, StoryInv, BirthInv, Reflect
    PROVE  BirthInv' /\ BornStays /\ RowsGrow
  <1>1. UNCHANGED learning /\ NoLesson
    BY ReflectAsks
  <1>2. LessonsStay
    BY <1>1 DEF LessonsStay, LessonBorn, learning
  <1>3. CASE CommitReflection
    <2>1. UNCHANGED <<writers, marked>> /\ reflector.step = "planned"
      BY <1>3 DEF CommitReflection
    <2>2. /\ Marks(reflector.n)
          /\ memories' = memories \cup {Row(RecordOf(reflector.n), "reflection",
                                            "reflection", "", TRUE, epoch)}
      BY <1>3, CommitReflectionKept
    <2>3. reflector.n \in 1..Len(requested) /\ ~ requested[reflector.n].done
      BY <2>1, ReflectorIs DEF StoryInv, InHand
    <2>4. StaysDone /\ AboutStays
      BY <2>2, <2>3, MarkStaysDone DEF AboutStays
    <2>5. WritersStay /\ Marking' /\ NearStays
      BY <2>1 DEF BirthInv, WritersStay, Marking, NearStays, Durable
    <2>6. DropStays
      BY <2>1 DEF DropStays
    <2>7. RowsGrow
      <3>1. PICK n \in 1..Len(requested) : n = reflector.n
        BY <2>3
      <3>2. PICK row : row = Row(RecordOf(n), "reflection", "reflection", "", TRUE, epoch)
        OBVIOUS
      <3>3. row.id = RecordOf(n) /\ memories' = memories \cup {row}
        BY <2>2, <3>1, <3>2 DEF Row
      <3>4. ~ Born(RecordOf(n))
        BY <2>3, <3>1, RecordBorn
      <3>5. Born(RecordOf(n))'
        <4>1. n \in 1..Len(requested') /\ requested'[n].done
          BY <2>2, <3>1 DEF Marks
        <4> QED BY <4>1 DEF Born
      <3> QED BY <3>3, <3>4, <3>5 DEF RowsGrow
    <2> QED BY <1>2, <2>4, <2>5, <2>6, <2>7, StepFollows DEF Goes
  <1>4. CASE CheckReflect \/ \E reason \in {"idle_activity", "reading_revisit"} :
                                AskReflection(reason)
    <2>1. UNCHANGED writing
      BY <1>4 DEF CheckReflect, AskReflection
    <2>2. PICK request : Grown(requested, request, requested') /\ request.about = {}
      BY <1>4, Asks
    <2>3. Goes /\ StaysDone /\ AboutStays
      BY <2>1, <2>2, QuietGoes, Continuing DEF writing, rows, AboutStays
    <2> QED BY <1>2, <2>3, StepFollows
  <1>5. CASE \E n \in DOMAIN requested : SkipReflection(n)
    <2>1. PICK n \in DOMAIN requested : SkipReflection(n)
      BY <1>5
    <2>2. UNCHANGED writing
      BY <2>1 DEF SkipReflection
    <2>3. n \in 1..Len(requested) /\ Marks(n)
      BY <2>1, SkipKept
    <2>4. Goes /\ StaysDone /\ AboutStays
      BY <2>2, <2>3, QuietGoes, MarkStaysDone DEF writing, rows, AboutStays
    <2> QED BY <1>2, <2>4, StepFollows
  <1>6. CASE \/ \E n \in DOMAIN requested : BeginReflection(n)
             \/ PlanReflection \/ ReflectionFails \/ RejectReflection
    <2>1. UNCHANGED writing /\ UNCHANGED requested
      BY <1>6 DEF BeginReflection, PlanReflection, ReflectionFails, RejectReflection
    <2>2. Goes /\ StaysDone /\ AboutStays
      BY <2>1, QuietGoes, Continuing DEF writing, rows, AboutStays
    <2> QED BY <1>2, <2>2, StepFollows
  <1> QED BY <1>3, <1>4, <1>5, <1>6 DEF Reflect

LEMMA BirthStep ==
    ASSUME MemoryInv, StoryInv, BirthInv, [Next]_vars
    PROVE  BirthInv' /\ BornStays /\ RowsGrow
  <1>1. CASE (SegmentNext /\ UNCHANGED memoryVars) \/ UNCHANGED vars
    <2>1. UNCHANGED memoryVars
      BY <1>1 DEF vars
    <2>2. UNCHANGED <<writers, memories, marked, receipts, learner, requested>>
      BY <2>1 DEF memoryVars
    <2>3. Goes /\ StaysDone /\ AboutStays /\ LessonsStay
      BY <2>2, QuietGoes, Continuing DEF AboutStays, LessonsStay, LessonBorn
    <2> QED BY <2>3, StepFollows
  <1>2. CASE Crash
    <2>1. UNCHANGED memories /\ UNCHANGED <<marked, receipts, requested>>
      BY <1>2 DEF Crash, rows
    <2>2. /\ learner' = Nobody
          /\ \A w \in Writers :
                 \/ writers'[w] = Working
                    /\ (writers[w].step = "asked" \/ (Durable(w) /\ w \notin marked))
                 \/ writers'[w] = Finished
                    /\ writers[w].step # "asked" /\ ~ (Durable(w) /\ w \notin marked)
      BY <1>2, CrashKept
    <2>3. LessonsStay
      BY <2>1, <2>2, NobodyIs DEF LessonsStay, LessonBorn
    <2>4. WritersStay
      <3>1. SUFFICES ASSUME NEW w \in Writers, writers[w].step \notin Early
                     PROVE  writers'[w].step \notin Early
        BY DEF WritersStay
      <3>2. writers[w].step # "asked" /\ ~ (Durable(w) /\ w \notin marked)
        BY <3>1 DEF Early, BirthInv, Marking, Uncommitted
      <3> QED BY <2>2, <3>2, WorkingOK DEF Early
    <2>5. Marking'
      <3>1. SUFFICES ASSUME NEW w \in Writers, Durable(w), writers'[w].step \notin Uncommitted
                     PROVE  w \in marked'
        BY DEF Marking, Durable
      <3> QED BY <2>1, <2>2, <3>1, WorkingOK DEF Uncommitted
    <2>6. NearStays /\ DropStays
      BY <2>2, WorkingOK DEF NearStays, DropStays
    <2>7. Goes /\ StaysDone /\ AboutStays
      BY <2>1, <2>4, <2>5, <2>6, Continuing DEF Goes, RowsGrow, AboutStays
    <2> QED BY <2>3, <2>7, StepFollows
  <1> QED BY <1>1, <1>2, RememberBirth, LearnBirth, ReflectBirth DEF Next

LEMMA BirthStart ==
    ASSUME Init
    PROVE  BirthInv
  <1>1. /\ memories = {} /\ requested = <<>> /\ writers = [w \in Writers |-> Working]
    BY DEF Init
  <1>2. \A w \in Writers : writers[w] = Working
    BY <1>1
  <1>3. Marking /\ NearBorn /\ DropsFade
    BY <1>2, WorkingOK DEF Marking, Uncommitted, NearBorn, DropsFade
  <1>4. IdsBorn /\ IdsApart /\ AboutBorn
    BY <1>1 DEF IdsBorn, IdsApart, AboutBorn
  <1> QED BY <1>3, <1>4 DEF BirthInv

-----------------------------------------------------------------------------
(* Memory: what a request names was read *)

\* What reflections can read of what has this id, they have read.
ReadOrGone(id) ==
    \A m \in memories : m.id = id /\ m.kind # "reflection" => id \in narrative.reviewed

ListedOrGone(id) ==
    \A m \in memories : m.id = id /\ m.kind # "reflection" => id \in reflector.listed

Timely ==
    /\ narrative.updated <= epoch
    /\ \A i \in 1..Len(requested) : requested[i].at <= epoch
    /\ \A i \in 1..Len(requested) : requested[i].reason = "periodic" => requested[i].about = {}
    /\ reflector.step # "idle" =>
          reflector.stamp <= epoch /\ requested[reflector.n].at < reflector.stamp

\* What is done, or is outdated by the narrative, has been read.
DoneRead ==
    \A i \in 1..Len(requested) :
        requested[i].done \/ requested[i].at < narrative.updated =>
            \A id \in requested[i].about : ReadOrGone(id)

\* The reflection in hand has before it what was asked for before it began.
HandListed ==
    reflector.step # "idle" =>
        \A i \in 1..Len(requested) : requested[i].at < reflector.stamp =>
            \A id \in requested[i].about : ListedOrGone(id)

ReadInv == Timely /\ DoneRead /\ HandListed

NewRequest(request) ==
    /\ Grown(requested, request, requested')
    /\ request.at = epoch /\ ~ request.done
    /\ request.reason = "periodic" => request.about = {}

LEMMA TimesAre ==
    ASSUME MemoryInv
    PROVE  /\ epoch \in Nat /\ narrative.updated \in Nat /\ reflector.stamp \in Nat
           /\ \A i \in 1..Len(requested) : requested[i].at \in Nat
  <1>1. requested \in Seq(RequestSet)
    BY DEF MemoryInv, RequestsOK
  <1>2. \A i \in 1..Len(requested) : requested[i] \in RequestSet
    BY <1>1
  <1>3. \A i \in 1..Len(requested) : requested[i].at \in Nat
    BY <1>2 DEF RequestSet
  <1>4. epoch \in Nat /\ narrative.updated \in Nat /\ reflector.stamp \in Nat
    BY DEF MemoryInv, ReflectingOK, ReflectorOK
  <1> QED BY <1>3, <1>4

LEMMA ReadStays ==
    ASSUME RowsGrow, NEW id, Born(id), ReadOrGone(id),
           narrative.reviewed \subseteq narrative'.reviewed
    PROVE  ReadOrGone(id)'
  BY DEF RowsGrow, ReadOrGone

LEMMA ListedStays ==
    ASSUME RowsGrow, NEW id, Born(id), ListedOrGone(id), reflector'.listed = reflector.listed
    PROVE  ListedOrGone(id)'
  BY DEF RowsGrow, ListedOrGone

\* The steps beside the reflections: a request may come.
LEMMA ReadSame ==
    ASSUME MemoryInv, BirthInv, RowsGrow, ReadInv, UNCHANGED <<narrative, reflector, epoch>>,
           UNCHANGED requested \/ \E request : NewRequest(request)
    PROVE  ReadInv'
  <1>1. PICK short : short = Len(requested)
    OBVIOUS
  <1>2. \A i \in 1..Len(requested') :
           \/ i \in 1..short /\ requested'[i] = requested[i]
           \/ /\ i \notin 1..short /\ requested'[i].at = epoch /\ ~ requested'[i].done
              /\ requested'[i].reason = "periodic" => requested'[i].about = {}
    <2>1. CASE UNCHANGED requested
      BY <1>1, <2>1
    <2>2. CASE \E request : NewRequest(request)
      <3>1. PICK request : NewRequest(request)
        BY <2>2
      <3> QED BY <1>1, <3>1 DEF NewRequest, Grown
    <2> QED BY <2>1, <2>2
  <1>3. /\ epoch \in Nat /\ narrative.updated \in Nat /\ reflector.stamp \in Nat
        /\ narrative.updated <= epoch
        /\ reflector.step # "idle" =>
              reflector.stamp <= epoch /\ requested[reflector.n].at < reflector.stamp
    BY TimesAre DEF ReadInv, Timely
  <1>4. \A i \in 1..short : \A id \in requested[i].about : Born(id)
    BY <1>1 DEF BirthInv, AboutBorn
  <1>5. Timely'
    <2>1. \A i \in 1..Len(requested') : requested'[i].at <= epoch
      BY <1>1, <1>2, <1>3 DEF ReadInv, Timely
    <2>2. \A i \in 1..Len(requested') :
             requested'[i].reason = "periodic" => requested'[i].about = {}
      BY <1>1, <1>2 DEF ReadInv, Timely
    <2>3. reflector.step # "idle" => requested'[reflector.n] = requested[reflector.n]
      <3>1. RequestsStay
        BY Continuing DEF NewRequest
      <3> QED BY <3>1, ReflectorIs DEF RequestsStay
    <2> QED BY <1>3, <2>1, <2>2, <2>3 DEF Timely
  <1>6. DoneRead'
    <2>1. SUFFICES ASSUME NEW i \in 1..Len(requested'),
                          requested'[i].done \/ requested'[i].at < narrative.updated,
                          NEW id \in requested'[i].about
                   PROVE  ReadOrGone(id)'
      BY DEF DoneRead
    <2>2. i \in 1..short /\ requested'[i] = requested[i]
      BY <1>2, <1>3, <2>1
    <2>3. ReadOrGone(id) /\ Born(id)
      BY <1>1, <1>4, <2>1, <2>2 DEF ReadInv, DoneRead
    <2> QED BY <2>3, ReadStays
  <1>7. HandListed'
    <2>1. SUFFICES ASSUME reflector.step # "idle", NEW i \in 1..Len(requested'),
                          requested'[i].at < reflector.stamp, NEW id \in requested'[i].about
                   PROVE  ListedOrGone(id)'
      BY DEF HandListed
    <2>2. i \in 1..short /\ requested'[i] = requested[i]
      BY <1>2, <1>3, <2>1
    <2>3. ListedOrGone(id) /\ Born(id)
      BY <1>1, <1>4, <2>1, <2>2 DEF ReadInv, HandListed
    <2> QED BY <2>3, ListedStays
  <1> QED BY <1>5, <1>6, <1>7 DEF ReadInv

\* No reflection is in hand: what was done stays read.
LEMMA ReadRests ==
    ASSUME MemoryInv, BirthInv, RowsGrow, ReadInv, UNCHANGED <<narrative, epoch>>,
           reflector' = AtRest,
           \/ UNCHANGED requested
           \/ \E n \in 1..Len(requested) :
                 Marks(n) /\ \A id \in requested[n].about : ReadOrGone(id)
    PROVE  ReadInv'
  <1>1. /\ Len(requested') = Len(requested)
        /\ \A i \in 1..Len(requested) :
              /\ requested'[i].about = requested[i].about /\ requested'[i].at = requested[i].at
              /\ requested'[i].reason = requested[i].reason
              /\ \/ requested'[i].done => requested[i].done
                 \/ \A id \in requested[i].about : ReadOrGone(id)
    <2>1. CASE UNCHANGED requested
      BY <2>1
    <2>2. CASE \E n \in 1..Len(requested) :
                  Marks(n) /\ \A id \in requested[n].about : ReadOrGone(id)
      <3>1. PICK n \in 1..Len(requested) :
                  Marks(n) /\ \A id \in requested[n].about : ReadOrGone(id)
        BY <2>2
      <3> QED BY <3>1 DEF Marks
    <2> QED BY <2>1, <2>2
  <1>2. AtRest.step = "idle"
    BY AtRestIs
  <1>3. Timely' /\ HandListed'
    BY <1>1, <1>2 DEF ReadInv, Timely, HandListed
  <1>4. DoneRead'
    <2>1. SUFFICES ASSUME NEW i \in 1..Len(requested'),
                          requested'[i].done \/ requested'[i].at < narrative.updated,
                          NEW id \in requested'[i].about
                   PROVE  ReadOrGone(id)'
      BY DEF DoneRead
    <2>2. i \in 1..Len(requested) /\ id \in requested[i].about
      BY <1>1, <2>1
    <2>3. ReadOrGone(id) /\ Born(id)
      BY <1>1, <2>1, <2>2 DEF ReadInv, DoneRead, BirthInv, AboutBorn
    <2> QED BY <2>3, ReadStays
  <1> QED BY <1>3, <1>4 DEF ReadInv

LEMMA ReadBegins ==
    ASSUME MemoryInv, BirthInv, ReadInv, NEW n \in DOMAIN requested, BeginReflection(n)
    PROVE  ReadInv'
  <1>1. /\ n \in 1..Len(requested) /\ epoch' = epoch + 1
        /\ reflector'.n = n /\ reflector'.stamp = epoch + 1
        /\ reflector'.listed = IdsOf({m \in memories : m.kind # "reflection"})
    BY BeginKept
  <1>2. UNCHANGED requested /\ UNCHANGED narrative /\ UNCHANGED memories
    BY DEF BeginReflection, writing, rows
  <1>3. /\ epoch \in Nat /\ narrative.updated \in Nat
        /\ \A i \in 1..Len(requested) : requested[i].at \in Nat /\ requested[i].at <= epoch
        /\ narrative.updated <= epoch
    BY TimesAre DEF ReadInv, Timely
  <1>4. Timely'
    BY <1>1, <1>2, <1>3 DEF ReadInv, Timely
  <1>5. DoneRead'
    BY <1>2 DEF ReadInv, DoneRead, ReadOrGone
  <1>6. HandListed'
    <2>1. \A id : ListedOrGone(id)'
      BY <1>1, <1>2 DEF ListedOrGone, IdsOf
    <2> QED BY <2>1 DEF HandListed
  <1> QED BY <1>4, <1>5, <1>6 DEF ReadInv

LEMMA ReadPlanned ==
    ASSUME MemoryInv, BirthInv, ReadInv, PlanReflection
    PROVE  ReadInv'
  <1>1. /\ reflector.step = "thinking" /\ reflector'.n = reflector.n
        /\ reflector'.stamp = reflector.stamp /\ reflector'.listed = reflector.listed
    BY PlanKept
  <1>2. UNCHANGED requested /\ UNCHANGED <<narrative, epoch>> /\ UNCHANGED memories
    BY DEF PlanReflection, writing, rows
  <1>3. Timely'
    BY <1>1, <1>2 DEF ReadInv, Timely
  <1>4. DoneRead'
    BY <1>2 DEF ReadInv, DoneRead, ReadOrGone
  <1>5. HandListed'
    BY <1>1, <1>2 DEF ReadInv, HandListed, ListedOrGone
  <1> QED BY <1>3, <1>4, <1>5 DEF ReadInv

LEMMA ReadCommitted ==
    ASSUME MemoryInv, BirthInv, RowsGrow, ReadInv, CommitReflection
    PROVE  ReadInv'
  <1>1. /\ reflector.step = "planned" /\ Marks(reflector.n)
        /\ narrative'.updated = reflector.stamp
        /\ narrative'.reviewed = narrative.reviewed \cup reflector.listed
        /\ reflector' = AtRest /\ UNCHANGED epoch
    BY CommitReflectionKept
  <1>2. reflector.n \in 1..Len(requested)
    BY <1>1, ReflectorIs
  <1>3. /\ Len(requested') = Len(requested)
        /\ \A i \in 1..Len(requested) :
              /\ requested'[i].about = requested[i].about /\ requested'[i].at = requested[i].at
              /\ requested'[i].reason = requested[i].reason
              /\ (requested'[i].done => requested[i].done) \/ i = reflector.n
    BY <1>1, <1>2 DEF Marks
  <1>4. /\ reflector.stamp <= epoch /\ requested[reflector.n].at < reflector.stamp
    BY <1>1 DEF ReadInv, Timely
  <1>5. Timely'
    <2>1. AtRest.step = "idle"
      BY AtRestIs
    <2> QED BY <1>1, <1>3, <1>4, <2>1 DEF ReadInv, Timely
  <1>6. HandListed'
    BY <1>1, AtRestIs DEF HandListed
  <1>7. DoneRead'
    <2>1. SUFFICES ASSUME NEW i \in 1..Len(requested'),
                          requested'[i].done \/ requested'[i].at < narrative'.updated,
                          NEW id \in requested'[i].about
                   PROVE  ReadOrGone(id)'
      BY DEF DoneRead
    <2>2. i \in 1..Len(requested) /\ id \in requested[i].about
      BY <1>3, <2>1
    <2>3. Born(id)
      BY <2>2 DEF BirthInv, AboutBorn
    <2>4. CASE requested[i].done
      BY <1>1, <2>2, <2>3, <2>4, ReadStays DEF ReadInv, DoneRead
    <2>5. CASE requested[i].at < reflector.stamp
      <3>1. ListedOrGone(id)
        BY <1>1, <2>2, <2>5 DEF ReadInv, HandListed
      <3>2. \A m \in memories' : m.id = id => m \in memories
        BY <2>3 DEF RowsGrow
      <3> QED BY <1>1, <3>1, <3>2 DEF ListedOrGone, ReadOrGone
    <2> QED BY <1>1, <1>3, <1>4, <2>1, <2>2, <2>4, <2>5
  <1> QED BY <1>5, <1>6, <1>7 DEF ReadInv

LEMMA ReadStep ==
    ASSUME MemoryInv, StoryInv, BirthInv, ReadInv, [Next]_vars
    PROVE  ReadInv'
  <1>1. RowsGrow
    BY BirthStep
  <1>2. CASE (SegmentNext /\ UNCHANGED memoryVars) \/ UNCHANGED vars
    <2>1. UNCHANGED memoryVars
      BY <1>2 DEF vars
    <2>2. UNCHANGED <<narrative, reflector, epoch>> /\ UNCHANGED requested
      BY <2>1 DEF memoryVars
    <2> QED BY <1>1, <2>2, ReadSame
  <1>3. CASE Remember
    <2>1. /\ UNCHANGED <<narrative, reflector, epoch>>
          /\ UNCHANGED requested \/ \E request : NewRequest(request)
      BY <1>3, RememberAsks DEF reflecting, Contradicted, NewRequest
    <2> QED BY <1>1, <2>1, ReadSame
  <1>4. CASE Learn
    <2>1. UNCHANGED <<narrative, reflector, epoch>>
      BY <1>4, ReflectionAside DEF reflecting
    <2>2. UNCHANGED requested \/ \E request : NewRequest(request)
      <3>1. CASE PromoteLesson
        BY <3>1, PromoteKept DEF NewRequest
      <3>2. CASE ~ PromoteLesson
        BY <1>4, <3>2 DEF Learn, RecordFeedback, ApplyFeedback, CountCorrection,
                          PersistLesson, LearnFails
      <3> QED BY <3>1, <3>2
    <2> QED BY <1>1, <2>1, <2>2, ReadSame
  <1>5. CASE CheckReflect \/ \E reason \in {"idle_activity", "reading_revisit"} :
                                AskReflection(reason)
    <2>1. UNCHANGED <<narrative, reflector, epoch>>
      BY <1>5 DEF CheckReflect, AskReflection, reflecting
    <2>2. \E request : NewRequest(request)
      BY <1>5, Asks DEF NewRequest
    <2> QED BY <1>1, <2>1, <2>2, ReadSame
  <1>6. CASE \E n \in DOMAIN requested : SkipReflection(n)
    <2>1. PICK n \in DOMAIN requested : SkipReflection(n)
      BY <1>6
    <2>2. /\ reflector' = AtRest /\ UNCHANGED <<narrative, epoch>> /\ Outdated(n)
      BY <2>1 DEF SkipReflection, reflecting
    <2>3. n \in 1..Len(requested) /\ Marks(n)
      BY <2>1, SkipKept
    <2>4. requested[n].at < narrative.updated \/ requested[n].reason = "periodic"
      BY <2>2 DEF Outdated
    <2>5. \A id \in requested[n].about : ReadOrGone(id)
      BY <2>3, <2>4 DEF ReadInv, Timely, DoneRead
    <2> QED BY <1>1, <2>2, <2>3, <2>5, ReadRests
  <1>7. CASE ReflectionFails \/ RejectReflection
    <2>1. reflector' = AtRest /\ UNCHANGED <<requested, narrative, epoch>>
      BY <1>7, GiveUpKept
    <2> QED BY <1>1, <2>1, ReadRests
  <1>8. CASE Crash
    <2>1. reflector' = AtRest /\ UNCHANGED <<requested, narrative, epoch>>
      BY <1>8 DEF Crash
    <2> QED BY <1>1, <2>1, ReadRests
  <1>9. CASE \E n \in DOMAIN requested : BeginReflection(n)
    BY <1>9, ReadBegins
  <1>10. CASE PlanReflection
    BY <1>10, ReadPlanned
  <1>11. CASE CommitReflection
    BY <1>1, <1>11, ReadCommitted
  <1> QED BY <1>2, <1>3, <1>4, <1>5, <1>6, <1>7, <1>8, <1>9, <1>10, <1>11 DEF Next, Reflect

LEMMA ReadStart ==
    ASSUME Init
    PROVE  ReadInv
  <1>1. /\ requested = <<>> /\ reflector = AtRest /\ epoch = 0
        /\ narrative = [updated |-> 0, when |-> 0, reviewed |-> {}, stories |-> <<>>]
    BY DEF Init
  <1>2. Len(requested) = 0 /\ narrative.updated = 0 /\ reflector.step = "idle"
    BY <1>1, AtRestIs
  <1> QED BY <1>1, <1>2 DEF ReadInv, Timely, DoneRead, HandListed

LEMMA ReadFollows ==
    ASSUME MemoryInv, ReadInv
    PROVE  Heeded
  <1>1. DOMAIN requested = 1..Len(requested)
    BY DEF MemoryInv, RequestsOK
  <1> QED BY <1>1 DEF ReadInv, DoneRead, ReadOrGone, Heeded

\* What the invariants of the reflections and of the ids are, together.
ReflectionInv == MemoryInv /\ StoryInv /\ BirthInv /\ ReadInv

LEMMA ReflectionInvariant == Spec => []ReflectionInv
  <1>1. Init => StoryInv /\ BirthInv /\ ReadInv
    BY StoryStart, BirthStart, ReadStart
  <1>2. MemoryInv /\ MemoryInv' /\ StoryInv /\ BirthInv /\ ReadInv /\ [Next]_vars
           => StoryInv' /\ BirthInv' /\ ReadInv'
    BY StoryStep, BirthStep, ReadStep
  <1> QED BY <1>1, <1>2, MemoryInvariant, PTL DEF Spec, ReflectionInv

(***************************************************************************)
(* A request that names memories is never done, and never dropped as       *)
(* outdated, before a reflection has read them, unless they are gone:      *)
(* whatever is written, evicted or reflected on meanwhile, for no id is    *)
(* ever given away twice.                                                  *)
(***************************************************************************)
THEOREM HeededAlways == Spec => []Heeded
  <1>1. ReflectionInv => Heeded
    BY ReadFollows DEF ReflectionInv
  <1> QED BY <1>1, ReflectionInvariant, PTL

-----------------------------------------------------------------------------
(* Memory: the links join what is there *)

LinkingApart ==
    \A w \in Writers : writers[w].step = "linking" => Made(w) \notin writers[w].held

LinksInv == edges \subseteq Pairs(Ids) /\ LinkingApart

LEMMA PairsGrow ==
    ASSUME NEW S, NEW T, S \subseteq T
    PROVE  Pairs(S) \subseteq Pairs(T)
  <1>1. SUFFICES ASSUME NEW e \in Pairs(S) PROVE e \in Pairs(T)
    OBVIOUS
  <1>2. PICK a \in S, b \in S : e = {a, b} /\ e \notin {{c} : c \in S}
    BY DEF Pairs
  <1>3. a # b
    BY <1>2
  <1>4. e \notin {{c} : c \in T}
    BY <1>2, <1>3
  <1> QED BY <1>2, <1>4 DEF Pairs

LEMMA PairIs ==
    ASSUME NEW S, NEW a \in S, NEW b \in S, a # b
    PROVE  {a, b} \in Pairs(S)
  BY DEF Pairs

LEMMA PairsLeft ==
    ASSUME NEW S, NEW gone, NEW e \in Pairs(S), e \cap gone = {}
    PROVE  e \in Pairs(S \ gone)
  <1>1. PICK a \in S, b \in S : e = {a, b} /\ e \notin {{c} : c \in S}
    BY DEF Pairs
  <1> QED BY <1>1 DEF Pairs

LEMMA IdsGrow ==
    ASSUME memories \subseteq memories'
    PROVE  Ids \subseteq Ids'
  BY DEF Ids, IdsOf

\* The links stay, and the rows.
LEMMA LinksSame ==
    ASSUME LinksInv, UNCHANGED edges, memories \subseteq memories', LinkingApart'
    PROVE  LinksInv'
  <1>1. PICK old, new : old = Ids /\ new = Ids'
    OBVIOUS
  <1>2. old \subseteq new
    BY <1>1, IdsGrow
  <1>3. edges' \subseteq Pairs(new)
    BY <1>1, <1>2, PairsGrow DEF LinksInv
  <1> QED BY <1>1, <1>3 DEF LinksInv, Pairs

LEMMA OneLinks ==
    ASSUME LinksInv, NEW w \in Writers, Beside(w),
           writers'[w].step = "linking" => Made(w) \notin writers'[w].held
    PROVE  LinkingApart'
  <1>1. SUFFICES ASSUME NEW v \in Writers, writers'[v].step = "linking"
                 PROVE  Made(v) \notin writers'[v].held
    BY DEF LinkingApart, Made
  <1> QED BY <1>1 DEF LinksInv, LinkingApart, Beside

\* What keeping a content comes to.
LEMMA KeepRow ==
    ASSUME MemoryInv, NEW w \in Writers, NEW twins, NEW near \in SUBSET MemoryIds, NEW kept,
           Keep(w, twins, near, kept)
    PROVE  /\ Beside(w) /\ writers'[w].step \in {"done", "link"}
           /\ \/ \E m \in twins :
                    Touched(m, w, writers[w].content)
              \/ /\ twins = {}
                 /\ Add(Row(Made(w), writers[w].content, Asked[w].kind, Asked[w].source,
                            Asked[w].lasting, writers[w].since))
  <1>1. Ends(w) => Beside(w) /\ writers'[w].step = "done"
    BY WorkingOK DEF Ends
  <1>2. Moves(w, "link", near, writers[w].held, writers[w].linked)
           => Beside(w) /\ writers'[w].step = "link"
    BY DEF Moves
  <1> QED BY <1>1, <1>2, KeepMoves

\* A row that may stand for a content has its kind and source, and words that do.
StandsFor(m, w, content) ==
    /\ m \in memories /\ m.kind = Asked[w].kind /\ m.source = Asked[w].source
    /\ m.content = content \/ {m.content, content} \in Close

LEMMA StandInsAre ==
    ASSUME NEW w, NEW content, NEW stand \in StandIns(w, content)
    PROVE  /\ \A m \in stand : StandsFor(m, w, content)
           /\ stand = {} => Twin(content, Asked[w].kind, Asked[w].source) = {}
  <1>1. CASE Twin(content, Asked[w].kind, Asked[w].source) # {}
    <2>1. stand = Twin(content, Asked[w].kind, Asked[w].source)
      BY <1>1 DEF StandIns
    <2> QED BY <1>1, <2>1 DEF Twin, StandsFor
  <1>2. CASE Twin(content, Asked[w].kind, Asked[w].source) = {}
    <2>1. \A m \in stand : m \in Near(content, Asked[w].kind, Asked[w].source)
      BY <1>2 DEF StandIns
    <2> QED BY <1>2, <2>1 DEF Near, StandsFor
  <1> QED BY <1>1, <1>2

\* What each request to remember does to the rows, apart from the eviction.
LEMMA RememberRows ==
    ASSUME MemoryInv, NEW w \in Writers
    PROVE  /\ Compose(w) \/ CommitKnown(w) \/ WriterFails(w) \/ ChooseLinks(w) \/ LinkOne(w)
              \/ Prune(w) \/ JudgeContradiction(w) \/ ListOverflow(w)
                 => UNCHANGED memories /\ UNCHANGED merged
           /\ CommitDurable(w) \/ CommitDirect(w) =>
                 /\ Beside(w) /\ writers'[w].step \in {"done", "link"}
                 /\ \/ \E m : /\ StandsFor(m, w, writers[w].content)
                              /\ Touched(m, w, writers[w].content)
                    \/ /\ Twin(writers[w].content, Asked[w].kind, Asked[w].source) = {}
                       /\ Add(Row(Made(w), writers[w].content, Asked[w].kind, Asked[w].source,
                                  Asked[w].lasting, writers[w].since))
  <1>1. ASSUME CommitDurable(w) \/ CommitDirect(w)
        PROVE  /\ Beside(w) /\ writers'[w].step \in {"done", "link"}
               /\ \/ \E m : /\ StandsFor(m, w, writers[w].content)
                              /\ Touched(m, w, writers[w].content)
                  \/ /\ Twin(writers[w].content, Asked[w].kind, Asked[w].source) = {}
                     /\ Add(Row(Made(w), writers[w].content, Asked[w].kind, Asked[w].source,
                                  Asked[w].lasting, writers[w].since))
    <2>1. PICK twins : \E near \in SUBSET MemoryIds : \E kept :
             /\ Keep(w, twins, near, kept)
             /\ twins \in StandIns(w, writers[w].content) \/ twins = FoundAgain(w)
      <3>1. CASE CommitDurable(w)
        <4>1. PICK near \in SUBSET Ids, stand \in StandIns(w, writers[w].content) : \E kept :
                 /\ near \in SUBSET MemoryIds
                 /\ Keep(w, stand, near, kept)
          BY <3>1, CommitDurableMoves
        <4> QED BY <4>1
      <3>2. CASE CommitDirect(w)
        BY <3>2, CommitDirectMoves
      <3> QED BY <1>1, <3>1, <3>2
    <2>2. /\ \A m \in twins : StandsFor(m, w, writers[w].content)
          /\ twins = {} => Twin(writers[w].content, Asked[w].kind, Asked[w].source) = {}
      <3>1. CASE twins \in StandIns(w, writers[w].content)
        BY <3>1, StandInsAre
      <3>2. CASE twins = FoundAgain(w)
        BY <3>2 DEF FoundAgain, Twin, StandsFor
      <3> QED BY <2>1, <3>1, <3>2
    <2> QED BY <2>1, <2>2, KeepRow
  <1>2. Compose(w) \/ CommitKnown(w) \/ WriterFails(w) \/ ChooseLinks(w) \/ LinkOne(w)
              \/ Prune(w) \/ JudgeContradiction(w) \/ ListOverflow(w)
                 => UNCHANGED memories /\ UNCHANGED merged
    BY DEF Compose, CommitKnown, WriterFails, ChooseLinks, LinkOne, Prune,
           JudgeContradiction, ListOverflow, rows
  <1> QED BY <1>1, <1>2

LEMMA RememberLinks ==
    ASSUME MemoryInv, LinksInv, Remember
    PROVE  LinksInv'
  <1>1. PICK w \in Writers :
           \/ Compose(w) \/ CommitKnown(w) \/ CommitDurable(w) \/ WriterFails(w)
           \/ StartDirect(w) \/ CommitDirect(w) \/ ChooseLinks(w) \/ LinkOne(w)
           \/ Prune(w) \/ JudgeContradiction(w) \/ ListOverflow(w) \/ DropListed(w)
    BY DEF Remember
  <1>2. CASE Compose(w) \/ CommitKnown(w) \/ WriterFails(w)
    <2>1. UNCHANGED edges /\ UNCHANGED memories
      BY <1>2, RememberRows DEF Compose, CommitKnown, WriterFails
    <2>2. Beside(w) /\ writers'[w].step # "linking"
      BY <1>2, ComposeMoves, CommitKnownMoves, WriterFailsMoves, WorkingOK DEF Ends
    <2> QED BY <2>1, <2>2, OneLinks, LinksSame
  <1>3. CASE StartDirect(w)
    <2>1. UNCHANGED edges
      BY <1>3 DEF StartDirect
    <2>2. UNCHANGED memories /\ Beside(w) /\ writers'[w].step # "linking"
      BY <1>3, StartMoves, WorkingOK DEF Ends, Touched, rows
    <2> QED BY <2>1, <2>2, OneLinks, LinksSame
  <1>4. CASE CommitDurable(w) \/ CommitDirect(w)
    <2>1. UNCHANGED edges
      BY <1>4 DEF CommitDurable, CommitDirect
    <2>2. Beside(w) /\ writers'[w].step # "linking" /\ memories \subseteq memories'
      BY <1>4, RememberRows DEF Touched, Add
    <2> QED BY <2>1, <2>2, OneLinks, LinksSame
  <1>5. CASE ChooseLinks(w)
    <2>1. UNCHANGED edges /\ UNCHANGED memories
      BY <1>5, RememberRows DEF ChooseLinks
    <2>2. Beside(w) /\ Made(w) \notin writers'[w].held
      BY <1>5, ChooseMoves DEF Moves, Others
    <2> QED BY <2>1, <2>2, OneLinks, LinksSame
  <1>6. CASE LinkOne(w)
    <2>1. UNCHANGED memories /\ writers[w].step = "linking" /\ Made(w) \notin writers[w].held
      BY <1>6, RememberRows DEF LinkOne, LinksInv, LinkingApart
    <2>2. PICK id \in writers[w].held :
             \/ /\ id \in Ids /\ Made(w) \in Ids
                /\ edges' = edges \cup {{id, Made(w)}}
                /\ Beside(w) /\ writers'[w].held = writers[w].held \ {id}
             \/ Beside(w) /\ writers'[w].step = "judge" /\ UNCHANGED edges
      BY <1>6, LinkMoves DEF Moves
    <2>3. LinkingApart'
      BY <2>1, <2>2, OneLinks
    <2>4. CASE UNCHANGED edges
      BY <2>1, <2>3, <2>4, LinksSame
    <2>5. CASE /\ id \in Ids /\ Made(w) \in Ids
               /\ edges' = edges \cup {{id, Made(w)}}
      <3>1. PICK made, ids : made = Made(w) /\ ids = Ids
        OBVIOUS
      <3>2. {id, made} \in Pairs(ids)
        BY <2>1, <2>5, <3>1, PairIs
      <3>3. edges' \subseteq Pairs(ids)
        BY <2>5, <3>1, <3>2 DEF LinksInv
      <3>4. Ids' = ids
        BY <2>1, <3>1 DEF Ids, IdsOf
      <3> QED BY <2>3, <3>3, <3>4 DEF LinksInv, Pairs
    <2> QED BY <2>2, <2>4, <2>5
  <1>7. CASE Prune(w)
    <2>1. UNCHANGED memories
      BY <1>7, RememberRows
    <2>2. Beside(w) /\ writers'[w].step = "judge" /\ edges' \subseteq edges
      BY <1>7, PruneMoves DEF Moves
    <2>3. LinkingApart'
      BY <2>2, OneLinks
    <2>4. Ids' = Ids
      BY <2>1 DEF Ids, IdsOf
    <2> QED BY <2>2, <2>3, <2>4 DEF LinksInv, Pairs
  <1>8. CASE JudgeContradiction(w) \/ ListOverflow(w)
    <2>1. UNCHANGED edges /\ UNCHANGED memories
      BY <1>8, RememberRows DEF JudgeContradiction, ListOverflow
    <2>2. Beside(w) /\ writers'[w].step # "linking"
      BY <1>8, JudgeMoves, ListMoves DEF Moves
    <2> QED BY <2>1, <2>2, OneLinks, LinksSame
  <1>9. CASE DropListed(w)
    <2>1. PICK gone : gone = writers[w].held
      OBVIOUS
    <2>2. /\ Beside(w) /\ writers'[w].step # "linking"
          /\ memories' = {m \in memories : m.id \notin gone} /\ edges' = LinksLeft(gone)
      BY <1>9, <2>1, DropMoves, WorkingOK DEF Ends
    <2>3. LinkingApart'
      BY <2>2, OneLinks
    <2>4. PICK old, new : old = Ids /\ new = Ids'
      OBVIOUS
    <2>5. new = old \ gone
      BY <2>2, <2>4 DEF Ids, IdsOf
    <2>6. \A e \in edges' : e \in Pairs(old) /\ e \cap gone = {}
      BY <2>2, <2>4 DEF LinksLeft, LinksInv
    <2>7. edges' \subseteq Pairs(new)
      BY <2>5, <2>6, PairsLeft
    <2> QED BY <2>3, <2>4, <2>7 DEF LinksInv, Pairs
  <1> QED BY <1>1, <1>2, <1>3, <1>4, <1>5, <1>6, <1>7, <1>8, <1>9

LEMMA LinksStep ==
    ASSUME MemoryInv, LinksInv, [Next]_vars
    PROVE  LinksInv'
  <1>1. CASE (SegmentNext /\ UNCHANGED memoryVars) \/ UNCHANGED vars
    <2>1. UNCHANGED memoryVars
      BY <1>1 DEF vars
    <2>2. UNCHANGED edges /\ UNCHANGED memories /\ UNCHANGED writers
      BY <2>1 DEF memoryVars
    <2>3. LinkingApart'
      BY <2>2 DEF LinksInv, LinkingApart, Made
    <2> QED BY <2>2, <2>3, LinksSame
  <1>2. CASE Learn \/ Reflect
    <2>1. UNCHANGED edges /\ UNCHANGED writers
      BY <1>2 DEF Learn, Reflect, RecordFeedback, ApplyFeedback, CountCorrection,
           PersistLesson, PromoteLesson, LearnFails, CheckReflect, AskReflection,
           SkipReflection, BeginReflection, PlanReflection, ReflectionFails,
           CommitReflection, RejectReflection, writing
    <2>2. memories \subseteq memories'
      <3>1. CASE PersistLesson \/ CommitReflection
        BY <3>1, PersistKept, CommitReflectionKept
      <3>2. CASE ~ (PersistLesson \/ CommitReflection)
        <4>1. UNCHANGED writing
          BY <1>2, <3>2 DEF Learn, Reflect, RecordFeedback, ApplyFeedback, CountCorrection,
             PromoteLesson, LearnFails, CheckReflect, AskReflection,
             SkipReflection, BeginReflection, PlanReflection, ReflectionFails,
             RejectReflection
        <4> QED BY <4>1 DEF writing, rows
      <3> QED BY <3>1, <3>2
    <2>3. LinkingApart'
      BY <2>1 DEF LinksInv, LinkingApart, Made
    <2> QED BY <2>1, <2>2, <2>3, LinksSame
  <1>3. CASE Crash
    <2>1. UNCHANGED edges /\ UNCHANGED memories
      BY <1>3 DEF Crash, rows
    <2>2. LinkingApart'
      BY <1>3, CrashKept, WorkingOK DEF LinkingApart
    <2> QED BY <2>1, <2>2, LinksSame
  <1> QED BY <1>1, <1>2, <1>3, RememberLinks DEF Next

LEMMA TypesFollow ==
    ASSUME MemoryInv, LinksInv
    PROVE  TypeOK
  <1>1. SegmentTypeOK
    BY SegmentsFollow DEF MemoryInv
  <1>2. \A w \in Writers : writers[w].step \in WriterSteps
    BY WriterIs DEF WriterOK
  <1>3. \A n \in Notes : receipts[n] \in {"new", "queued", "repeated", "applied"}
    BY DEF MemoryInv, LearningOK
  <1>4. learner.step \in {"idle", "count", "persist", "promote"}
    BY LearnerIs, NobodyIs
  <1>5. /\ marked \subseteq {w \in Writers : Durable(w)} /\ unread \subseteq ToSet(Evidence)
        /\ reflector.step \in {"idle", "thinking", "planned"}
    BY DEF MemoryInv, WritingOK, ReflectingOK, ReflectorOK
  <1> QED BY <1>1, <1>2, <1>3, <1>4, <1>5 DEF TypeOK, LinksInv, WriterSteps

(***************************************************************************)
(* The links join two different memories that are both there, though a     *)
(* link is chosen before it is made and either end may be evicted between. *)
(***************************************************************************)
THEOREM TypeCorrect == Spec => []TypeOK
  <1>1. Init => LinksInv
    <2>1. SUFFICES ASSUME Init PROVE LinksInv
      OBVIOUS
    <2>2. edges = {} /\ writers = [w \in Writers |-> Working]
      BY <2>1 DEF Init
    <2>3. \A w \in Writers : writers[w].step = "asked"
      BY <2>2, WorkingOK
    <2> QED BY <2>2, <2>3 DEF LinksInv, LinkingApart
  <1>2. MemoryInv /\ LinksInv /\ [Next]_vars => LinksInv'
    BY LinksStep
  <1>3. MemoryInv /\ LinksInv => TypeOK
    BY TypesFollow
  <1> QED BY <1>1, <1>2, <1>3, MemoryInvariant, PTL DEF Spec

-----------------------------------------------------------------------------
(* Memory: nothing is remembered twice, and what is to last does *)

WordsAsked ==
    \A w \in Writers :
        /\ writers[w].step \in {"known", "composed", "listed"} =>
              writers[w].content \in Asked[w].contents
        /\ writers[w].step = "known" => Asked[w].route = "observation"

\* Only the lesson of a remark has the words that name it.
LessonsNamed ==
    \A m \in memories : m.kind = "lesson" /\ m.content \in Notes => m.id = LessonOf(m.content)

Observing(w) == Asked[w].route = "observation" /\ writers[w].step \in {"known", "composed"}

\* Nothing was observed yet, or it was remembered.
Seen(content) == content = "" \/ Kept(content, "user_profile", "")

\* One observation is in hand at a time; until it is committed it is the last one,
\* and the one before it is known, so that it can take its place again.
ObservedInv ==
    /\ \A w, v \in Writers : Observing(w) /\ Observing(v) => w = v
    /\ \A w \in Writers : Observing(w) =>
          /\ observed = writers[w].content /\ Seen(writers[w].before)
          /\ writers[w].step = "known" => writers[w].content = writers[w].before
    /\ (\A w \in Writers : ~ Observing(w)) => Seen(observed)

OnceInv == NoTwins /\ Lasts /\ WordsAsked /\ LessonsNamed /\ ObservedInv

KeptStay ==
    \A content, kind, source : Kept(content, kind, source) => Kept(content, kind, source)'

\* A row with the words of a request comes when no row of its kind and source has
\* them.
Remembers(row) ==
    \E w \in Writers :
        /\ writers[w].step \in {"composed", "listed"}
        /\ Twin(writers[w].content, Asked[w].kind, Asked[w].source) = {}
        /\ row.kind = Asked[w].kind /\ row.source = Asked[w].source
        /\ row.content = writers[w].content

Teaches(row) ==
    /\ learner.step = "persist" /\ learner.note \in Notes
    /\ row.kind = "lesson" /\ row.content = learner.note /\ row.id = LessonOf(learner.note)

RowComes ==
    \/ memories' \subseteq memories
    \/ \E row : /\ memories' = memories \cup {row}
                /\ Remembers(row) \/ Teaches(row) \/ row.kind = "reflection"

LEMMA TwinsFollow ==
    ASSUME BirthInv, OnceInv, RowComes
    PROVE  NoTwins' /\ LessonsNamed'
  <1>1. NoTwins /\ LessonsNamed
    BY DEF OnceInv
  <1>2. CASE memories' \subseteq memories
    BY <1>1, <1>2 DEF NoTwins, LessonsNamed
  <1>3. ASSUME NEW row, memories' = memories \cup {row},
               Remembers(row) \/ Teaches(row) \/ row.kind = "reflection"
        PROVE  NoTwins' /\ LessonsNamed'
    <2>1. /\ row.kind # "reflection" => \A m \in memories :
                ~ (m.kind = row.kind /\ m.source = row.source /\ m.content = row.content)
          /\ row.kind = "lesson" /\ row.content \in Notes => row.id = LessonOf(row.content)
      <3>1. CASE Remembers(row)
        <4>1. PICK w \in Writers :
                 /\ writers[w].step \in {"composed", "listed"}
                 /\ Twin(writers[w].content, Asked[w].kind, Asked[w].source) = {}
                 /\ row.kind = Asked[w].kind /\ row.source = Asked[w].source
                 /\ row.content = writers[w].content
          BY <3>1 DEF Remembers
        <4>2. \A m \in memories :
                 ~ (m.kind = row.kind /\ m.source = row.source /\ m.content = row.content)
          BY <4>1 DEF Twin
        <4>3. row.content \in Asked[w].contents
          BY <4>1 DEF OnceInv, WordsAsked
        <4>4. ~ (row.kind = "lesson" /\ row.content \in Notes)
          BY <4>1, <4>3, AskedAssumption
        <4> QED BY <4>2, <4>4
      <3>2. CASE Teaches(row)
        <4>1. PICK n \in Notes : /\ n = learner.note /\ row.kind = "lesson" /\ row.content = n
                                 /\ row.id = LessonOf(n) /\ learner.step = "persist"
          BY <3>2 DEF Teaches
        <4>2. ~ Born(LessonOf(n))
          BY <4>1, LessonOfBorn DEF LessonBorn
        <4>3. \A m \in memories : ~ (m.kind = "lesson" /\ m.content = n)
          <5>1. SUFFICES ASSUME NEW m \in memories, m.kind = "lesson", m.content = n
                         PROVE  FALSE
            OBVIOUS
          <5>2. m.id = LessonOf(n)
            BY <1>1, <5>1 DEF LessonsNamed
          <5>3. Born(m.id)
            BY DEF BirthInv, IdsBorn
          <5> QED BY <4>2, <5>2, <5>3
        <4> QED BY <4>1, <4>3
      <3>3. CASE row.kind = "reflection"
        BY <3>3
      <3> QED BY <1>3, <3>1, <3>2, <3>3
    <2>2. NoTwins'
      BY <1>1, <1>3, <2>1 DEF NoTwins
    <2>3. LessonsNamed'
      BY <1>1, <1>3, <2>1 DEF LessonsNamed
    <2> QED BY <2>2, <2>3
  <1> QED BY <1>2, <1>3 DEF RowComes

LEMMA KeptFollows ==
    ASSUME merged \subseteq merged', \A m \in memories : m.lasting => m \in memories'
    PROVE  KeptStay
  <1>1. SUFFICES ASSUME NEW content, NEW kind, NEW source, Kept(content, kind, source)
                 PROVE  Kept(content, kind, source)'
    BY DEF KeptStay
  <1>2. CASE <<content, kind, source>> \in merged
    BY <1>2 DEF Kept
  <1>3. CASE \E m \in memories : /\ m.lasting /\ m.kind = kind /\ m.source = source
                                 /\ m.content = content \/ {m.content, content} \in Close
    BY <1>3 DEF Kept
  <1> QED BY <1>1, <1>2, <1>3 DEF Kept

\* The requests that observe go on as they were.
LEMMA ObservedSame ==
    ASSUME ObservedInv, KeptStay, UNCHANGED observed,
           \A w \in Writers : /\ Observing(w)' <=> Observing(w)
                              /\ Observing(w) => writers'[w] = writers[w]
    PROVE  ObservedInv'
  <1>1. \A content : Seen(content) => Seen(content)'
    BY DEF KeptStay, Seen
  <1>2. \A w, v \in Writers : Observing(w)' /\ Observing(v)' => w = v
    BY DEF ObservedInv
  <1>3. ASSUME NEW w \in Writers, Observing(w)'
        PROVE  /\ observed' = writers'[w].content /\ Seen(writers[w].before)'
               /\ writers'[w].step = "known" => writers'[w].content = writers'[w].before
    <2>1. /\ writers'[w] = writers[w] /\ observed = writers[w].content
          /\ Seen(writers[w].before)
          /\ writers[w].step = "known" => writers[w].content = writers[w].before
      BY <1>3 DEF ObservedInv
    <2>2. PICK before : before = writers[w].before
      OBVIOUS
    <2>3. Seen(before)' /\ writers'[w].before = before
      BY <1>1, <2>1, <2>2
    <2>4. Seen(writers[w].before)'
      BY <2>3 DEF Seen, Kept
    <2> QED BY <2>1, <2>4
  <1>4. (\A w \in Writers : ~ Observing(w)') => Seen(observed)'
    <2>1. PICK last : last = observed
      OBVIOUS
    <2>2. (\A w \in Writers : ~ Observing(w)') => Seen(last)
      BY <2>1 DEF ObservedInv
    <2>3. Seen(last)' => Seen(observed)'
      BY <2>1 DEF Seen, Kept
    <2> QED BY <1>1, <2>2, <2>3
  <1> QED BY <1>2, <1>3, <1>4 DEF ObservedInv

LEMMA ObservedEnds ==
    ASSUME \A w \in Writers : ~ Observing(w)', Seen(observed)'
    PROVE  ObservedInv'
  BY DEF ObservedInv

LEMMA CommitRows ==
    ASSUME MemoryInv, NEW w \in Writers, CommitDurable(w) \/ CommitDirect(w)
    PROVE  /\ RowComes /\ memories \subseteq memories' /\ merged \subseteq merged'
           /\ Beside(w) /\ writers'[w].step \in {"done", "link"}
           /\ \A content, kind, source :
                 /\ content = writers[w].content /\ kind = Asked[w].kind
                 /\ source = Asked[w].source /\ Asked[w].lasting
                 => Kept(content, kind, source)'
  <1>1. /\ writers[w].step \in {"composed", "listed"}
        /\ Beside(w) /\ writers'[w].step \in {"done", "link"}
        /\ \/ \E m : /\ StandsFor(m, w, writers[w].content)
                     /\ Touched(m, w, writers[w].content)
           \/ /\ Twin(writers[w].content, Asked[w].kind, Asked[w].source) = {}
              /\ Add(Row(Made(w), writers[w].content, Asked[w].kind, Asked[w].source,
                         Asked[w].lasting, writers[w].since))
    BY RememberRows DEF CommitDurable, CommitDirect
  <1>2. PICK content, kind, source, lasting :
           /\ content = writers[w].content /\ kind = Asked[w].kind
           /\ source = Asked[w].source /\ lasting = Asked[w].lasting
    OBVIOUS
  <1>3. CASE \E m : StandsFor(m, w, content) /\ Touched(m, w, content)
    <2>1. PICK m : StandsFor(m, w, content) /\ Touched(m, w, content)
      BY <1>3
    <2>2. /\ UNCHANGED memories /\ merged \subseteq merged'
          /\ lasting /\ ~ m.lasting => <<content, kind, source>> \in merged'
      BY <1>2, <2>1 DEF Touched
    <2>3. /\ m \in memories /\ m.kind = kind /\ m.source = source
          /\ m.content = content \/ {m.content, content} \in Close
      BY <1>2, <2>1 DEF StandsFor
    <2>4. lasting => Kept(content, kind, source)'
      BY <2>2, <2>3 DEF Kept
    <2>5. \A words, sort, whence :
             /\ words = writers[w].content /\ sort = Asked[w].kind
             /\ whence = Asked[w].source /\ Asked[w].lasting
             => Kept(words, sort, whence)'
      BY <1>2, <2>4
    <2>6. RowComes /\ memories \subseteq memories' /\ merged \subseteq merged'
      BY <2>2 DEF RowComes
    <2> QED BY <1>1, <2>5, <2>6
  <1>4. CASE /\ Twin(content, kind, source) = {}
             /\ Add(Row(Made(w), content, kind, source, lasting, writers[w].since))
    <2>1. PICK row : row = Row(Made(w), content, kind, source, lasting, writers[w].since)
      OBVIOUS
    <2>2. /\ memories' = memories \cup {row} /\ UNCHANGED merged
      BY <1>4, <2>1 DEF Add
    <2>3. /\ row.kind = kind /\ row.source = source /\ row.content = content
          /\ row.lasting = lasting
      BY <2>1 DEF Row
    <2>4. Remembers(row)
      BY <1>1, <1>2, <1>4, <2>3 DEF Remembers
    <2>5. lasting => Kept(content, kind, source)'
      BY <2>2, <2>3 DEF Kept
    <2>6. \A words, sort, whence :
             /\ words = writers[w].content /\ sort = Asked[w].kind
             /\ whence = Asked[w].source /\ Asked[w].lasting
             => Kept(words, sort, whence)'
      BY <1>2, <2>5
    <2>7. RowComes /\ memories \subseteq memories' /\ merged \subseteq merged'
      BY <2>2, <2>4 DEF RowComes
    <2> QED BY <1>1, <2>6, <2>7
  <1> QED BY <1>1, <1>2, <1>3, <1>4

LEMMA RowsCome ==
    ASSUME MemoryInv, BirthInv, [Next]_vars
    PROVE  RowComes /\ KeptStay
  <1>1. CASE (SegmentNext /\ UNCHANGED memoryVars) \/ UNCHANGED vars \/ Crash
    <2>1. UNCHANGED memories /\ UNCHANGED merged
      BY <1>1 DEF vars, memoryVars, Crash, rows
    <2> QED BY <2>1, KeptFollows DEF RowComes
  <1>2. CASE Remember
    <2>1. PICK w \in Writers :
             \/ Compose(w) \/ CommitKnown(w) \/ CommitDurable(w) \/ WriterFails(w)
             \/ StartDirect(w) \/ CommitDirect(w) \/ ChooseLinks(w) \/ LinkOne(w)
             \/ Prune(w) \/ JudgeContradiction(w) \/ ListOverflow(w) \/ DropListed(w)
      BY <1>2 DEF Remember
    <2>2. CASE CommitDurable(w) \/ CommitDirect(w)
      BY <2>2, CommitRows, KeptFollows
    <2>3. CASE StartDirect(w)
      <3>1. UNCHANGED memories /\ merged \subseteq merged'
        BY <2>3, StartMoves DEF Touched, rows
      <3> QED BY <3>1, KeptFollows DEF RowComes
    <2>4. CASE DropListed(w)
      <3>1. /\ memories' = {m \in memories : m.id \notin writers[w].held}
            /\ UNCHANGED merged /\ writers[w].step = "drop"
        BY <2>4, DropMoves DEF DropListed
      <3>2. \A m \in memories : m.lasting => m \in memories'
        BY <3>1 DEF BirthInv, DropsFade
      <3> QED BY <3>1, <3>2, KeptFollows DEF RowComes
    <2>5. CASE \/ Compose(w) \/ CommitKnown(w) \/ WriterFails(w) \/ ChooseLinks(w)
               \/ LinkOne(w) \/ Prune(w) \/ JudgeContradiction(w) \/ ListOverflow(w)
      <3>1. UNCHANGED memories /\ UNCHANGED merged
        BY <2>5, RememberRows
      <3> QED BY <3>1, KeptFollows DEF RowComes
    <2> QED BY <2>1, <2>2, <2>3, <2>4, <2>5
  <1>3. CASE PersistLesson
    <2>1. PICK row : row = Row(LessonOf(learner.note), learner.note, "lesson", "", TRUE, epoch)
      OBVIOUS
    <2>2. /\ learner.step = "persist" /\ memories' = memories \cup {row} /\ UNCHANGED merged
      BY <1>3, <2>1 DEF PersistLesson, Add
    <2>3. learner.note \in Notes
      BY <1>3, PersistKept
    <2>4. Teaches(row)
      BY <2>1, <2>2, <2>3 DEF Teaches, Row
    <2> QED BY <2>2, <2>4, KeptFollows DEF RowComes
  <1>4. CASE CommitReflection
    <2>1. PICK row : row = Row(RecordOf(reflector.n), "reflection", "reflection", "", TRUE, epoch)
      OBVIOUS
    <2>2. /\ memories' = memories \cup {row} /\ UNCHANGED merged
      BY <1>4, <2>1 DEF CommitReflection, Add
    <2>3. row.kind = "reflection"
      BY <2>1 DEF Row
    <2> QED BY <2>2, <2>3, KeptFollows DEF RowComes
  <1>5. CASE (Learn \/ Reflect) /\ ~ PersistLesson /\ ~ CommitReflection
    <2>1. UNCHANGED writing
      BY <1>5 DEF Learn, Reflect, RecordFeedback, ApplyFeedback, CountCorrection,
             PromoteLesson, LearnFails, CheckReflect, AskReflection,
             SkipReflection, BeginReflection, PlanReflection, ReflectionFails,
             RejectReflection
    <2>2. UNCHANGED memories /\ UNCHANGED merged
      BY <2>1 DEF writing, rows
    <2> QED BY <2>2, KeptFollows DEF RowComes
  <1> QED BY <1>1, <1>2, <1>3, <1>4, <1>5 DEF Next

LEMMA LastsSame ==
    ASSUME Lasts, KeptStay, UNCHANGED marked
    PROVE  Lasts'
  BY DEF Lasts, KeptStay, Kept

LEMMA LastsGrow ==
    ASSUME Lasts, KeptStay, NEW w \in Writers, marked' = marked \cup {w},
           NEW content \in Asked[w].contents, NEW kind, kind = Asked[w].kind,
           NEW source, source = Asked[w].source,
           Asked[w].lasting => Kept(content, kind, source)'
    PROVE  Lasts'
  <1>1. SUFFICES ASSUME NEW v \in marked', Asked[v].lasting
                 PROVE  \E words \in Asked[v].contents :
                           Kept(words, Asked[v].kind, Asked[v].source)'
    BY DEF Lasts, Kept
  <1>2. CASE v \in marked
    <2>1. PICK words \in Asked[v].contents : Kept(words, Asked[v].kind, Asked[v].source)
      BY <1>1, <1>2 DEF Lasts
    <2>2. PICK sort, whence : sort = Asked[v].kind /\ whence = Asked[v].source
      OBVIOUS
    <2>3. Kept(words, sort, whence)'
      BY <2>1, <2>2 DEF KeptStay
    <2> QED BY <2>2, <2>3 DEF Kept
  <1>3. CASE v = w
    BY <1>1, <1>3 DEF Kept
  <1> QED BY <1>1, <1>2, <1>3

LEMMA OneWords ==
    ASSUME WordsAsked, NEW w \in Writers, Beside(w),
           writers'[w].step \in {"known", "composed", "listed"} =>
              writers'[w].content \in Asked[w].contents,
           writers'[w].step = "known" => Asked[w].route = "observation"
    PROVE  WordsAsked'
  <1>1. SUFFICES ASSUME NEW v \in Writers
                 PROVE  /\ writers'[v].step \in {"known", "composed", "listed"} =>
                              writers'[v].content \in Asked[v].contents
                        /\ writers'[v].step = "known" => Asked[v].route = "observation"
    BY DEF WordsAsked
  <1> QED BY DEF WordsAsked, Beside

LEMMA OneObserved ==
    ASSUME ObservedInv, KeptStay, UNCHANGED observed, NEW w \in Writers, Beside(w),
           ~ Observing(w), ~ Observing(w)'
    PROVE  ObservedInv'
  <1>1. \A v \in Writers : /\ Observing(v)' <=> Observing(v)
                           /\ Observing(v) => writers'[v] = writers[v]
    BY DEF Beside, Observing
  <1> QED BY <1>1, ObservedSame

\* A request beyond its commit is not in hand.
LEMMA AfterwardsKept ==
    ASSUME OnceInv, KeptStay, NEW w \in Writers, Beside(w), UNCHANGED <<observed, marked>>,
           writers[w].step \notin {"known", "composed"},
           writers'[w].step \notin {"known", "composed", "listed"}
    PROVE  Lasts' /\ WordsAsked' /\ ObservedInv'
  <1>1. ~ Observing(w) /\ ~ Observing(w)'
    BY DEF Observing
  <1>2. WordsAsked'
    BY OneWords DEF OnceInv
  <1>3. ObservedInv'
    BY <1>1, OneObserved DEF OnceInv
  <1> QED BY <1>2, <1>3, LastsSame DEF OnceInv

LEMMA ComposeKeeps ==
    ASSUME MemoryInv, OnceInv, KeptStay, NEW w \in Writers, Compose(w)
    PROVE  Lasts' /\ WordsAsked' /\ ObservedInv'
  <1>1. /\ writers[w].step = "asked" /\ Durable(w) /\ LaneFree(w) /\ UNCHANGED marked
    BY DEF Compose
  <1>2. PICK content \in Asked[w].contents :
           /\ Beside(w)
           /\ writers'[w].content = content /\ writers'[w].before = observed
           /\ \/ writers'[w].step = "composed"
              \/ /\ writers'[w].step = "known" /\ Asked[w].route = "observation"
                 /\ content = observed
           /\ observed' = IF Asked[w].route = "observation" THEN content ELSE observed
    BY ComposeMoves
  <1>3. WordsAsked'
    BY <1>2, OneWords DEF OnceInv
  <1>4. Lasts'
    BY <1>1, LastsSame DEF OnceInv
  <1>5. CASE Asked[w].route # "observation"
    <2>1. ~ Observing(w) /\ ~ Observing(w)' /\ UNCHANGED observed
      BY <1>2, <1>5 DEF Observing
    <2>2. ObservedInv'
      BY <1>2, <2>1, OneObserved DEF OnceInv
    <2> QED BY <1>3, <1>4, <2>2
  <1>6. CASE Asked[w].route = "observation"
    <2>1. \A v \in Writers : ~ Observing(v)
      <3>1. SUFFICES ASSUME NEW v \in Writers, Observing(v) PROVE FALSE
        OBVIOUS
      <3>2. Durable(v) /\ Lane(v) = Lane(w)
        BY <1>6, <3>1 DEF Observing, Durable, Lane
      <3>3. writers[v].step \in {"asked", "done"}
        BY <1>1, <3>2 DEF LaneFree
      <3> QED BY <3>1, <3>3 DEF Observing
    <2>2. PICK last : last = observed
      OBVIOUS
    <2>3. Seen(last)
      BY <2>1, <2>2 DEF OnceInv, ObservedInv
    <2>4. Seen(last)'
      BY <2>3 DEF Seen, KeptStay
    <2>5. \A v \in Writers : Observing(v)' => v = w
      BY <1>2, <2>1 DEF Observing, Beside
    <2>6. observed' = writers'[w].content /\ Seen(writers[w].before)'
      <3>1. writers'[w].before = last
        BY <1>2, <2>2
      <3> QED BY <1>2, <1>6, <2>4, <3>1 DEF Seen, Kept
    <2>7. writers'[w].step = "known" => writers'[w].content = writers'[w].before
      BY <1>2
    <2>8. Observing(w)'
      BY <1>2, <1>6 DEF Observing
    <2>9. ObservedInv'
      BY <2>5, <2>6, <2>7, <2>8 DEF ObservedInv
    <2> QED BY <1>3, <1>4, <2>9
  <1> QED BY <1>5, <1>6

\* The request in hand ends or goes back; if it observed, none does any more.
LEMMA ObservingEnds ==
    ASSUME ObservedInv, KeptStay, NEW w \in Writers, Beside(w),
           writers'[w].step \notin {"known", "composed"},
           IF Observing(w) THEN Seen(observed)' ELSE UNCHANGED observed
    PROVE  ObservedInv'
  <1>1. ~ Observing(w)'
    BY DEF Observing
  <1>2. CASE ~ Observing(w)
    BY <1>1, <1>2, OneObserved
  <1>3. CASE Observing(w)
    <2>1. \A v \in Writers : ~ Observing(v)'
      <3>1. SUFFICES ASSUME NEW v \in Writers, v # w PROVE ~ Observing(v)'
        BY <1>1
      <3>2. ~ Observing(v)
        BY <1>3, <3>1 DEF ObservedInv
      <3> QED BY <3>1, <3>2 DEF Observing, Beside
    <2> QED BY <1>3, <2>1, ObservedEnds
  <1> QED BY <1>2, <1>3

LEMMA RememberKeeps ==
    ASSUME MemoryInv, BirthInv, OnceInv, KeptStay, Remember
    PROVE  Lasts' /\ WordsAsked' /\ ObservedInv'
  <1>1. PICK w \in Writers :
           \/ Compose(w) \/ CommitKnown(w) \/ CommitDurable(w) \/ WriterFails(w)
           \/ StartDirect(w) \/ CommitDirect(w) \/ ChooseLinks(w) \/ LinkOne(w)
           \/ Prune(w) \/ JudgeContradiction(w) \/ ListOverflow(w) \/ DropListed(w)
    BY DEF Remember
  <1>2. CASE CommitKnown(w)
    <2>1. writers[w].step = "known" /\ UNCHANGED observed
      BY <1>2 DEF CommitKnown
    <2>2. Beside(w) /\ writers'[w].step = "done" /\ marked' = marked \cup {w}
      BY <1>2, CommitKnownMoves, WorkingOK DEF Ends
    <2>3. PICK content : content = writers[w].content
      OBVIOUS
    <2>4. content \in Asked[w].contents /\ Asked[w].route = "observation" /\ Observing(w)
      BY <2>1, <2>3 DEF OnceInv, WordsAsked, Observing
    <2>5. observed = content /\ Seen(content)
      BY <2>1, <2>3, <2>4 DEF OnceInv, ObservedInv
    <2>6. content # "" /\ Asked[w].kind = "user_profile" /\ Asked[w].source = ""
      BY <2>4, AskedAssumption
    <2>7. Kept(content, "user_profile", "")'
      BY <2>5, <2>6 DEF Seen, KeptStay
    <2>8. Lasts'
      BY <2>2, <2>4, <2>6, <2>7, LastsGrow DEF OnceInv
    <2>9. Seen(observed)'
      BY <2>1, <2>5, <2>7 DEF Seen, Kept
    <2>10. WordsAsked' /\ ObservedInv'
      BY <2>2, <2>4, <2>9, OneWords, ObservingEnds DEF OnceInv
    <2> QED BY <2>8, <2>10
  <1>3. CASE CommitDurable(w)
    <2>1. writers[w].step = "composed" /\ marked' = marked \cup {w} /\ UNCHANGED observed
      BY <1>3 DEF CommitDurable
    <2>2. PICK content, kind, source :
             /\ content = writers[w].content /\ kind = Asked[w].kind
             /\ source = Asked[w].source
      OBVIOUS
    <2>3. /\ Beside(w) /\ writers'[w].step \in {"done", "link"}
          /\ Asked[w].lasting => Kept(content, kind, source)'
      BY <1>3, <2>2, CommitRows
    <2>4. content \in Asked[w].contents
      BY <2>1, <2>2 DEF OnceInv, WordsAsked
    <2>5. Lasts'
      BY <2>1, <2>2, <2>3, <2>4, LastsGrow DEF OnceInv
    <2>6. Observing(w) => Seen(observed)'
      <3>1. SUFFICES ASSUME Observing(w) PROVE Seen(observed)'
        OBVIOUS
      <3>2. observed' = content
        BY <2>1, <2>2, <3>1 DEF OnceInv, ObservedInv
      <3>3. kind = "user_profile" /\ source = "" /\ Asked[w].lasting
        BY <2>2, <3>1, AskedAssumption DEF Observing
      <3> QED BY <2>3, <3>2, <3>3 DEF Seen, Kept
    <2>7. WordsAsked'
      BY <2>3, OneWords DEF OnceInv
    <2>8. ObservedInv'
      BY <2>1, <2>3, <2>6, ObservingEnds DEF OnceInv
    <2> QED BY <2>5, <2>7, <2>8
  <1>4. CASE WriterFails(w)
    <2>1. /\ UNCHANGED marked /\ writers[w].step \in {"composed", "known"}
          /\ observed' = IF Asked[w].route = "observation" THEN writers[w].before
                         ELSE observed
      BY <1>4 DEF WriterFails, Restored
    <2>2. Beside(w) /\ writers'[w].step = "asked"
      BY <1>4, WriterFailsMoves, WorkingOK
    <2>3. IF Observing(w) THEN Seen(observed)' ELSE UNCHANGED observed
      <3>1. CASE Observing(w)
        <4>1. PICK before : before = writers[w].before
          OBVIOUS
        <4>2. Seen(before) /\ observed' = before
          BY <2>1, <3>1, <4>1 DEF OnceInv, ObservedInv, Observing
        <4> QED BY <3>1, <4>2 DEF Seen, KeptStay, Kept
      <3>2. CASE ~ Observing(w)
        BY <2>1, <3>2 DEF Observing
      <3> QED BY <3>1, <3>2
    <2>4. WordsAsked'
      BY <2>2, OneWords DEF OnceInv
    <2>5. ObservedInv'
      BY <2>2, <2>3, ObservingEnds DEF OnceInv
    <2> QED BY <2>1, <2>4, <2>5, LastsSame DEF OnceInv
  <1>5. CASE StartDirect(w)
    <2>1. UNCHANGED <<observed, marked>> /\ writers[w].step = "asked"
      BY <1>5 DEF StartDirect
    <2>2. PICK content \in Asked[w].contents :
             /\ Beside(w)
             /\ \/ writers'[w].step = "done"
                \/ writers'[w].step = "listed" /\ writers'[w].content = content
      BY <1>5, StartMoves, WorkingOK DEF Ends
    <2>3. ~ Observing(w) /\ ~ Observing(w)'
      BY <2>1, <2>2 DEF Observing
    <2>4. WordsAsked'
      BY <2>2, OneWords DEF OnceInv
    <2>5. ObservedInv'
      BY <2>1, <2>2, <2>3, OneObserved DEF OnceInv
    <2> QED BY <2>1, <2>4, <2>5, LastsSame DEF OnceInv
  <1>6. CASE CommitDirect(w)
    <2>1. UNCHANGED <<observed, marked>> /\ writers[w].step = "listed"
      BY <1>6 DEF CommitDirect
    <2>2. Beside(w) /\ writers'[w].step \in {"done", "link"}
      BY <1>6, CommitRows
    <2> QED BY <2>1, <2>2, AfterwardsKept
  <1>7. CASE ChooseLinks(w) \/ LinkOne(w) \/ Prune(w) \/ JudgeContradiction(w)
             \/ ListOverflow(w) \/ DropListed(w)
    <2>1. /\ UNCHANGED <<observed, marked>>
          /\ writers[w].step \in {"link", "linking", "judge", "settle", "drop"}
      BY <1>7 DEF ChooseLinks, LinkOne, Prune, JudgeContradiction, ListOverflow, DropListed
    <2>2. Beside(w) /\ writers'[w].step \in {"linking", "judge", "settle", "drop", "done"}
      BY <1>7, ChooseMoves, LinkMoves, PruneMoves, JudgeMoves, ListMoves, DropMoves, WorkingOK
         DEF Moves, Ends
    <2> QED BY <2>1, <2>2, AfterwardsKept
  <1> QED BY <1>1, <1>2, <1>3, <1>4, <1>5, <1>6, <1>7, ComposeKeeps

\* The steps in which no request to remember goes on.
LEMMA AsideKeeps ==
    ASSUME OnceInv, KeptStay, UNCHANGED <<writers, observed, marked>>
    PROVE  Lasts' /\ WordsAsked' /\ ObservedInv'
  <1>1. \A v \in Writers : /\ Observing(v)' <=> Observing(v)
                           /\ Observing(v) => writers'[v] = writers[v]
    BY DEF Observing
  <1>2. WordsAsked'
    BY DEF OnceInv, WordsAsked
  <1> QED BY <1>1, <1>2, ObservedSame, LastsSame DEF OnceInv

LEMMA OnceStep ==
    ASSUME MemoryInv, BirthInv, OnceInv, [Next]_vars
    PROVE  OnceInv'
  <1>1. KeptStay /\ NoTwins' /\ LessonsNamed'
    BY RowsCome, TwinsFollow
  <1>2. Lasts' /\ WordsAsked' /\ ObservedInv'
    <2>1. CASE (SegmentNext /\ UNCHANGED memoryVars) \/ UNCHANGED vars
      <3>1. UNCHANGED <<writers, observed, marked>>
        BY <2>1 DEF vars, memoryVars
      <3> QED BY <1>1, <3>1, AsideKeeps
    <2>2. CASE Remember
      BY <1>1, <2>2, RememberKeeps
    <2>3. CASE Learn \/ Reflect
      <3>1. UNCHANGED <<writers, observed, marked>>
        BY <2>3 DEF Learn, Reflect, RecordFeedback, ApplyFeedback, CountCorrection,
             PersistLesson, PromoteLesson, LearnFails, CheckReflect, AskReflection,
             SkipReflection, BeginReflection, PlanReflection, ReflectionFails,
             CommitReflection, RejectReflection, writing
      <3> QED BY <1>1, <3>1, AsideKeeps
    <2>4. CASE Crash
      <3>1. observed' = "" /\ UNCHANGED marked
        BY <2>4 DEF Crash
      <3>2. \A w \in Writers : writers'[w].step \in {"asked", "done"}
        BY <2>4, CrashKept, WorkingOK
      <3>3. WordsAsked'
        BY <3>2 DEF WordsAsked
      <3>4. \A w \in Writers : ~ Observing(w)'
        BY <3>2 DEF Observing
      <3>5. Seen(observed)'
        BY <3>1 DEF Seen
      <3> QED BY <1>1, <3>1, <3>3, <3>4, <3>5, ObservedEnds, LastsSame DEF OnceInv
    <2> QED BY <2>1, <2>2, <2>3, <2>4 DEF Next
  <1> QED BY <1>1, <1>2 DEF OnceInv

LEMMA OnceStart ==
    ASSUME Init
    PROVE  OnceInv
  <1>1. /\ memories = {} /\ marked = {} /\ observed = ""
        /\ writers = [w \in Writers |-> Working]
    BY DEF Init
  <1>2. \A w \in Writers : writers[w].step = "asked"
    BY <1>1, WorkingOK
  <1>3. NoTwins /\ Lasts /\ LessonsNamed
    BY <1>1 DEF NoTwins, Lasts, LessonsNamed
  <1>4. WordsAsked
    BY <1>2 DEF WordsAsked
  <1>5. ObservedInv
    BY <1>1, <1>2 DEF ObservedInv, Observing, Seen
  <1> QED BY <1>3, <1>4, <1>5 DEF OnceInv

(***************************************************************************)
(* Nothing is remembered twice, though four routes look for the words and  *)
(* add them side by side; and what is to last is in memory to stay once    *)
(* its event is done, also after the handler failed between taking an      *)
(* observation for the last one and committing it.                         *)
(***************************************************************************)
THEOREM RememberedOnceAlways == Spec => []RememberedOnce
  <1>1. Init => OnceInv
    BY OnceStart
  <1>2. MemoryInv /\ BirthInv /\ OnceInv /\ [Next]_vars => OnceInv'
    BY OnceStep
  <1>3. ReflectionInv => MemoryInv /\ BirthInv
    BY DEF ReflectionInv
  <1>4. OnceInv => RememberedOnce
    BY DEF OnceInv, RememberedOnce
  <1> QED BY <1>1, <1>2, <1>3, <1>4, ReflectionInvariant, PTL DEF Spec
=============================================================================
