------------------------------ MODULE MCMemory ------------------------------
(***************************************************************************)
(* Memory on small instances.  Each budget is a theme of its own: the      *)
(* conversation; the requests to remember; the remarks; the reflections;   *)
(* and the facts that all of them learn.                                   *)
(***************************************************************************)
EXTENDS Memory

Claim(predicate, value, mode) ==
    [subject |-> User, aliases |-> {}, predicate |-> predicate, value |-> value,
     polarity |-> 1, mode |-> mode, until |-> Never, asserted |-> TRUE, vague |-> FALSE]

Turn(speaker, at, topics, ack, breaks, claims) ==
    [speaker |-> speaker, at |-> at, topics |-> topics, ack |-> ack,
     breaks |-> breaks, claims |-> claims]

Oslo == Claim("city", "oslo", "")
Rome == Claim("city", "rome", "")
Tea == Claim("likes", "tea", "")

MCText ==
    [h1 |-> Turn("user", 1, {"home"}, FALSE, FALSE, {Oslo}),
     n1 |-> Turn("nyx", 1, {"home"}, FALSE, FALSE, {}),
     h2 |-> Turn("user", 2, {"work"}, FALSE, TRUE, {Rome}),
     h3 |-> Turn("user", 3, {"work"}, FALSE, FALSE, {Tea})]

MCStatements == {<<>>, <<Oslo>>, <<Rome>>, <<Tea>>, <<Oslo, Rome>>, <<Rome, Oslo, Tea>>}

Judged(kind, high, cites, names, topics) ==
    [kind |-> kind, high |-> high, cites |-> cites, names |-> names, topics |-> topics]

MCJudgements == {Judged("user_profile", FALSE, TRUE, TRUE, {}),
                 Judged("conversation", FALSE, FALSE, FALSE, {"work"})}

Wish(route, kind, contents, source, lasting, claims, scope) ==
    [route |-> route, kind |-> kind, contents |-> contents, source |-> source,
     lasting |-> lasting, claims |-> claims, scope |-> scope]

MCAsked ==
    [w1 |-> Wish("scene", "episode", {"walk"}, "", FALSE, <<Oslo>>, "conversation"),
     w2 |-> Wish("scene", "episode", {"walk", "rain"}, "", FALSE, <<Rome>>, "conversation"),
     w3 |-> Wish("scene", "user_profile", {"gaming"}, "", FALSE, <<>>, "conversation"),
     a1 |-> Wish("activity", "activity", {"poem"}, "", FALSE, <<>>, "knowledge"),
     o1 |-> Wish("observation", "user_profile", {"gaming"}, "", TRUE, <<>>, "profile"),
     o2 |-> Wish("observation", "user_profile", {"gaming"}, "", TRUE, <<>>, "profile"),
     k1 |-> Wish("direct", "knowledge", {"stars"}, "", TRUE, <<>>, "knowledge"),
     k2 |-> Wish("direct", "knowledge", {"stars"}, "", TRUE, <<>>, "knowledge"),
     b1 |-> Wish("direct", "knowledge", {"stars"}, "atlas", TRUE, <<>>, "knowledge"),
     b2 |-> Wish("direct", "knowledge", {"stars", "suns"}, "atlas", TRUE, <<>>, "knowledge"),
     l1 |-> Wish("lesson", "lesson", {"tool"}, "", TRUE, <<>>, "conversation")]

MCClose == {{"stars", "suns"}}
MCAkin == {{"walk", "rain"}, {"stars", "rain"}}

Said(words, at, correction, claims) ==
    [words |-> words, at |-> at, topic |-> "tone", correction |-> correction,
     claims |-> claims]

MCRemark ==
    [r1 |-> Said("too long", 0, TRUE, <<Claim("city", "bern", "")>>),
     r2 |-> Said("too long", 0, TRUE, <<>>),
     r3 |-> Said("too loud", 0, TRUE, <<Claim("reply", "loud", "multi")>>),
     r4 |-> Said("too late", 0, TRUE, <<>>)]

MCEvidence == <<"e1", "e2">>

Nothing == [turns |-> 0, maintenance |-> 0, ticks |-> 0, faults |-> 0, wishes |-> {},
            notes |-> 0, requests |-> 0, reflections |-> 0, crashes |-> 0]

Talk == [Nothing EXCEPT !.turns = 3, !.maintenance = 1, !.ticks = 3]
Halt == [Nothing EXCEPT !.turns = 3, !.ticks = 3, !.faults = 1]
Fade == [Nothing EXCEPT !.wishes = {"w1", "w2", "a1"}, !.faults = 1, !.crashes = 1]
Stay == [Nothing EXCEPT !.wishes = {"k1", "k2", "o1", "o2", "l1"}, !.faults = 1]
Cite == [Nothing EXCEPT !.wishes = {"k1", "b1", "b2"}]
Wane == [Nothing EXCEPT !.wishes = {"w1", "w3", "o1"}, !.faults = 1]
Mend == [Nothing EXCEPT !.notes = 4, !.faults = 1, !.crashes = 1]
Muse == [Nothing EXCEPT !.wishes = {"w1", "w2"}, !.requests = 1, !.reflections = 2]
Look == [Nothing EXCEPT !.wishes = {"l1"}, !.requests = 2, !.reflections = 2,
                        !.faults = 1, !.ticks = 1]
Wake == [Nothing EXCEPT !.requests = 2, !.reflections = 3, !.crashes = 1]
Mixed == [Nothing EXCEPT !.turns = 1, !.ticks = 2, !.maintenance = 1, !.wishes = {"w1"},
                         !.notes = 1]

MCBudgets == {Talk, Halt, Fade, Stay, Cite, Wane, Mend, Muse, Look, Wake, Mixed}
=============================================================================
