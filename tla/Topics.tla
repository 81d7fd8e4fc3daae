------------------------------- MODULE Topics -------------------------------
(***************************************************************************)
(* MQTT Topic Names and Filters as NATS subjects (topic/, subjectcodec.go, *)
(* dollar.go), what a subscription is delivered through them (bindNATS,    *)
(* deliveryOf), and the subjects a replay of the offline queue reads for a *)
(* set of subscriptions (replayFilters).                                   *)
(*                                                                         *)
(* A string is a sequence of symbols.  A symbol is one character, except   *)
(* for the words that are told apart only as a whole: "$queue" stands for  *)
(* each of the broker's own first levels, "$sys" for any other word that   *)
(* begins with a dollar.  "*" and ">", with their escapes "s" and "g",     *)
(* stand for every character NATS cannot carry.  The subject prefix is     *)
(* left out.                                                               *)
(***************************************************************************)
EXTENDS Naturals, Sequences, SequencesExt, FiniteSets

CONSTANT Settings  \* Settings[k]: names, filters and options, of which Init chooses one

ASSUME TopicsAssumption ==
    \A k \in DOMAIN Settings :
        /\ DOMAIN Settings[k] = {"names", "filters", "subs", "escape", "restrict"}
        /\ Settings[k].escape \in BOOLEAN /\ Settings[k].restrict \in BOOLEAN

VARIABLES
    setting,  \* the choice
    subs,     \* the session's subscriptions, as the filters a SUBSCRIBE named
    adding,   \* replayFilters: the subjects to be added
    out       \* replayFilters: the subjects so far

vars == <<setting, subs, adding, out>>

\* escape is Options.EscapeNATSWildcards, restrict Options.RestrictDollarTopics.
use == Settings[setting]

has(s, c) == \E i \in DOMAIN s : s[i] = c
hasPrefix(s, p) == Len(p) <= Len(s) /\ SubSeq(s, 1, Len(p)) = p
startsWith(s, C) == s # <<>> /\ s[1] \in C
dollar == {"$share", "$queue", "$sys"}

\* strings.Split by one character.
split(s, c) ==
    LET parts[i \in 0..Len(s)] ==
            IF i = 0 THEN <<<<>>>>
            ELSE LET p == parts[i - 1]
                 IN  IF s[i] = c THEN Append(p, <<>>) ELSE [p EXCEPT ![Len(p)] = Append(@, s[i])]
    IN  parts[Len(s)]

join(parts, c) == Tail(FlattenSeq([i \in DOMAIN parts |-> <<c>> \o parts[i]]))

-----------------------------------------------------------------------------
(* Validation.                                                             *)

reserved(s) == split(s, "/")[1] = <<"$queue">>

\* validateCommon.
validCommon(s) == s # <<>> /\ (use.escape \/ (~has(s, "*") /\ ~has(s, ">")))

validateName(n) == validCommon(n) /\ ~has(n, "+") /\ ~has(n, "#") /\ ~reserved(n)

isShared(f) == hasPrefix(f, <<"$share", "/">>)

\* SplitShared: the ShareName, the filter and whether it is well formed.
splitShared(f) ==
    IF ~isShared(f) THEN [share |-> <<>>, filter |-> f, ok |-> TRUE]
    ELSE LET rest == SubSeq(f, 3, Len(f))
             share == split(rest, "/")[1]
             inner == SubSeq(rest, Len(share) + 2, Len(rest))
         IN  [share |-> share, filter |-> inner,
              ok |-> share # <<>> /\ inner # <<>> /\ ~has(share, "+") /\ ~has(share, "#")]

validateFilterLevels(f) ==
    LET levels == split(f, "/")
    IN  /\ f # <<>>
        /\ \A i \in DOMAIN levels :
              /\ has(levels[i], "+") => levels[i] = <<"+">>
              /\ has(levels[i], "#") => levels[i] = <<"#">> /\ i = Len(levels)

validateFilter(f) ==
    LET s == splitShared(f)
    IN  validCommon(f) /\ s.ok /\ ~reserved(s.filter) /\ validateFilterLevels(s.filter)

dollarName(n) == startsWith(n, dollar)

dollarFilter(f) == startsWith(splitShared(f).filter, dollar)

-----------------------------------------------------------------------------
(* Match.                                                                  *)

\* The loop over the levels of the filter.
levelsMatch(f, n) ==
    LET differs == {i \in DOMAIN f : i > Len(n) \/ f[i] \notin {<<"+">>, n[i]}}
        hash == {i \in DOMAIN f : f[i] = <<"#">>}
    IN  \/ \E k \in hash : \A i \in differs : k <= i
        \/ differs = {} /\ hash = {} /\ Len(f) = Len(n)

Match(filter, name) ==
    LET f == splitShared(filter).filter
    IN  /\ splitShared(filter).ok /\ f # <<>> /\ name # <<>>
        /\ ~(startsWith(name, dollar) /\ startsWith(f, {"#", "+"}))
        /\ levelsMatch(split(f, "/"), split(name, "/"))

-----------------------------------------------------------------------------
(* Subjects.                                                               *)
escaped(c) == IF c = "*" THEN "s" ELSE "g"
escapes(l) == IF l = "s" THEN "*" ELSE ">"
lastByte(s) == IF s = <<>> THEN "" ELSE Last(s)

\* Mutant: a slash is written alike after a dot of the subject.
slashAfterAny(s, i, o) ==
    IF i = 1 THEN <<"/", ".">>
    ELSE IF i = Len(s) \/ s[i + 1] = "/" THEN <<".", "/">>
    ELSE <<".">>

\* What a slash at i of s becomes, after the subject o of what is before it.
slash(s, i, o) ==
    IF i = 1 \/ lastByte(o) = "." THEN <<"/", ".">>
    ELSE IF i = Len(s) \/ s[i + 1] = "/" THEN <<".", "/">>
    ELSE <<".">>

escape(c) == <<"/", escaped(c)>>

convert(s, wildcards) ==
    LET char(o, i) ==
            CASE s[i] = "/" -> slash(s, i, o)
              [] s[i] = "." -> <<"/", "/">>
              [] s[i] \in {"*", ">"} /\ use.escape -> escape(s[i])
              [] s[i] = "+" /\ wildcards -> <<"*">>
              [] s[i] = "#" /\ wildcards -> <<">">>
              [] OTHER -> <<s[i]>>
        b[i \in 0..Len(s)] == IF i = 0 THEN <<>> ELSE LET o == b[i - 1] IN o \o char(o, i)
        all == b[Len(s)]
    IN  IF lastByte(all) = "." THEN Append(all, "/") ELSE all

nameToSubject(n) == convert(n, FALSE)

filterToSubject(f) == convert(splitShared(f).filter, TRUE)

\* At a slash, the character after it tells what both stand for; a slash before
\* any other, or at the end, is padding.
subjectToName(s) ==
    LET pair(i) == s[i] = "/" /\ i < Len(s) /\ s[i + 1] \in {".", "/", "s", "g"}
        second[i \in 0..Len(s)] == i > 1 /\ ~second[i - 1] /\ pair(i - 1)
        char(i) == IF second[i] THEN <<>>
                   ELSE IF pair(i) THEN CASE s[i + 1] = "." -> <<"/">>
                                          [] s[i + 1] = "/" -> <<".">>
                                          [] OTHER -> <<escapes(s[i + 1])>>
                   ELSE CASE s[i] = "/" -> <<>>
                          [] s[i] = "." -> <<"/">>
                          [] OTHER -> <<s[i]>>
    IN  FlattenSeq([i \in DOMAIN s |-> char(i)])

\* Mutant: "#" has no companion.
ParentSubjectNone(s) == {}

\* ParentSubject, as the set of the one subject or none.
ParentSubject(s) ==
    IF Len(s) >= 3 /\ IsSuffix(<<".", ">">>, s) THEN {SubSeq(s, 1, Len(s) - 2)} ELSE {}

\* External: whether NATS delivers what is published on a subject to a filter,
\* both as their tokens.
natsMatches(ft, st) ==
    IF Last(ft) = <<">">>
    THEN Len(st) >= Len(ft) /\ \A i \in 1..(Len(ft) - 1) : ft[i] \in {<<"*">>, st[i]}
    ELSE Len(st) = Len(ft) /\ \A i \in DOMAIN ft : ft[i] \in {<<"*">>, st[i]}

tokens(s) == split(s, ".")

\* Whether a SUBSCRIBE or a PUBLISH is accepted.
subscribes(f) == validateFilter(f) /\ ~(use.restrict /\ dollarFilter(f))
publishes(n) == validateName(n) /\ ~(use.restrict /\ dollarName(n))

\* bindNATS: the NATS subscriptions behind a filter.
bound(f) == {filterToSubject(f)} \cup ParentSubject(filterToSubject(f))

\* deliveryOf: the check against the filter itself.
deliveryOf(f, s) == Match(f, subjectToName(s))

\* How often a copy on s is delivered to f, which the subjects B are bound for.
deliveries(f, B, s) == Cardinality({b \in B : natsMatches(tokens(b), tokens(s)) /\ deliveryOf(f, s)})

-----------------------------------------------------------------------------
(* replayFilters.                                                          *)
queuedSubject(s) == <<"$queue", ".">> \o s

\* covers: the loop over the tokens of a.
covers(a, b) ==
    LET at == tokens(a) bt == tokens(b)
        fails == {i \in DOMAIN at : i > Len(bt) \/ bt[i] = <<">">> \/ at[i] \notin {<<"*">>, bt[i]}}
        ends == {i \in DOMAIN at : at[i] = <<">">>}
    IN  \/ \E k \in ends : (\A i \in fails : k <= i) /\ Len(bt) >= k
        \/ fails = {} /\ ends = {} /\ Len(at) = Len(bt)

subjectsOverlap(a, b) ==
    LET at == tokens(a) bt == tokens(b)
        both == DOMAIN at \cap DOMAIN bt
        ends == {i \in both : <<">">> \in {at[i], bt[i]}}
        fails == {i \in both : at[i] # bt[i] /\ <<"*">> \notin {at[i], bt[i]}}
    IN  \/ \E k \in ends : \A i \in fails : k <= i
        \/ ends = {} /\ fails = {} /\ Len(at) = Len(bt)

\* Mutant: the narrower of two that cross is kept.
joinSubjectsFirst(a, b) == a

joinSubjects(a, b) ==
    LET at == tokens(a) bt == tokens(b)
        both == DOMAIN at \cap DOMAIN bt
        ends == {i \in both : <<">">> \in {at[i], bt[i]}}
        len == IF ends = {} THEN Cardinality(both) ELSE CHOOSE k \in ends : \A i \in ends : k <= i
    IN  join([i \in 1..len |-> IF i \in ends THEN <<">">>
                               ELSE IF at[i] = bt[i] THEN at[i] ELSE <<"*">>], ".")

\* f has taken the place of the ith, and is compared with the rest again.
merged(f, i) == out' = RemoveAt(out, i) /\ adding' = <<f>> \o Tail(adding)

\* One round of the loop of add, for the subject at the head of adding.
Add ==
    /\ adding # <<>>
    /\ LET f == Head(adding)
           i == SelectInSeq(out, LAMBDA have : subjectsOverlap(have, f))
       IN  IF i = 0 THEN out' = Append(out, f) /\ adding' = Tail(adding)
           ELSE IF covers(out[i], f) THEN adding' = Tail(adding) /\ UNCHANGED out
           ELSE merged(IF covers(f, out[i]) THEN f ELSE joinSubjects(out[i], f), i)
    /\ UNCHANGED <<setting, subs>>

\* A SUBSCRIBE, and the replay's subjects for it: the set is folded in any order,
\* as the session's map of subscriptions is read.
Subscribe(f) ==
    /\ adding = <<>> /\ Cardinality(subs) < use.subs /\ f \notin subs
    /\ subscribes(f)
    /\ subs' = subs \cup {f}
    /\ LET s == filterToSubject(f)
       IN  adding' = IF splitShared(f).share # <<>> THEN <<>>
                     ELSE <<queuedSubject(s)>> \o SetToSeq({queuedSubject(p) : p \in ParentSubject(s)})
    /\ UNCHANGED <<setting, out>>

Init == setting \in DOMAIN Settings /\ subs = {} /\ adding = <<>> /\ out = <<>>

Next == Add \/ \E f \in use.filters : Subscribe(f)

Spec == Init /\ [][Next]_vars

-----------------------------------------------------------------------------
names == {n \in use.names : publishes(n)}

\* Reference: MQTT-5.0 4.7, level by level.
matchesRef(filter, name) ==
    LET f == split(splitShared(filter).filter, "/") n == split(name, "/")
        fixed == IF Last(f) = <<"#">> THEN Front(f) ELSE f
    IN  /\ IF Last(f) = <<"#">> THEN Len(n) >= Len(fixed) ELSE Len(n) = Len(fixed)
        /\ \A i \in DOMAIN fixed : fixed[i] = <<"+">> \/ fixed[i] = n[i]
        /\ name[1] \in dollar => f[1] \notin {<<"+">>, <<"#">>}

\* A name comes back from its subject as it was published, escaped or not
\* (SubjectToName: "The conversion is exact"), and its subject is one NATS takes:
\* no token is empty and none is a wildcard.
NameComesBack ==
    \A n \in names :
        LET s == nameToSubject(n)
        IN  /\ subjectToName(s) = n
            /\ \A i \in DOMAIN tokens(s) : tokens(s)[i] \notin {<<>>, <<"*">>, <<">">>}

\* A subscription is delivered a message once if MQTT says its filter matches the
\* name, and otherwise not at all, through NATS's coarser and finer wildcards, the
\* second NATS subscription of "#" and the handler's check.
DeliveredAsMatched ==
    Cardinality(subs) = 1 => \A f \in subs :
        LET B == bound(f)
        IN  \A n \in names : deliveries(f, B, nameToSubject(n)) = IF matchesRef(f, n) THEN 1 ELSE 0

\* A replay reads every message that one of the session's own subscriptions
\* matches, whatever was folded together (replayFilters).
ReplayReadsAll ==
    adding = <<>> => \A f \in subs, n \in names :
        splitShared(f).share = <<>> /\ matchesRef(f, n)
        => \E i \in DOMAIN out : natsMatches(tokens(out[i]), tokens(queuedSubject(nameToSubject(n))))
=============================================================================
