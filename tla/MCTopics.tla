------------------------------ MODULE MCTopics ------------------------------
EXTENDS Topics, TLC

strings(C, n) == {s \in BoundedSeq(C, n) : s # <<>>}

\* Levels of one character, joined by slashes.
levels(L, n) == {join([i \in DOMAIN s |-> <<s[i]>>], "/") : s \in strings(L, n)}

twoLevels == levels({"a", "b", "+", "#"}, 2)
threeLevels == levels({"a", "b", "+", "#"}, 3)
crossing == levels({"a", "+", "#"}, 3)
levelNames == levels({"a", "b"}, 3)
slashNames == strings({"a", "/", "."}, 5)
slashFilters == strings({"a", "/", ".", "+", "#"}, 4)
escapeNames == strings({"s", "*", "/", "."}, 4)
escapeFilters == strings({"s", "*", "/", "+", "#"}, 4)
dollarNames == strings({"$queue", "$sys", "a", "/"}, 3)
inner == strings({"$queue", "$sys", "a", "/", "+", "#"}, 3)
dollarFilters == inner \cup {<<"$share", "/", "a", "/">> \o f : f \in inner}
                       \cup strings({"$share", "a", "/", "#"}, 4)

sample(n, f, k, e, r) == [names |-> n, filters |-> f, subs |-> k, escape |-> e, restrict |-> r]

\* Three subscriptions, or two of more levels, whose subjects cover and cross each
\* other; empty levels and dots; what NATS cannot carry, with the letters that
\* stand for it; words that begin with a dollar, and shared subscriptions.
MCSettings == <<sample(levelNames, twoLevels, 3, FALSE, TRUE),
                sample(levelNames, crossing, 3, FALSE, TRUE),
                sample(levelNames, threeLevels, 2, FALSE, TRUE),
                sample(slashNames, slashFilters, 1, FALSE, TRUE),
                sample(escapeNames, escapeFilters, 1, TRUE, TRUE),
                sample(escapeNames, escapeFilters, 1, FALSE, TRUE),
                sample(dollarNames, dollarFilters, 1, FALSE, TRUE),
                sample(dollarNames, dollarFilters, 1, FALSE, FALSE)>>
=============================================================================
