--------------------------- MODULE MCAgentSolve ---------------------------
(***************************************************************************)
(* Instances of AgentSolve for TLC: a repository with nested titles in its *)
(* queue, and the plans that a model could give for it.                    *)
(***************************************************************************)
EXTENDS AgentSolve

AnyWord == STRING

Subject(type, cut, word) == [type |-> type, cut |-> cut, word |-> word, revert |-> FALSE]

Plain(tokens) == [NoText EXCEPT !.tokens = tokens]
Title(name, length, tokens) ==
    [NoText EXCEPT !.name = name, !.length = length, !.tokens = tokens]

Bare(n) == [qualified |-> FALSE, number |-> n]
Qualified(n) == [qualified |-> TRUE, number |-> n]

\* The queue.

Export     == Title("Add streaming export", 20, {"streaming", "export"})
ExportDocs == [Title("Add streaming export docs", 25, {"streaming", "export"})
                 EXCEPT !.quotes = {"Add streaming export"}]
ReleasePr  == [Title("Release 2.0", 11, {})
                 EXCEPT !.subject = Subject("none", FALSE, TRUE)]
Bug        == Title("Fix bug", 7, {"bug"})

Pr(number, title) ==
    [number |-> number, title |-> title, titled |-> TRUE, labels |-> "texts",
     labelsAsOfT |-> FALSE]

NestedQueue == <<Pr(7, Export), [Pr(8, Export) EXCEPT !.titled = FALSE], Pr(9, ExportDocs)>>
ReleaseQueue == <<Pr(5, ReleasePr), Pr(6, Bug)>>
OldQueue == <<Pr(NoNumber, Bug)>>

\* Items of a plan.

Item(kind, title) ==
    [titled |-> TRUE, kind |-> kind, title |-> title, rationale |-> NoText, theme |-> {},
     files |-> {}, restates |-> NoNumber, size |-> 4]

Loader   == Item("feat", Plain({"loader", "src"}))
Untitled == [Loader EXCEPT !.titled = FALSE]
Docs     == [Item("docs", Plain({"guide"})) EXCEPT !.files = {"docs"}, !.theme = {"loader"}]

\* "Deliver our #9 priority, then review #7"
Ordinal == Item("feature", [Plain({"deliver", "priority"}) EXCEPT
                              !.refs = <<Bare(9), Bare(7)>>, !.governed = 7, !.review = TRUE])
\* The model itself says what its item restates.
Claimed == [Docs EXCEPT !.restates = 7]
\* "Our #7 priority: the loader"
OrdinalOnly == Item("feature", [Plain({"loader"}) EXCEPT !.refs = <<Bare(7)>>])
\* "Finish PR #99, streaming export"
Stale == Item("bug", [Plain({"streaming", "export"}) EXCEPT !.refs = <<Qualified(99)>>])
\* "Add streaming export docs and examples"
Nested == Item("feature", [Plain({"streaming", "export", "examples"}) EXCEPT
                             !.quotes = {"Add streaming export", "Add streaming export docs"}])
\* "Write the streaming export"
Overlap == Item("unheard-of", Plain({"streaming", "export"}))

Cut       == Item("release", Plain({"cut"}))
CutByName == Item("chore", [Plain({"cut"}) EXCEPT !.subject = Subject("chore", TRUE, FALSE)])
CutWord   == Item("feature", [Plain({"cut"}) EXCEPT !.subject = Subject("none", FALSE, TRUE)])
ReviewCut == Item("triage", [Plain({"cut"}) EXCEPT !.subject = Subject("none", FALSE, TRUE),
                                                  !.refs = <<Qualified(5)>>, !.governed = 5,
                                                  !.review = TRUE])

\* Replies.

Content(payload) ==
    [kind |-> "content", fences |-> <<>>, whole |-> payload, spans |-> <<>>]
Fenced(payloads) ==
    [kind |-> "content", fences |-> payloads, whole |-> Nothing, spans |-> <<>>]
Spans(payloads) ==
    [kind |-> "content", fences |-> <<[shape |-> "null", size |-> 4]>>, whole |-> Nothing,
     spans |-> payloads]
Envelope == [kind |-> "envelope", fences |-> <<>>, whole |-> Nothing, spans |-> <<>>]
NoJson == Content(Nothing)

List(items) == [shape |-> "list", size |-> Len(items), items |-> items]
Object(form, items, actions) ==
    [shape |-> "object", size |-> 1, plan |-> form, items |-> items, actions |-> actions]

SmallPlans == {<<>>, <<Loader, Docs>>, <<Docs, Nested>>, <<Claimed>>} \cup {<<a>> : a \in {Loader, Untitled, Cut, CutByName, CutWord, ReviewCut,
                                          Ordinal, OrdinalOnly, Stale, Nested, Overlap}}
LongPlans ==
    {<<a, b, c>> : a \in {Loader, Docs, CutWord, Ordinal},
                   b \in {Loader, Nested, Stale, Cut},
                   c \in {Overlap, Docs, ReviewCut}}

Plans ==
    {Envelope, NoJson}
    \cup {Content(List(p)) : p \in SmallPlans \cup LongPlans}
    \cup {Content(Object("list", <<>>, <<Loader>>)), Content(Object("other", <<>>, <<Loader>>)),
          Fenced(<<List(<<Loader, Cut>>), Object("list", <<Docs>>, <<>>)>>),
          Spans(<<List(<<Loader>>), List(<<Stale>>)>>)}

Philosophies ==
    {Envelope, Content([shape |-> "object", size |-> 1, summary |-> "text", values |-> "text"])}

Lenses == {Content([shape |-> "object", size |-> 1, verdict |-> "text"])}

Answer(action, bump, labels, reviewer, patch) ==
    [shape |-> "object", size |-> 1, action |-> action, bump |-> bump, labels |-> labels,
     reviewer |-> reviewer, patch |-> patch]

Answers ==
    {Envelope,
     Content(List(<<>>)),
     Content(Answer("reject", "minor", "text", "number", "blank")),
     Content(Answer("lgtm", "junk", "object", "blank", "text")),
     Fenced(<<Answer("plan", "none", "list", "text", "null"),
              Answer("object", "major", "blank", "object", "object")>>)}

\* What gh answers of a pull request, and what is made of it.

View(json, author, files, paths, diff) ==
    [json |-> json, author |-> author, files |-> files, paths |-> paths, diff |-> diff]

PullViews ==
    {View("missing", "null", "other", <<>>, "text"), View("malformed", "null", "other", <<>>, "text"),
     View("json", "text", "list", <<"agent">>, "missing"),
     View("json", "object", "list", <<"unusable", "agent", "tests">>, "text"),
     View("json", "text", "list", <<"docs", "tests">>, "text"),
     View("json", "null", "other", <<>>, "text")}

Verdict(action, label, bool, value) ==
    [shape |-> "object", size |-> 1, action |-> action, value_label |-> label, scope_ok |-> bool,
     tests_present |-> bool, summary |-> value, concerns |-> value, recommendation |-> value]

Verdicts ==
    {Envelope, NoJson, Content(List(<<>>)),
     Content(Verdict("approve", "mult:pending", "yes", "text")),
     Content(Verdict("number", "object", "blank", "null")),
     Content(Verdict("lgtm", "pending", "zero", "zero")),
     Fenced(<<Verdict("hold", "null", "list", "list"), Verdict("decline", "text", "number", "object")>>)}

\* Checkouts.

Entry(name, tokens, excluded) ==
    [name |-> name, tokens |-> tokens, excluded |-> excluded, plain |-> name # "src,old"]
Listing == <<Entry(".git", {"git"}, TRUE), Entry("docs", {"docs"}, FALSE),
             Entry("loader", {"loader"}, FALSE), Entry("src", {"src"}, FALSE),
             Entry("src,old", {"src", "guide"}, FALSE)>>

Commit(type, cut, day) ==
    [subject |-> Subject(type, cut, FALSE), day |-> day, automation |-> type = "chore" /\ ~cut,
     forward |-> TRUE]

Release(version, day) == [tag |-> version, name |-> NoVersion, day |-> day, forward |-> FALSE]

\* Just cut, dated; just cut, undated; long ago; many commits ago; in the middle; never.
Histories ==
    [dated   |-> <<Commit("fix", FALSE, 40), Commit("chore", TRUE, 36)>>,
     undated |-> <<Commit("fix", FALSE, Unknown), Commit("chore", TRUE, Unknown)>>,
     old     |-> <<Commit("fix", FALSE, 40), Commit("build", TRUE, 5)>>,
     busy    |-> [i \in 1 .. 4 |-> Commit("feat", FALSE, Unknown)] \o <<Commit("chore", TRUE, Unknown)>>,
     middle  |-> <<Commit("chore", FALSE, 40), Commit("deps", FALSE, 39), Commit("chore", TRUE, 20)>>,
     never   |-> <<Commit("chore", FALSE, 40), Commit("chore", FALSE, 39)>>]

Memory == [mode |-> "benchmark", boundary |-> TRUE, items |-> <<3, Unknown, 30>>]

Frozen(history, queue, releases, partial) ==
    [object |-> TRUE, source |-> "github", frozenAt |-> 40, commits |-> history, prs |-> queue,
     releases |-> releases, issuesTruncated |-> partial, releasesTruncated |-> partial,
     memory |-> IF partial THEN [Memory EXCEPT !.boundary = FALSE] ELSE Memory,
     readme |-> 1, size |-> 118, layout |-> <<>>]

Checkout(file, frozen, head, legible, history) ==
    [file |-> file, frozen |-> frozen, head |-> head, legible |-> legible, day |-> 40,
     commits |-> history,
     tags |-> <<[day |-> 10, release |-> Release(<<1, 0, 0>>, Unknown)],
                [day |-> Unknown, release |-> Release(<<1, 1, 0>>, Unknown)],
                [day |-> 50, release |-> Release(<<2, 0, 0>>, Unknown)]>>,
     readmes |-> <<"absent", "empty", "text">>, listing |-> Listing, size |-> 50]

Versions == <<Release(<<1, 9, 0>>, Unknown), Release(<<1, 10, 0>>, Unknown),
              [Release(NoVersion, Unknown) EXCEPT !.name = <<1, 10, 1>>]>>

FrozenContexts ==
    {Frozen(Histories[h], q, r, partial) :
        h \in DOMAIN Histories, q \in {NestedQueue, ReleaseQueue, OldQueue},
        r \in {<<>>, Versions, <<Release(<<1, 0, 0>>, 30)>>}, partial \in BOOLEAN}

Repositories ==
    {Checkout("object", c, TRUE, TRUE, c.commits) : c \in FrozenContexts}
    \cup {Checkout(f, NotAnObject, TRUE, TRUE, Histories[h]) :
            f \in {"absent", "unreadable", "list"}, h \in DOMAIN Histories}
    \cup {Checkout("absent", NotAnObject, FALSE, TRUE, <<>>),
          Checkout("unreadable", NotAnObject, TRUE, FALSE, Histories.middle)}
=============================================================================
