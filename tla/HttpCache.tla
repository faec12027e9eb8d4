----------------------------- MODULE HttpCache -----------------------------
(* Conditional requests, be/routers/s28_http_cache.py: the articles are rows *)
(* of SQLite, their copies are in browsers, and a 304 tells a browser that   *)
(* its copy will do. One action is the code between two awaits of one        *)
(* request; a commit is one SQLite transaction. The counters of GET /stats,  *)
(* GET /constants and max-age, within which a browser does not ask at all,   *)
(* are left out, and of an article what only POST /reset writes.             *)
EXTENDS Naturals, FiniteSets

CONSTANTS
    Articles,
    Browsers,   \* each keeps a copy of an article or of the list
    Puts,       \* PUT /article/{id}, each served once
    Resets,     \* POST /reset
    Bodies,     \* what a PUT may write
    SeedBody,   \* the body of a seeded article
    Nothing,    \* no copy
    MaxSecond   \* bound: the last second of time.time()

ASSUME HttpCacheAssumption ==
    /\ IsFiniteSet(Articles) /\ Cardinality(Articles) > 1
    /\ IsFiniteSet(Puts)
    /\ Puts \cap Resets = {}
    /\ Nothing \notin [Articles -> [body : Bodies \cup {SeedBody}, version : Nat, at : Nat]]
    /\ MaxSecond \in Nat

Writers == Puts \cup Resets
Seed == [body |-> SeedBody, version |-> 1, at |-> 0]

VARIABLES
    row,        \* news_articles
    second,     \* the second that the clock is in
    stage,      \* where each writer is
    subject,    \* the article of a PUT
    before,     \* the rows that a writer has read
    after,      \* the rows as it has changed them
    page,       \* what a browser looks at: an article, or all of them
    copy,       \* the rows in its copy
    answer,     \* by what it was last told to keep the copy, if it was, and
                \* the articles of which the copy had another body
    disturbed   \* history: the articles that a writer has changed although it
                \* had not read their last row, or set back

writing == <<stage, subject, before, after>>
browsing == <<page, copy, answer>>
hcVars == <<row, second, writing, browsing, disturbed>>

Seeded == [a \in Articles |-> Seed]

HCInit ==
    /\ row = Seeded
    /\ second = 0
    /\ stage = [w \in Writers |-> "new"]
    /\ subject \in [Puts -> Articles]
    /\ before = [w \in Writers |-> Seeded] /\ after = [w \in Writers |-> Seeded]
    /\ page \in [Browsers -> {{a} : a \in Articles} \cup {Articles}]
    /\ copy = [b \in Browsers |-> Nothing]
    /\ answer = [b \in Browsers |-> [by |-> "nothing", wrong |-> {}]]
    /\ disturbed = {}

Advance(w, from, to) ==
    /\ stage[w] = from
    /\ stage' = [stage EXCEPT ![w] = to]

----------------------------------------------------------------------------
(* PUT /article/{id} and POST /reset: SELECT, change, commit.                *)
Read(w) ==
    /\ Advance(w, "new", "change")
    /\ before' = [before EXCEPT ![w] = row]
    /\ UNCHANGED <<row, second, subject, after, browsing, disturbed>>

(* time.time() is a fraction after the beginning of its second, and twice    *)
(* the seconds and one more stand for it; the seeded times are whole.        *)
Now == 2 * second + 1

(* Mutant: the version is left alone.                                        *)
EditBody(w, body) ==
    /\ Advance(w, "change", "commit")
    /\ after' = [after EXCEPT ![w] = [before[w] EXCEPT
           ![subject[w]] = [body |-> body, version |-> @.version, at |-> Now]]]
    /\ UNCHANGED <<row, second, subject, before, browsing, disturbed>>

Edit(w, body) ==
    /\ Advance(w, "change", "commit")
    /\ after' = [after EXCEPT ![w] = [before[w] EXCEPT
           ![subject[w]] = [body |-> body, version |-> @.version + 1, at |-> Now]]]
    /\ UNCHANGED <<row, second, subject, before, browsing, disturbed>>

(* Mutant: versions begin at 0 again.                                        *)
SetBackToZero(w) ==
    /\ Advance(w, "change", "commit")
    /\ after' = [after EXCEPT ![w] = [a \in Articles |-> [Seed EXCEPT !.version = 0]]]
    /\ UNCHANGED <<row, second, subject, before, browsing, disturbed>>

SetBack(w) ==
    /\ Advance(w, "change", "commit")
    /\ after' = [after EXCEPT ![w] = Seeded]
    /\ UNCHANGED <<row, second, subject, before, browsing, disturbed>>

(* UPDATE writes the columns that differ from what the session has read.     *)
Merged(old, new, now) ==
    [column \in DOMAIN now |-> IF new[column] # old[column] THEN new[column] ELSE now[column]]

Commit(w) ==
    /\ Advance(w, "commit", "done")
    /\ row' = [a \in Articles |-> Merged(before[w][a], after[w][a], row[a])]
    /\ disturbed' = disturbed \cup
           {a \in Articles : before[w][a] # after[w][a] /\ (w \in Resets \/ before[w][a] # row[a])}
    /\ UNCHANGED <<second, subject, before, after, browsing>>

(* The commit fails, or the process dies: SQLite has no part of it.          *)
Abandon(w) ==
    /\ stage[w] \in {"change", "commit"}
    /\ stage' = [stage EXCEPT ![w] = "done"]
    /\ UNCHANGED <<row, second, subject, before, after, browsing, disturbed>>

----------------------------------------------------------------------------
(* A browser asks for its page. If it has a copy it sends the copy's ETag    *)
(* or, for an article, its Last-Modified alone, which is in whole seconds.   *)
SameArticle(c, a) == c[a] = row[a]
SameList(c) == \A a \in Articles : c[a].version = row[a].version

(* Mutant: both times are cut to the second before they are compared.        *)
NotModifiedInSeconds(c, a) == row[a].at \div 2 <= c[a].at \div 2

NotModifiedSince(c, a) == row[a].at <= 2 * (c[a].at \div 2)

Matches(b, by) ==
    \/ by = "etag" /\ page[b] # Articles /\ \A a \in page[b] : SameArticle(copy[b], a)
    \/ by = "date" /\ page[b] # Articles /\ \A a \in page[b] : NotModifiedSince(copy[b], a)
    \/ by = "list" /\ page[b] = Articles /\ SameList(copy[b])

Answer304(b) ==
    /\ copy[b] # Nothing
    /\ \E by \in {"etag", "date", "list"} :
           /\ Matches(b, by)
           /\ answer' = [answer EXCEPT ![b] =
                  [by |-> by, wrong |-> {a \in page[b] : copy[b][a].body # row[a].body}]]
    /\ UNCHANGED <<row, second, writing, page, copy, disturbed>>

(* The first request, or one that carries no validator or another one.       *)
Answer200(b) ==
    /\ copy' = [copy EXCEPT ![b] = row]
    /\ answer' = [answer EXCEPT ![b] = [by |-> "nothing", wrong |-> {}]]
    /\ UNCHANGED <<row, second, writing, page, disturbed>>

Tick ==
    /\ second < MaxSecond
    /\ second' = second + 1
    /\ UNCHANGED <<row, writing, browsing, disturbed>>

Put(w) == Read(w) \/ (\E body \in Bodies : Edit(w, body)) \/ Commit(w)
Reset(w) == Read(w) \/ SetBack(w) \/ Commit(w)

HCNext ==
    \/ \E w \in Puts : Put(w)
    \/ \E w \in Resets : Reset(w)
    \/ \E w \in Writers : Abandon(w)
    \/ \E b \in Browsers : Answer304(b) \/ Answer200(b)
    \/ Tick

HCSpec == HCInit /\ [][HCNext]_hcVars

----------------------------------------------------------------------------
Row == [body : Bodies \cup {SeedBody},
        version : 1 .. Cardinality(Puts) + 1, at : 0 .. 2 * MaxSecond + 1]

HCTypeOK ==
    /\ row \in [Articles -> Row]
    /\ second \in 0 .. MaxSecond
    /\ stage \in [Writers -> {"new", "change", "commit", "done"}]
    /\ subject \in [Puts -> Articles]
    /\ before \in [Writers -> [Articles -> Row]]
    /\ after \in [Writers -> [Articles -> Row]]
    /\ page \in [Browsers -> SUBSET Articles]
    /\ copy \in [Browsers -> {Nothing} \cup [Articles -> Row]]
    /\ answer \in [Browsers -> [by : {"nothing", "etag", "date", "list"}, wrong : SUBSET Articles]]
    /\ disturbed \subseteq Articles

(* "It changes whenever ANY article is updated" is said of the list's ETag,  *)
(* made of ids and versions. A 304 for the list is right about every article *)
(* but those with a version that came twice: of two PUTs that had read the   *)
(* same row, or after a POST /reset. The ETag of an article, made of all of  *)
(* its columns, is right even about these.                                   *)
EtagsAreHonest ==
    \A b \in Browsers :
        /\ answer[b].by = "list" => answer[b].wrong \subseteq disturbed
        /\ answer[b].by = "etag" => answer[b].wrong = {}

(* Last-Modified has no fractions, and still two PUTs in one second are not  *)
(* taken for one. A 304 by date is wrong only about an article that was set  *)
(* back, or whose writers committed in another order than they took the time.*)
DatesAreHonest ==
    \A b \in Browsers : answer[b].by = "date" => answer[b].wrong \subseteq disturbed
============================================================================
