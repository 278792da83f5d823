---------------------------- MODULE PriceHistory ----------------------------
(***************************************************************************)
(* What is stored of one item's prices and what is shown of it: the        *)
(* relevance filter at ingest (parsers.py, matching.py), the deduplication *)
(* and the statements of terminalize that store the survivors (scrape.py), *)
(* and, in views.py, the replay behind Latest price, the detail chart and  *)
(* the list sparkline, and the item's status in the list.                  *)
(*                                                                         *)
(* Only changes are stored, so what is shown is right only if the replay   *)
(* of the stored rows gives back what the vendor answered.  Runs are       *)
(* numbered in the order of WebUpdate.timestamp; their units may be        *)
(* fetched in any order and overlap.  A candidate is a title, a price and  *)
(* a category; a price is Out for a result out of stock, whose price       *)
(* column is null (scrape.py:751).                                         *)
(***************************************************************************)
EXTENDS Naturals, Sequences, FiniteSets

CONSTANTS
    Titles,      \* titles a vendor may return
    Sources,     \* the item's sources; numbers, the order of their keys
    JSONSources, \* those whose parser filters at ingest
    Cats,        \* categories
    MaxPrice,    \* prices in stock are 1 .. MaxPrice
    MaxLen,      \* candidates of an answer
    Pages,       \* answers of a vendor, sequences of candidates
    Criteria,    \* relevance criteria an operator may set
    MaxRuns,     \* runs
    MaxEdits,    \* edits of the criteria or the links
    Workers,     \* units under way at the same time, the consumer's threads
    MaxAnswers,  \* answers with results, over all units
    MaxFaults    \* units that fail or die half way

Out == 0
Runs == 1 .. MaxRuns
Prices == Out .. MaxPrice
Candidate == [title : Titles, price : Prices, cat : Cats]
Criterion == [expected : SUBSET Cats, excluded : SUBSET Titles]

ASSUME ConstantsOK ==
    /\ Sources \subseteq Nat /\ JSONSources \subseteq Sources
    /\ MaxPrice \in Nat /\ MaxRuns \in Nat /\ Workers \in Nat
    /\ MaxAnswers \in Nat /\ MaxEdits \in Nat /\ MaxFaults \in Nat
    /\ MaxLen \in Nat /\ Pages \subseteq UNION {[1 .. n -> Candidate] : n \in 0 .. MaxLen}
    /\ Criteria \subseteq Criterion /\ Criteria # {}

VARIABLES
    made,     \* WebUpdates made; run r is the r-th by timestamp
    unit,     \* unit[r][s]: where the unit stands, what it parsed, what it keeps
    job,      \* job[r][s]: the FetchJob
    rows,     \* SearchResult rows
    criteria, \* the item's expected categories and excluded titles
    linked,   \* sources that have an ItemSource
    seen,     \* history: the price last accepted of each title, None before
    seenAt,   \* history: seen[s] when the unit stored its rows
    tracked,  \* history: titles last accepted by a unit that ran undisturbed
    clean,    \* history: units that ran undisturbed, so far
    edits, faults

shown == <<rows, job, criteria, linked>>
history == <<seen, seenAt, tracked, clean>>
vars == <<made, unit, job, rows, criteria, linked, seen, seenAt, tracked, clean, edits, faults>>

None == MaxPrice + 1
Seen == Prices \cup {None}
Places == 1 .. MaxLen
\* What a unit parsed, by place; a candidate that the filter drops leaves a gap.
Page == UNION {[I -> Candidate] : I \in SUBSET Places}
Row == [src : Sources, run : Runs, id : Places, title : Titles, price : Prices, cat : Cats]
Stage == {"none", "queued", "fetched", "deduped", "jobbed", "stored", "done", "failed", "lost"}
Unit == {u \in [at : Stage, page : Page, keep : SUBSET Places] : u.keep \subseteq DOMAIN u.page}
Job == [status : {"none", "success", "failed"}, parsed : Nat, stored : Nat]

Idle == [at |-> "none", page |-> << >>, keep |-> {}]
NoJob == [status |-> "none", parsed |-> 0, stored |-> 0]

Init ==
    /\ made = 0
    /\ unit = [r \in Runs |-> [s \in Sources |-> Idle]]
    /\ job = [r \in Runs |-> [s \in Sources |-> NoJob]]
    /\ rows = {}
    /\ criteria \in Criteria
    /\ linked \in SUBSET Sources
    /\ seen = [s \in Sources |-> [t \in Titles |-> None]]
    /\ seenAt = [r \in Runs |-> [s \in Sources |-> [t \in Titles |-> None]]]
    /\ tracked = [s \in Sources |-> {}]
    /\ clean = {}
    /\ edits = 0
    /\ faults = 0

-----------------------------------------------------------------------------
(* Relevance: the same four checks at ingest and at read time.  Search term *)
(* and title patterns are checks of the title, expected values of the       *)
(* category; an empty list of expected values disables the check.           *)

TitlePasses(c) == c.title \notin criteria.excluded
ValuePasses(c) == criteria.expected = {} \/ c.cat \in criteria.expected
Matches(c) == TitlePasses(c) /\ ValuePasses(c)

\* JSONSearchParser.add_result drops what does not match; the HTML parser does not.
Accepted(s, page) ==
    [i \in {j \in DOMAIN page : s \in JSONSources => Matches(page[j])} |-> page[i]]

-----------------------------------------------------------------------------
(* Deduplication of one unit's candidates. *)

\* y was stored before x, in the order by update timestamp and id.
Before(y, x) == y.run < x.run \/ (y.run = x.run /\ y.id <= x.id)

RowsOf(s, t) == {x \in rows : x.src = s /\ x.title = t}

\* Mutant: any stored row of the title, not the newest.
SnapshotAnyRow(s, t, r) == {x \in RowsOf(s, t) : x.run # r}

\* Newest stored rows of a title not stored by run r; at most one.
Snapshot(s, t, r) ==
    {x \in RowsOf(s, t) : x.run # r /\ \A y \in RowsOf(s, t) : y.run # r => Before(y, x)}

\* Mutant: only titles never stored are fresh.
FreshTitlesOnly(s, r, page) ==
    {i \in DOMAIN page : Snapshot(s, page[i].title, r) = {}}

\* Candidates that differ from the snapshot.
Fresh(s, r, page) ==
    {i \in DOMAIN page : \A x \in Snapshot(s, page[i].title, r) : x.price # page[i].price}

\* Of those, the ones that differ from the fresh one just before of that title,
\* which is what the loop's dictionary of kept keys holds.
Repeats(page, fresh, i) ==
    \E j \in fresh :
        /\ j < i /\ page[j].title = page[i].title /\ page[j].price = page[i].price
        /\ \A k \in fresh : page[k].title = page[i].title => k <= j \/ i <= k

Survivors(page, fresh) == {i \in fresh : ~Repeats(page, fresh, i)}

\* The loop itself, place by place up to n, with its dictionary of kept keys.
LoopSurvivors(n, page, snapshot) ==
    LET loop[i \in 0 .. n] ==
          IF i = 0 THEN [kept |-> [t \in Titles |-> None], out |-> {}]
          ELSE LET before == loop[i - 1]
                   c == page[i]
               IN IF \/ i \notin DOMAIN page
                     \/ snapshot[c.title] = c.price
                     \/ before.kept[c.title] = c.price
                  THEN before
                  ELSE [kept |-> [before.kept EXCEPT ![c.title] = c.price],
                        out |-> before.out \cup {i}]
    IN loop[n].out

-----------------------------------------------------------------------------
(* A run and its units. *)

InFlight(s) == {r \in Runs : unit[r][s].at \in {"fetched", "deduped", "jobbed"}}
Answered(r, s) == unit[r][s].at \notin {"none", "queued", "failed"}
UnderWay(r, s) == unit[r][s].at \in {"fetched", "deduped", "jobbed", "stored"}
TitlesOf(page) == {page[i].title : i \in DOMAIN page}
Plain(page) == \A i, j \in DOMAIN page : page[i].title = page[j].title => i = j

\* The prices seen after page.  One that lists a title twice is not Plain, and
\* which of the two prices is taken does not matter.
Told(page, old) ==
    [t \in Titles |->
       IF t \in TitlesOf(page) THEN page[CHOOSE i \in DOMAIN page : page[i].title = t].price
       ELSE old[t]]

Goes(r, s, u) == unit' = [unit EXCEPT ![r][s] = u]

\* dispatch_fan_out: a unit for each source linked to the item.
StartRun ==
    /\ made < MaxRuns
    /\ made' = made + 1
    /\ unit' = [unit EXCEPT ![made + 1] =
                   [s \in Sources |-> IF s \in linked THEN [Idle EXCEPT !.at = "queued"] ELSE Idle]]
    /\ UNCHANGED <<shown, history, edits, faults>>

\* The vendor answers with results; the parser keeps the relevant ones.
Fetch(r, s) ==
    /\ unit[r][s].at = "queued"
    /\ Cardinality({u \in Runs \X Sources : Answered(u[1], u[2])}) < MaxAnswers
    /\ Cardinality({u \in Runs \X Sources : UnderWay(u[1], u[2])}) < Workers
    /\ \E raw \in Pages :
         /\ raw # << >>
         /\ LET page == Accepted(s, raw)
                alone == InFlight(s) = {} /\ \A q \in Runs : q > r => ~Answered(q, s)
            IN /\ Goes(r, s, [at |-> "fetched", page |-> page, keep |-> {}])
               /\ seen' = [seen EXCEPT ![s] = Told(page, seen[s])]
               /\ tracked' = [tracked EXCEPT ![s] = tracked[s] \ TitlesOf(page)]
               /\ clean' = (clean \ {<<q, s>> : q \in InFlight(s)})
                             \cup (IF alone /\ Plain(page) THEN {<<r, s>>} ELSE {})
    /\ UNCHANGED <<made, shown, seenAt, edits, faults>>

\* The fetch fails, or finds nothing: a FetchJob with another status than SUCCESS.
FetchNothing(r, s) ==
    /\ unit[r][s].at = "queued"
    /\ faults < MaxFaults
    /\ faults' = faults + 1
    /\ Goes(r, s, [unit[r][s] EXCEPT !.at = "failed"])
    /\ job' = [job EXCEPT ![r][s] = [status |-> "failed", parsed |-> 0, stored |-> 0]]
    /\ UNCHANGED <<made, rows, criteria, linked, history, edits>>

\* _dedupe_unit_candidates, against the rows stored by now.
Dedupe(r, s) ==
    /\ unit[r][s].at = "fetched"
    /\ LET page == unit[r][s].page
       IN Goes(r, s, [at |-> "deduped", page |-> page,
                      keep |-> Survivors(page, Fresh(s, r, page))])
    /\ UNCHANGED <<made, shown, history, edits, faults>>

\* _record_fetch_job; stored_count is still 0.
InsertJob(r, s) ==
    /\ unit[r][s].at = "deduped"
    /\ Goes(r, s, [unit[r][s] EXCEPT !.at = "jobbed"])
    /\ job' = [job EXCEPT ![r][s] =
                  [status |-> "success", parsed |-> Cardinality(DOMAIN unit[r][s].page), stored |-> 0]]
    /\ UNCHANGED <<made, rows, criteria, linked, history, edits, faults>>

NewRows(r, s) ==
    {[src |-> s, run |-> r, id |-> i, title |-> unit[r][s].page[i].title,
      price |-> unit[r][s].page[i].price, cat |-> unit[r][s].page[i].cat] : i \in unit[r][s].keep}

\* bulk_create of the survivors, if there are any.
Store(r, s) ==
    /\ unit[r][s].at = "jobbed"
    /\ Goes(r, s, [unit[r][s] EXCEPT !.at = IF unit[r][s].keep = {} THEN "done" ELSE "stored"])
    /\ rows' = rows \cup NewRows(r, s)
    /\ tracked' = [tracked EXCEPT ![s] =
                      IF <<r, s>> \in clean THEN tracked[s] \cup TitlesOf(unit[r][s].page)
                      ELSE tracked[s]]
    /\ seenAt' = [seenAt EXCEPT ![r][s] = seen[s]]
    /\ UNCHANGED <<made, job, criteria, linked, seen, clean, edits, faults>>

\* Mutant: stored_count keeps its default.
CountForgotten(r, s) ==
    /\ unit[r][s].at = "stored"
    /\ Goes(r, s, [unit[r][s] EXCEPT !.at = "done"])
    /\ UNCHANGED <<made, shown, history, edits, faults>>

\* The UPDATE of stored_count.
CountStored(r, s) ==
    /\ unit[r][s].at = "stored"
    /\ Goes(r, s, [unit[r][s] EXCEPT !.at = "done"])
    /\ job' = [job EXCEPT ![r][s].stored = Cardinality(unit[r][s].keep)]
    /\ UNCHANGED <<made, rows, criteria, linked, history, edits, faults>>

\* The worker dies, or a statement raises.
Lose(r, s) ==
    /\ unit[r][s].at \in {"fetched", "deduped", "jobbed", "stored"}
    /\ faults < MaxFaults
    /\ faults' = faults + 1
    /\ Goes(r, s, [unit[r][s] EXCEPT !.at = "lost"])
    /\ UNCHANGED <<made, shown, history, edits>>

\* An operator edits the item's expected values or the source's patterns.
EditCriteria ==
    /\ edits < MaxEdits
    /\ edits' = edits + 1
    /\ criteria' \in Criteria
    /\ UNCHANGED <<made, unit, job, rows, linked, history, faults>>

\* An operator adds or deletes an ItemSource; the rows stay.
Relink(s) ==
    /\ edits < MaxEdits
    /\ edits' = edits + 1
    /\ linked' = IF s \in linked THEN linked \ {s} ELSE linked \cup {s}
    /\ UNCHANGED <<made, unit, job, rows, criteria, history, faults>>

UnitStep(r, s) ==
    \/ Fetch(r, s)
    \/ FetchNothing(r, s)
    \/ Dedupe(r, s)
    \/ InsertJob(r, s)
    \/ Store(r, s)
    \/ CountStored(r, s)
    \/ Lose(r, s)

Next ==
    \/ StartRun
    \/ \E r \in Runs, s \in Sources : UnitStep(r, s)
    \/ EditCriteria
    \/ \E s \in Sources : Relink(s)

Spec == Init /\ [][Next]_vars

-----------------------------------------------------------------------------
(* What is shown. *)

\* Without an ItemSource there is nothing to validate a row against.
Counts(s, x) == s \notin linked \/ Matches(x)

Matching(s, r, t) == {x \in RowsOf(s, t) : x.run = r /\ Counts(s, x)}

InStock(x) == x.price # Out

\* The row of an update that becomes its title's state: in stock, cheapest, first.
Best(X) ==
    CHOOSE x \in X : \A y \in X :
        IF InStock(x) THEN InStock(y) => x.price < y.price \/ (x.price = y.price /\ x.id <= y.id)
        ELSE ~InStock(y) /\ x.id <= y.id

LowestOf(P) == IF P = {} THEN None ELSE CHOOSE p \in P : \A q \in P : p <= q

\* Mutant: a title not stored by the update is forgotten.
ReplayUpdateOnly(s) ==
    [r \in 0 .. MaxRuns |-> [t \in Titles |->
        IF r = 0 \/ Matching(s, r, t) = {} THEN {} ELSE {Best(Matching(s, r, t))}]]

\* The loop over the updates: each one replaces the state of the titles it
\* stored matching rows of; {} is a title without any.
Replay(s) ==
    LET state[r \in 0 .. MaxRuns] ==
          [t \in Titles |->
             IF r = 0 THEN {}
             ELSE IF Matching(s, r, t) # {} THEN {Best(Matching(s, r, t))}
             ELSE state[r - 1][t]]
    IN state

LowestIn(state) == LowestOf({x.price : x \in {y \in UNION {state[t] : t \in Titles} : InStock(y)}})

\* The price of the entry of update r; None is a gap.
EntryAt(s, r) == LowestIn(Replay(s)[r])

Evaluated(s, r) ==
    \/ \E t \in Titles : Matching(s, r, t) # {}
    \/ job[r][s].status = "success" /\ job[r][s].parsed > 0

\* The points of the chart, oldest first, without leading gaps.
Points(s) ==
    LET pts[r \in 0 .. MaxRuns] ==
          IF r = 0 THEN << >>
          ELSE LET sofar == pts[r - 1]
                   price == EntryAt(s, r)
                   last == IF sofar = << >> THEN None ELSE sofar[Len(sofar)].price
                   kind == IF price = None THEN "gap" ELSE IF price = last THEN "hollow" ELSE "solid"
               IN IF ~Evaluated(s, r) \/ (price = None /\ sofar = << >>) THEN sofar
                  ELSE Append(sofar, [run |-> r, price |-> price, kind |-> kind])
    IN pts[MaxRuns]

\* Mutant: the cheapest newest row in stock, older than one out of stock or not.
ContributionLastInStock(s) ==
    LowestOf({x.price : x \in {y \in rows : y.src = s /\ Counts(s, y) /\ InStock(y)
                                  /\ \A z \in RowsOf(s, y.title) : InStock(z) => Before(z, y)}})

\* What a source contributes to the item's Latest price.
Contribution(s) == LowestIn(Replay(s)[MaxRuns])

\* The chart of the item's page, of all sources with rows or jobs, linked or not.
Chart ==
    [s \in {s \in Sources : \/ \E x \in rows : x.src = s
                            \/ \E r \in Runs : job[r][s].status # "none"} |-> Points(s)]

LatestPrice == LowestOf({Contribution(s) : s \in linked} \ {None})

\* The first of the linked sources that contribute the Latest price.
Winner ==
    LET price == LatestPrice
    IN CHOOSE s \in linked : /\ Contribution(s) = price
                             /\ \A o \in linked : o < s => Contribution(o) # price

\* The sparkline of the list is the winner's series.
Sparkline == IF LatestPrice = None THEN << >> ELSE Points(Winner)

\* The newest update with a FetchJob of the item; 0 if there is none.
LatestRun ==
    LET R == {r \in Runs : \E s \in Sources : job[r][s].status # "none"}
    IN IF R = {} THEN 0 ELSE CHOOSE r \in R : \A q \in R : q <= r

\* The jobs' results are added up over the sources; of a sum, only its sign counts.
ListStatus ==
    LET r == LatestRun
        S == {s \in Sources : r # 0 /\ job[r][s].status # "none"}
    IN IF \A q \in Runs, s \in Sources : job[q][s].status # "success" THEN "never_checked"
       ELSE IF \E s \in S : job[r][s].status = "failed" THEN "failed"
       ELSE IF \A s \in S : job[r][s].parsed = 0 THEN "no_matches"
       ELSE IF \E s \in S : job[r][s].stored > 0 THEN "updated"
       ELSE "unchanged"

-----------------------------------------------------------------------------
(* Properties. *)

TypeOK ==
    /\ made \in 0 .. MaxRuns
    /\ unit \in [Runs -> [Sources -> Unit]]
    /\ job \in [Runs -> [Sources -> Job]]
    /\ rows \subseteq Row
    /\ criteria \in Criteria /\ linked \subseteq Sources
    /\ seen \in [Sources -> [Titles -> Seen]]
    /\ seenAt \in [Runs -> [Sources -> [Titles -> Seen]]]
    /\ tracked \in [Sources -> SUBSET Titles]
    /\ clean \subseteq Runs \X Sources
    /\ edits \in Nat /\ faults \in Nat

\* A newest row of title t says price p.
Says(s, t, p) ==
    \E x \in RowsOf(s, t) : x.price = p /\ \A y \in RowsOf(s, t) : Before(y, x)

\* Units of runs not made have not begun; rows come only from units that have stored.
RowsAreStored ==
    /\ \A r \in Runs, s \in Sources : r > made => unit[r][s].at = "none"
    /\ \A x \in rows : unit[x.run][x.src].at \in {"stored", "done", "lost"}

\* A clean unit under way is alone, and its titles are not yet told by the rows.
CleanIsAlone ==
    \A r \in Runs, s \in Sources : <<r, s>> \in clean =>
        /\ Answered(r, s)
        /\ r \in InFlight(s) =>
            /\ InFlight(s) = {r}
            /\ \A q \in Runs : q > r => ~Answered(q, s)
            /\ Plain(unit[r][s].page)
            /\ \A i \in DOMAIN unit[r][s].page :
                   seen[s][unit[r][s].page[i].title] = unit[r][s].page[i].price

InFlightUntracked ==
    \A s \in Sources : \A r \in InFlight(s) : TitlesOf(unit[r][s].page) \cap tracked[s] = {}

\* What a clean unit leaves out is what the newest row of the title says.
SkippedIsSaid ==
    \A r \in Runs, s \in Sources :
        <<r, s>> \in clean /\ unit[r][s].at \in {"deduped", "jobbed"} =>
            \A i \in DOMAIN unit[r][s].page \ unit[r][s].keep :
                Says(s, unit[r][s].page[i].title, unit[r][s].page[i].price)

(* Only changes are stored (scrape.py:168-185), and yet the newest stored    *)
(* row of a title is what the vendor answered last, if the unit that heard   *)
(* it ran undisturbed: alone for its item and source, the newest run         *)
(* answered, and not lost before its rows were in, whatever other units did  *)
(* before it.                                                                *)
TracksVendor ==
    \A s \in Sources : \A t \in tracked[s] : Says(s, t, seen[s][t])

\* The inductive invariant.
IInv ==
    /\ TypeOK
    /\ RowsAreStored
    /\ CleanIsAlone
    /\ InFlightUntracked
    /\ SkippedIsSaid
    /\ TracksVendor

\* All answers of source s were heard undisturbed and stored.
Orderly(s) ==
    \A r \in Runs : Answered(r, s) =>
        <<r, s>> \in clean /\ unit[r][s].at # "lost"

HasStored(r, s) == unit[r][s].at \in {"stored", "done"}

\* A title always comes with the same category.
Steady ==
    \A p, q \in Pages : \A i \in DOMAIN p, j \in DOMAIN q :
        p[i].title = q[j].title => p[i].cat = q[j].cat

(* The chart is right about the past: where all answers were stored in       *)
(* order, the point of a run with results is the lowest price in stock of    *)
(* the titles that count today, as the vendor had last told them when that   *)
(* run stored, or a gap or no point when all were out of stock, although     *)
(* most prices were skipped as unchanged and the criteria edited since.      *)
ChartTellsWhatWasSeen ==
    Steady => \A s \in Sources, r \in Runs :
        Orderly(s) /\ HasStored(r, s) /\ DOMAIN unit[r][s].page # {} =>
            LET told == LowestOf({seenAt[r][s][t] : t \in {u \in Titles :
                            /\ seenAt[r][s][u] \notin {Out, None}
                            /\ \E x \in RowsOf(s, u) : Counts(s, x)}})
                here == {p \in {Chart[s][i] : i \in DOMAIN Chart[s]} : p.run = r}
            IN IF told = None THEN \A p \in here : p.kind = "gap"
               ELSE {p.price : p \in here} = {told}

(* The item's sparkline ends at its Latest price, and no linked source's      *)
(* series ends lower: no stored row moves the one without a point on the     *)
(* other, in whatever order runs overlap and wherever a unit dies between    *)
(* its rows and its count.                                                   *)
SparklineEndsAtLatest ==
    LET end(line) == IF line = << >> THEN None ELSE line[Len(line)].price
        price == LatestPrice
    IN /\ end(Sparkline) = price
       /\ \A s \in linked : end(Points(s)) >= price

(* The list calls an item updated exactly when its newest checked run stored *)
(* a row, once that run's units have ended and none died between its         *)
(* statements: the counts are written apart from the rows they count.        *)
StatusFollowsRows ==
    LET r == LatestRun
    IN (r # 0 /\ \A s \in Sources : unit[r][s].at \in {"none", "done", "failed"})
       => CASE ListStatus = "updated" -> \E x \in rows : x.run = r
            [] ListStatus = "unchanged" -> ~\E x \in rows : x.run = r
            [] ListStatus = "no_matches" -> \A s \in Sources : DOMAIN unit[r][s].page = {}
            [] OTHER -> TRUE

(* price-history-chart/spec.md:11 of a row that a run did not store because  *)
(* it was unchanged: it still counts toward the minimum of that run.         *)
SkippedStillCount ==
    \A r \in Runs, s \in Sources : HasStored(r, s) =>
        \A i \in DOMAIN unit[r][s].page :
            LET c == unit[r][s].page[i]
            IN InStock(c) /\ Counts(s, c) => EntryAt(s, r) <= c.price
=============================================================================
