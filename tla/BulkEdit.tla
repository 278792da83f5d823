------------------------------ MODULE BulkEdit ------------------------------
(***************************************************************************)
(* The bulk-edit workspace (views.py, forms.py): a selection of items, a   *)
(* form of tri-state rows built from what the selection stores, and        *)
(* apply_bulk_edit, which loads what it needs in several queries and then  *)
(* applies the round item by item, each in its own transaction, while      *)
(* other operators save forms, link sources and delete items.              *)
(*                                                                         *)
(* A column of an item is a priority (the active flag is applied the same  *)
(* way), the expected values (product line and category are two of a       *)
(* kind), the metadata provider or the tags.  Patterns, of the include or  *)
(* the exclude list, belong to the ItemSource, here a link.  Expected      *)
(* values are a set, the code keeps them without repetitions; a pattern    *)
(* can stand in its list more than once.                                   *)
(***************************************************************************)
EXTENDS Naturals, FiniteSets

CONSTANTS
    Items,      \* items, numbers in the order of the selection
    Sources,    \* vendors
    Values,     \* expected values
    Observed,   \* <<value, source>> pairs the vendors have reported
    Tags, Patterns, Priorities, Providers,
    Protected,  \* items a bulk edit must skip
    Starts,     \* stored items and ItemSources to start from
    Asks,       \* what an operator may ask of a round
    Manual,     \* the source of an entry typed by hand
    Leave,      \* "leave unchanged"
    MaxTimes,   \* times one pattern is listed by an operator, at most
    MaxRounds, MaxEdits, MaxFaults

Entry == Values \X (Sources \cup {Manual})
Pattern == Sources \X Patterns
Row == [priority : Priorities, expected : SUBSET Entry, provider : Providers, tags : SUBSET Tags]
Link == [key : Nat, include : [Patterns -> Nat]]
Ask == [priority : Priorities \cup {Leave}, provider : Providers \cup {Leave},
        tagAdd : SUBSET Tags, tagRemove : SUBSET Tags,
        add : SUBSET Entry, remove : SUBSET Entry,
        patternAdd : SUBSET Pattern, patternRemove : SUBSET Pattern,
        patternTyped : SUBSET Pattern]

ASSUME ConstantsOK ==
    /\ Items \subseteq Nat /\ IsFiniteSet(Items) /\ Observed \subseteq Values \X Sources
    /\ Protected \subseteq Items /\ Asks \subseteq Ask
    /\ Starts \subseteq [row : [Items -> Row], link : [Items -> [Sources -> Link]]]
    /\ \A a \in Asks : a.add \cap a.remove = {} /\ a.tagAdd \cap a.tagRemove = {}
    /\ Leave \notin Priorities \cup Providers /\ Manual \notin Sources
    /\ MaxTimes \in Nat \ {0} /\ MaxRounds \in Nat /\ MaxEdits \in Nat /\ MaxFaults \in Nat

VARIABLES
    there,    \* items that exist
    row,      \* their columns
    link,     \* link[i][s]: the ItemSource of i and s; key 0 is none
    synced,   \* the provider an item's metadata were last reset for
    chosen,   \* the selection
    stage,    \* where the round stands
    ask,      \* the cleaned form of the round
    adds, removes, \* expected entries to add to and remove from each item
    links,    \* the ItemSources loaded by the round
    loaded, copy,  \* the items it loaded
    todo, result,  \* items still to apply, and how the others ended
    form,     \* another operator's open form
    before, after, \* history: items others changed before and after their apply
    rounds, edits, faults

world == <<there, row, link, synced>>
plan == <<ask, adds, removes, links, loaded, copy>>
marks == <<before, after>>
bounds == <<rounds, edits, faults>>
vars == <<world, plan, marks, bounds, chosen, stage, todo, result, form>>

NoLink == [key |-> 0, include |-> [p \in Patterns |-> 0]]
NoForm == [item |-> 0]
Nothing == [priority |-> Leave, provider |-> Leave, tagAdd |-> {}, tagRemove |-> {},
            add |-> {}, remove |-> {}, patternAdd |-> {}, patternRemove |-> {}, patternTyped |-> {}]

Linked(i, s) == link[i][s].key # 0

Init ==
    /\ there = Items
    /\ \E start \in Starts : row = start.row /\ link = start.link
    /\ synced = [i \in Items |-> row[i].provider]
    /\ chosen = {} /\ stage = "closed"
    /\ ask = Nothing
    /\ adds = [i \in Items |-> {}] /\ removes = [i \in Items |-> {}]
    /\ links = [i \in Items |-> [s \in Sources |-> NoLink]]
    /\ loaded = {} /\ copy = row
    /\ todo = {} /\ result = [i \in Items |-> "none"]
    /\ form = NoForm
    /\ before = {} /\ after = {}
    /\ rounds = 0 /\ edits = 0 /\ faults = 0

-----------------------------------------------------------------------------
(* The rows of the form, from what the selection stores. *)

Selected == chosen \cap there
LinkedTo(s) == {i \in Selected : Linked(i, s)}
Vendors == {s \in Sources : LinkedTo(s) # {}}
Having(e) == {i \in Selected : e \in row[i].expected}
Tagged(t) == {i \in Selected : t \in row[i].tags}
WithPattern(s, p) == {i \in LinkedTo(s) : link[i][s].include[p] > 0}

\* A row for each value a vendor of the selection has reported, and for each
\* entry typed by hand that the selection stores.
EntryRows ==
    {e \in Observed : e[2] \in Vendors}
      \cup {e \in Entry : e[2] = Manual /\ Having(e) # {}}

PatternRows == {sp \in Pattern : WithPattern(sp[1], sp[2]) # {}}

\* "Active on X / Y items", as the rows say it.
EntryCount(e) == Cardinality(Having(e))
EntryTotal(e) == Cardinality(IF e[2] = Manual THEN Selected ELSE LinkedTo(e[2]))
PatternCount(s, p) ==
    Cardinality({x \in LinkedTo(s) \X (1..MaxTimes) : x[2] <= link[x[1]][s].include[p]})

\* Only rows the form has are read from a POST; typed patterns go with the added.
Cleaned(a) ==
    [a EXCEPT !.add = a.add \cap EntryRows, !.remove = a.remove \cap EntryRows,
              !.patternAdd = (a.patternAdd \cap PatternRows)
                                \cup {sp \in a.patternTyped : sp[1] \in Vendors},
              !.patternRemove = a.patternRemove \cap PatternRows]

-----------------------------------------------------------------------------
(* The workspace and the round. *)

\* _render: missing items are dropped, and an empty selection ends the workspace.
Render(S) ==
    /\ chosen' = S \cap there
    /\ stage' = IF S \cap there = {} THEN "closed" ELSE "open"

Enter ==
    /\ stage = "closed"
    /\ \E S \in SUBSET Items : Render(S)
    /\ UNCHANGED <<world, plan, marks, bounds, todo, result, form>>

\* The remove button of one item.
DropItem(i) ==
    /\ stage = "open" /\ i \in chosen
    /\ Render(chosen \ {i})
    /\ UNCHANGED <<world, plan, marks, bounds, todo, result, form>>

Done ==
    /\ stage = "open"
    /\ stage' = "closed"
    /\ UNCHANGED <<world, plan, marks, bounds, chosen, todo, result, form>>

\* The form is built anew for the POST, and validated.
Submit ==
    /\ stage = "open" /\ rounds < MaxRounds
    /\ rounds' = rounds + 1
    /\ \E a \in Asks : ask' = Cleaned(a)
    /\ stage' = "submitted"
    /\ before' = {} /\ after' = {}
    /\ result' = [i \in Items |-> "none"]
    /\ UNCHANGED <<world, adds, removes, links, loaded, copy, edits, faults, chosen, todo, form>>

\* A mutant: an entry typed by hand goes to the linked items only, or to none.
SubsetOfVendors(E) == [i \in Items |-> {e \in E : i \in chosen /\ e[2] # Manual /\ Linked(i, e[2])}]

\* _resolve_suggestion_subsets: an entry of a vendor goes to the items linked to it.
Subset(E) ==
    [i \in Items |-> {e \in E : i \in chosen /\ (e[2] = Manual \/ Linked(i, e[2]))}]

Resolve ==
    /\ stage = "submitted"
    /\ stage' = "resolved"
    /\ adds' = Subset(ask.add)
    /\ removes' = Subset(ask.remove)
    /\ UNCHANGED <<world, ask, links, loaded, copy, marks, bounds, chosen, todo, result, form>>

PatternsToAdd(s) == {sp[2] : sp \in {x \in ask.patternAdd : x[1] = s}}
PatternsToRemove(s) == {sp[2] : sp \in {x \in ask.patternRemove : x[1] = s}}
Touched(s) == PatternsToAdd(s) # {} \/ PatternsToRemove(s) # {}

LoadSources ==
    /\ stage = "resolved"
    /\ stage' = "sourced"
    /\ links' = [i \in Items |-> [s \in Sources |->
                    IF i \in chosen /\ Touched(s) THEN link[i][s] ELSE NoLink]]
    /\ UNCHANGED <<world, ask, adds, removes, loaded, copy, marks, bounds, chosen, todo, result, form>>

LoadItems ==
    /\ stage = "sourced"
    /\ stage' = "applying"
    /\ loaded' = Selected /\ todo' = Selected /\ copy' = row
    /\ UNCHANGED <<world, ask, adds, removes, links, marks, bounds, chosen, result, form>>

\* _apply_bulk_edit_to_item compares and merges what was loaded, and saves only
\* the columns the round asks for.
ProviderChanges(i) == ask.provider # Leave /\ copy[i].provider # ask.provider
ListChanges(i) == adds[i] \cup removes[i] # {}
SavesRow(i) == ask.priority # Leave \/ ListChanges(i) \/ ProviderChanges(i)
SavesLinks(i) == {s \in Sources : Touched(s) /\ links[i][s].key # 0}

\* Mutants: every column of the copy is saved; the added values replace the others.
AppliedWhole(i) ==
    [priority |-> IF ask.priority = Leave THEN copy[i].priority ELSE ask.priority,
     expected |-> (copy[i].expected \ removes[i]) \cup adds[i],
     provider |-> IF ask.provider = Leave THEN copy[i].provider ELSE ask.provider,
     tags     |-> (row[i].tags \cup ask.tagAdd) \ ask.tagRemove]
AppliedOver(i) ==
    [priority |-> IF ask.priority = Leave THEN row[i].priority ELSE ask.priority,
     expected |-> IF ListChanges(i) THEN adds[i] ELSE row[i].expected,
     provider |-> IF ProviderChanges(i) THEN ask.provider ELSE row[i].provider,
     tags     |-> (row[i].tags \cup ask.tagAdd) \ ask.tagRemove]

Applied(i) ==
    [priority |-> IF ask.priority = Leave THEN row[i].priority ELSE ask.priority,
     expected |-> IF ListChanges(i) THEN (copy[i].expected \ removes[i]) \cup adds[i]
                                    ELSE row[i].expected,
     provider |-> IF ProviderChanges(i) THEN ask.provider ELSE row[i].provider,
     tags     |-> (row[i].tags \cup ask.tagAdd) \ ask.tagRemove]

\* A mutant: removed after they are added.
MergedFirst(s, include) ==
    [p \in Patterns |-> IF p \in PatternsToRemove(s) THEN 0
                        ELSE IF p \in PatternsToAdd(s) /\ include[p] = 0 THEN 1 ELSE include[p]]

\* _merge_patterns of _remove_patterns.
Merged(s, include) ==
    [p \in Patterns |->
        LET kept == IF p \in PatternsToRemove(s) THEN 0 ELSE include[p]
        IN  IF p \in PatternsToAdd(s) /\ kept = 0 THEN 1 ELSE kept]

LinksApplied(i) ==
    [s \in Sources |-> IF s \in SavesLinks(i) THEN [link[i][s] EXCEPT !.include = Merged(s, links[i][s].include)]
                                              ELSE link[i][s]]

\* An UPDATE that finds no row raises, and so does a tag put on a missing item.
Raises(i) ==
    \/ i \notin there /\ (SavesRow(i) \/ ask.tagAdd # {})
    \/ \E s \in SavesLinks(i) : link[i][s].key # links[i][s].key

\* The round goes through the selection in its order.
IsNext(i) == stage = "applying" /\ i \in todo /\ \A j \in todo : i <= j

Ends(i, how) ==
    /\ result' = [result EXCEPT ![i] = how]
    /\ todo' = todo \ {i}
    /\ UNCHANGED <<there, plan, marks, rounds, edits, chosen, stage, form>>

SkipItem(i) ==
    /\ IsNext(i) /\ i \in Protected
    /\ Ends(i, "skipped")
    /\ UNCHANGED <<row, link, synced, faults>>

\* A mutant: the metadata are not synchronised.
ApplyItemOnly(i) ==
    /\ IsNext(i) /\ i \notin Protected /\ ~Raises(i)
    /\ Ends(i, "ok")
    /\ row' = IF i \in there THEN [row EXCEPT ![i] = Applied(i)] ELSE row
    /\ link' = [link EXCEPT ![i] = LinksApplied(i)]
    /\ UNCHANGED <<synced, faults>>

ApplyItem(i) ==
    /\ IsNext(i) /\ i \notin Protected /\ ~Raises(i)
    /\ Ends(i, "ok")
    /\ row' = IF i \in there THEN [row EXCEPT ![i] = Applied(i)] ELSE row
    /\ link' = [link EXCEPT ![i] = LinksApplied(i)]
    /\ synced' = IF ProviderChanges(i) THEN [synced EXCEPT ![i] = ask.provider] ELSE synced
    /\ UNCHANGED faults

\* The transaction of the item is rolled back, and the round goes on.
FailItem(i) ==
    /\ IsNext(i) /\ i \notin Protected
    /\ \/ Raises(i) /\ UNCHANGED faults
       \/ ~Raises(i) /\ faults < MaxFaults /\ faults' = faults + 1
    /\ Ends(i, "failed")
    /\ UNCHANGED <<row, link, synced>>

Finish ==
    /\ stage = "applying" /\ todo = {}
    /\ Render(chosen)
    /\ UNCHANGED <<world, plan, marks, bounds, todo, result, form>>

-----------------------------------------------------------------------------
(* What other operators do meanwhile. *)

\* An item another operator changed, before or after the round reached it.
Changed(i) ==
    /\ edits < MaxEdits /\ edits' = edits + 1
    /\ IF result[i] = "none" THEN before' = before \cup {i} /\ UNCHANGED after
                             ELSE after' = after \cup {i} /\ UNCHANGED before
    /\ UNCHANGED <<plan, chosen, stage, todo, result, rounds, faults>>

\* The boxes of the item form: what the item's vendors report and what it stores.
Choices(i) == {e \in Observed : Linked(i, e[2])} \cup row[i].expected

OpenForm(i) ==
    /\ form = NoForm /\ i \in there \ Protected
    /\ \/ \E p \in Priorities : form' = [item |-> i, row |-> [row[i] EXCEPT !.priority = p], typed |-> {}]
       \/ \E m \in Providers : form' = [item |-> i, row |-> [row[i] EXCEPT !.provider = m], typed |-> {}]
       \/ \E T \in SUBSET Tags : form' = [item |-> i, row |-> [row[i] EXCEPT !.tags = T], typed |-> {}]
       \/ \E e \in Choices(i) \cup {e \in Entry : e[2] = Manual} :
            form' = [item |-> i, row |-> [row[i] EXCEPT !.expected = @ \cup {e}], typed |-> {e} \ Choices(i)]
       \/ \E e \in row[i].expected :
            form' = [item |-> i, row |-> [row[i] EXCEPT !.expected = @ \ {e}], typed |-> {}]
    /\ UNCHANGED <<world, plan, marks, bounds, chosen, stage, todo, result>>

\* Every column is saved as the form has it, unless a box is no longer offered.
SaveForm ==
    /\ form # NoForm /\ form' = NoForm
    /\ LET i == form.item IN
        IF i \in there /\ form.row.expected \ form.typed \subseteq Choices(i)
            THEN /\ Changed(i)
                 /\ row' = [row EXCEPT ![i] = form.row]
                 /\ synced' = IF form.row.provider # row[i].provider
                                THEN [synced EXCEPT ![i] = form.row.provider] ELSE synced
                 /\ UNCHANGED <<there, link>>
            ELSE UNCHANGED <<world, plan, marks, bounds, chosen, stage, todo, result>>

EditSource(i, s) ==
    /\ i \in there \ Protected /\ Linked(i, s)
    /\ Changed(i)
    /\ \E P \in [Patterns -> 0..MaxTimes] : link' = [link EXCEPT ![i][s].include = P]
    /\ UNCHANGED <<there, row, synced, form>>

AddSource(i, s) ==
    /\ i \in there \ Protected /\ ~Linked(i, s)
    /\ Changed(i)
    /\ link' = [link EXCEPT ![i][s] = [NoLink EXCEPT !.key = edits + 2]]
    /\ UNCHANGED <<there, row, synced, form>>

RemoveSource(i, s) ==
    /\ i \in there \ Protected /\ Linked(i, s)
    /\ Changed(i)
    /\ link' = [link EXCEPT ![i][s] = NoLink]
    /\ UNCHANGED <<there, row, synced, form>>

\* The admin site: the ItemSources go with their item.
Delete(i) ==
    /\ i \in there \ Protected
    /\ Changed(i)
    /\ there' = there \ {i}
    /\ link' = [link EXCEPT ![i] = [s \in Sources |-> NoLink]]
    /\ UNCHANGED <<row, synced, form>>

Next ==
    \/ Enter \/ Done \/ Submit \/ Resolve \/ LoadSources \/ LoadItems
    \/ Finish \/ SaveForm
    \/ \E i \in Items : SkipItem(i) \/ ApplyItem(i) \/ FailItem(i)
    \/ \E i \in Items : DropItem(i) \/ OpenForm(i) \/ Delete(i)
    \/ \E i \in Items, s \in Sources : EditSource(i, s) \/ AddSource(i, s) \/ RemoveSource(i, s)

Spec == Init /\ [][Next]_vars

-----------------------------------------------------------------------------
(* Properties. *)

ThereType == there \subseteq Items
RowType == row \in [Items -> Row]
LinkType == link \in [Items -> [Sources -> Link]]
SyncedType == synced \in [Items -> Providers]
PlanType ==
    /\ ask \in Ask
    /\ adds \in [Items -> SUBSET Entry] /\ removes \in [Items -> SUBSET Entry]
    /\ links \in [Items -> [Sources -> Link]]
    /\ loaded \subseteq Items /\ copy \in [Items -> Row]
RoundType ==
    /\ chosen \subseteq Items /\ todo \subseteq loaded
    /\ stage \in {"closed", "open", "submitted", "resolved", "sourced", "applying"}
    /\ result \in [Items -> {"none", "ok", "failed", "skipped"}]
FormType == form = NoForm \/ form \in [item : Items, row : Row, typed : SUBSET Entry]
BoundType == rounds \in 0..MaxRounds /\ edits \in 0..MaxEdits /\ faults \in 0..MaxFaults
MarkType == before \subseteq Items /\ after \subseteq Items

TypeOK ==
    /\ ThereType /\ RowType /\ LinkType /\ SyncedType /\ PlanType
    /\ RoundType /\ FormType /\ BoundType /\ MarkType

\* No item has an outcome before the round applies it.
OutcomesAreApplied ==
    /\ stage \in {"submitted", "resolved", "sourced"} => result = [i \in Items |-> "none"]
    /\ \A i \in todo : result[i] = "none" /\ stage = "applying"

\* Nothing is both added and removed.
NoContradiction ==
    /\ ask.tagAdd \cap ask.tagRemove = {} /\ ask.add \cap ask.remove = {}
    /\ \A i \in Items : adds[i] \cap removes[i] = {}

\* The copy of an item nobody touched is the item, until its turn comes.
CopiesAreFresh == \A i \in todo \ before : row[i] = copy[i]

\* Whatever the interleaving of rounds and forms, the metadata of an item are those
\* of the provider it names.
MetadataFollowProvider == \A i \in Items : synced[i] = row[i].provider

\* The ItemSources of a deleted item went with it, and a round brings none back.
DeletedHaveNoLinks == \A i \in Items \ there : link[i] = [s \in Sources |-> NoLink]

\* The invariant the proofs are built on.  Among its parts: no item is reported
\* before its turn, the copies a round works from are stale only for items that
\* others changed, and the metadata are those of the provider an item names.
IInv ==
    /\ TypeOK /\ OutcomesAreApplied /\ NoContradiction
    /\ CopiesAreFresh /\ MetadataFollowProvider /\ DeletedHaveNoLinks

\* What a round asks of the rows it resolved and of the ItemSources it loaded.
RowAsked(i) ==
    /\ ask.priority # Leave => row[i].priority = ask.priority
    /\ adds[i] \subseteq row[i].expected /\ removes[i] \cap row[i].expected = {}
    /\ ask.tagAdd \subseteq row[i].tags /\ ask.tagRemove \cap row[i].tags = {}
LinksAsked(i) ==
    \A s \in SavesLinks(i) :
        /\ Linked(i, s)
        /\ \A p \in PatternsToAdd(s) : link[i][s].include[p] > 0
        /\ \A p \in PatternsToRemove(s) \ PatternsToAdd(s) : link[i][s].include[p] = 0

\* An item reported as updated has all the round asked of it, whatever others did
\* between the queries and its turn, as long as nobody changes it afterwards.
AskedIsThere ==
    \A i \in there \ after : result[i] = "ok" => RowAsked(i) /\ LinksAsked(i)

\* An item nobody else touched, reported as updated, is the item the round loaded
\* with the changes asked and no other, its provider included, and its metadata
\* are the ones of that provider whenever they were before.
UndisturbedIsExact ==
    \A i \in there \ (before \cup after) : result[i] = "ok" =>
        /\ row[i] = [priority |-> IF ask.priority = Leave THEN copy[i].priority ELSE ask.priority,
                     expected |-> (copy[i].expected \ removes[i]) \cup adds[i],
                     provider |-> IF ask.provider = Leave THEN copy[i].provider ELSE ask.provider,
                     tags |-> (copy[i].tags \cup ask.tagAdd) \ ask.tagRemove]
        /\ LinksAsked(i)
        /\ synced[i] = row[i].provider

\* The turn of an item changes the columns the round asks for and no other, so a
\* column saved by somebody else since the round loaded the item survives; it
\* changes no other item, no protected item, none that it reports as failed, and
\* it neither creates nor brings back an ItemSource or an item.
LeavesUnasked ==
    [][stage = "applying" /\ todo' # todo =>
        /\ there' = there
        /\ \A i \in Items :
            /\ i \in Protected \/ i \notin todo \/ i \in todo' \/ result'[i] # "ok" \/ i \notin there
                => row'[i] = row[i] /\ link'[i] = link[i]
            /\ ask.priority = Leave => row'[i].priority = row[i].priority
            /\ ~ListChanges(i) => row'[i].expected = row[i].expected
            /\ row'[i].provider # row[i].provider => row'[i].provider = ask.provider /\ synced'[i] = ask.provider
            /\ \A t \in Tags : t \notin ask.tagAdd \cup ask.tagRemove => (t \in row'[i].tags <=> t \in row[i].tags)
            /\ \A s \in Sources :
                /\ link'[i][s].key = link[i][s].key
                /\ ~Touched(s) => link'[i][s] = link[i][s]]_vars

\* After a round that updated every item and that nobody disturbed, the rows of
\* the form it shows say so: an added value, tag or pattern is on all the items it
\* can be on, a removed one on none of them.  Not so for the strays, the items that
\* hold a vendor's value although they are not, or no longer, linked to the vendor:
\* a round does not reach them, and the row counts them.  forms.py:945-946 says that
\* "only items with this vendor configured could ever have this value", and openspec/
\* specs/bulk-item-editing/spec.md:98-100 has X of the Y that could possibly have it;
\* after an ItemSource has been removed the row reads, say, "2 / 1 items".
Scope(e) == IF e[2] = Manual THEN Selected ELSE LinkedTo(e[2])
Strays(e) == Having(e) \ Scope(e)
RowsReadAsAsked ==
    (stage = "open" /\ \A i \in chosen : result[i] = "ok" /\ i \notin before \cup after) =>
        /\ \A e \in ask.add : EntryCount(e) = EntryTotal(e) + Cardinality(Strays(e))
        /\ \A e \in ask.remove : Having(e) = Strays(e)
        /\ \A t \in ask.tagAdd : Tagged(t) = Selected
        /\ \A t \in ask.tagRemove : Tagged(t) = {}
        /\ \A sp \in ask.patternAdd : WithPattern(sp[1], sp[2]) = LinkedTo(sp[1])
        /\ \A sp \in ask.patternRemove \ ask.patternAdd : PatternCount(sp[1], sp[2]) = 0
=============================================================================
