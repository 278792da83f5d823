-------------------------- MODULE BulkEdit_proofs ---------------------------
(***************************************************************************)
(* What a round of bulk edits guarantees, proved for every selection,      *)
(* request and interleaving with other operators: the types, the invariant *)
(* IInv, AskedIsThere, UndisturbedIsExact, LeavesUnasked and, at the end,  *)
(* RowsReadAsAsked.                                                        *)
(*                                                                         *)
(* The steps are grouped by what they leave alone: those of the workspace  *)
(* change only the selection and the stage, an edit of another operator    *)
(* changes one item and marks it, and the turn of an item is the only step *)
(* that gives it an outcome.                                               *)
(***************************************************************************)
EXTENDS BulkEdit, FiniteSetTheorems, TLAPS

Inv == IInv /\ AskedIsThere /\ UndisturbedIsExact

-----------------------------------------------------------------------------
(* Types of what the steps build. *)

LEMMA NothingIsAsked == Nothing \in Ask
  BY DEF Nothing, Ask

LEMMA NoLinkIsALink == NoLink \in Link
  BY DEF NoLink, Link

LEMMA CleanedIsAsked ==
  ASSUME NEW a \in Asks
  PROVE  /\ Cleaned(a) \in Ask
         /\ Cleaned(a).tagAdd \cap Cleaned(a).tagRemove = {}
         /\ Cleaned(a).add \cap Cleaned(a).remove = {}
<1>1. a \in Ask /\ a.add \cap a.remove = {} /\ a.tagAdd \cap a.tagRemove = {}
  BY ConstantsOK DEF ConstantsOK
<1>2. {sp \in a.patternTyped : sp[1] \in Vendors} \subseteq Pattern
  BY <1>1 DEF Ask
<1> QED BY <1>1, <1>2 DEF Cleaned, Ask

LEMMA SubsetType ==
  ASSUME NEW E \in SUBSET Entry
  PROVE  Subset(E) \in [Items -> SUBSET Entry]
  BY DEF Subset

\* What _merge_patterns of _remove_patterns leaves in a list of patterns.
LEMMA MergedType ==
  ASSUME NEW s \in Sources, NEW include \in [Patterns -> Nat]
  PROVE  /\ Merged(s, include) \in [Patterns -> Nat]
         /\ \A p \in PatternsToAdd(s) \cap Patterns : Merged(s, include)[p] > 0
         /\ \A p \in Patterns \ PatternsToAdd(s) :
                p \in PatternsToRemove(s) => Merged(s, include)[p] = 0
<1> DEFINE kept(p) == IF p \in PatternsToRemove(s) THEN 0 ELSE include[p]
<1>1. \A p \in Patterns : kept(p) \in Nat
  OBVIOUS
<1>2. Merged(s, include) = [p \in Patterns |->
          IF p \in PatternsToAdd(s) /\ kept(p) = 0 THEN 1 ELSE kept(p)]
  BY DEF Merged
<1>3. \A p \in Patterns : p \in PatternsToRemove(s) => kept(p) = 0
  OBVIOUS
<1> HIDE DEF kept
<1> QED BY <1>1, <1>2, <1>3

LEMMA PatternsAreNamed ==
  ASSUME ask \in Ask, NEW s \in Sources
  PROVE  PatternsToAdd(s) \subseteq Patterns /\ PatternsToRemove(s) \subseteq Patterns
  BY DEF Ask, Pattern, PatternsToAdd, PatternsToRemove

LEMMA AppliedType ==
  ASSUME TypeOK, NEW i \in Items
  PROVE  Applied(i) \in Row
<1>1. ask \in Ask /\ row[i] \in Row /\ copy[i] \in Row /\ adds[i] \in SUBSET Entry
      /\ ask.priority \in Priorities \cup {Leave} /\ ask.provider \in Providers \cup {Leave}
      /\ ask.tagAdd \in SUBSET Tags
  BY DEF TypeOK, RowType, PlanType, Ask
<1>2. (IF ask.priority = Leave THEN row[i].priority ELSE ask.priority) \in Priorities
  BY <1>1 DEF Row
<1>3. (IF ProviderChanges(i) THEN ask.provider ELSE row[i].provider) \in Providers
  BY <1>1 DEF Row, ProviderChanges
<1>4. (IF ListChanges(i) THEN (copy[i].expected \ removes[i]) \cup adds[i]
                         ELSE row[i].expected) \in SUBSET Entry
  BY <1>1 DEF Row
<1>5. (row[i].tags \cup ask.tagAdd) \ ask.tagRemove \in SUBSET Tags
  BY <1>1 DEF Row
<1> QED BY <1>2, <1>3, <1>4, <1>5 DEF Applied, Row

LEMMA LinksAppliedType ==
  ASSUME TypeOK, NEW i \in Items
  PROVE  LinksApplied(i) \in [Sources -> Link]
<1> SUFFICES ASSUME NEW s \in Sources
             PROVE  (IF s \in SavesLinks(i)
                       THEN [link[i][s] EXCEPT !.include = Merged(s, links[i][s].include)]
                       ELSE link[i][s]) \in Link
  BY DEF LinksApplied
<1>1. link[i][s] \in Link /\ links[i][s] \in Link
  BY DEF TypeOK, LinkType, PlanType
<1>2. Merged(s, links[i][s].include) \in [Patterns -> Nat]
  BY <1>1, MergedType DEF Link
<1> QED BY <1>1, <1>2 DEF Link

-----------------------------------------------------------------------------
(* The invariant is initial and every step keeps it. *)

USE DEF world, plan, marks, bounds

LEMMA InitInv == Init => Inv
<1> SUFFICES ASSUME Init PROVE Inv
  OBVIOUS
<1> USE DEF Init
<1>1. PICK start \in Starts : row = start.row /\ link = start.link
  OBVIOUS
<1>2. row \in [Items -> Row] /\ link \in [Items -> [Sources -> Link]]
  BY <1>1, ConstantsOK DEF ConstantsOK
<1>3. synced \in [Items -> Providers]
  BY <1>2 DEF Row
<1>4. PlanType
  BY <1>2, NothingIsAsked, NoLinkIsALink DEF PlanType
<1>5. RoundType /\ FormType /\ BoundType /\ MarkType /\ ThereType
  BY ConstantsOK DEF ConstantsOK, RoundType, FormType, BoundType, MarkType, ThereType
<1>6. TypeOK
  BY <1>2, <1>3, <1>4, <1>5 DEF TypeOK, RowType, LinkType, SyncedType
<1>7. OutcomesAreApplied /\ NoContradiction /\ CopiesAreFresh /\ MetadataFollowProvider /\ DeletedHaveNoLinks
  BY <1>2 DEF OutcomesAreApplied, NoContradiction, CopiesAreFresh, MetadataFollowProvider, DeletedHaveNoLinks, Nothing
<1>8. \A i \in Items : result[i] = "none"
  OBVIOUS
<1>9. AskedIsThere /\ UndisturbedIsExact
  BY <1>5, <1>8 DEF AskedIsThere, UndisturbedIsExact, ThereType
<1> QED BY <1>6, <1>7, <1>9 DEF Inv, IInv

\* While there are no outcomes, the properties about outcomes hold.
LEMMA NoOutcome ==
  ASSUME there \subseteq Items, \A i \in Items : result[i] = "none"
  PROVE  AskedIsThere /\ UndisturbedIsExact
  BY DEF AskedIsThere, UndisturbedIsExact

\* A step that changes only the selection and the stage, with nothing left to apply.
Rests ==
    /\ todo = {} /\ chosen' \subseteq Items /\ stage' \in {"closed", "open"}
    /\ UNCHANGED <<world, plan, marks, bounds, todo, result, form>>

LEMMA WorkspaceRests ==
  ASSUME Inv, Enter \/ Done \/ Finish \/ \E i \in Items : DropItem(i)
  PROVE  Rests
<1>1. stage \in {"closed", "open"} => todo = {}
  BY DEF Inv, IInv, OutcomesAreApplied
<1>2. chosen \subseteq Items /\ there \subseteq Items
  BY DEF Inv, IInv, TypeOK, RoundType, ThereType
<1>3. CASE Enter
  BY <1>1, <1>2, <1>3 DEF Enter, Render, Rests
<1>4. CASE Done
  BY <1>1, <1>2, <1>4 DEF Done, Rests
<1>5. CASE Finish
  BY <1>1, <1>2, <1>5 DEF Finish, Render, Rests
<1>6. CASE \E i \in Items : DropItem(i)
  BY <1>1, <1>2, <1>6 DEF DropItem, Render, Rests
<1> QED BY <1>3, <1>4, <1>5, <1>6

\* What was asked of an item stays so while the request and the item stay the same.
LEMMA SameAsked ==
  ASSUME UNCHANGED <<ask, adds, removes, links>>, NEW i \in Items,
         row'[i] = row[i], link'[i] = link[i]
  PROVE  /\ RowAsked(i)' <=> RowAsked(i)
         /\ LinksAsked(i)' <=> LinksAsked(i)
<1>1. \A s \in Sources : PatternsToAdd(s)' = PatternsToAdd(s) /\ PatternsToRemove(s)' = PatternsToRemove(s)
  BY DEF PatternsToAdd, PatternsToRemove
<1>2. SavesLinks(i)' = SavesLinks(i)
  BY <1>1 DEF SavesLinks, Touched
<1>3. \A s \in Sources : Linked(i, s)' <=> Linked(i, s)
  BY DEF Linked
<1>4. RowAsked(i)' <=> RowAsked(i)
  BY DEF RowAsked
<1>5. LinksAsked(i)' <=> LinksAsked(i)
  BY <1>1, <1>2, <1>3 DEF LinksAsked, SavesLinks
<1> QED BY <1>4, <1>5

LEMMA RestsKeepsInv ==
  ASSUME Inv, Rests
  PROVE  Inv'
<1> USE DEF Rests
<1>1. TypeOK'
  BY DEF Inv, IInv, TypeOK, ThereType, RowType, LinkType, SyncedType, PlanType,
         RoundType, FormType, BoundType, MarkType
<1>2. OutcomesAreApplied' /\ NoContradiction' /\ CopiesAreFresh' /\ MetadataFollowProvider' /\ DeletedHaveNoLinks'
  BY DEF Inv, IInv, OutcomesAreApplied, NoContradiction, CopiesAreFresh, MetadataFollowProvider, DeletedHaveNoLinks
<1>3. there \subseteq Items
  BY DEF Inv, IInv, TypeOK, ThereType
<1>4. AskedIsThere'
  BY <1>3, SameAsked DEF Inv, AskedIsThere
<1>5. UndisturbedIsExact'
  BY <1>3, SameAsked DEF Inv, UndisturbedIsExact
<1> QED BY <1>1, <1>2, <1>4, <1>5 DEF Inv, IInv

LEMMA SubmitKeepsInv ==
  ASSUME Inv, Submit
  PROVE  Inv'
<1> USE DEF Submit
<1>1. PICK a \in Asks : ask' = Cleaned(a)
  OBVIOUS
<1>2. ask' \in Ask /\ ask'.tagAdd \cap ask'.tagRemove = {} /\ ask'.add \cap ask'.remove = {}
  BY <1>1, CleanedIsAsked
<1>3. todo = {}
  BY DEF Inv, IInv, OutcomesAreApplied
<1>4. rounds' \in 0..MaxRounds
  BY ConstantsOK DEF ConstantsOK, Inv, IInv, TypeOK, BoundType
<1>5. TypeOK'
  BY <1>2, <1>4 DEF Inv, IInv, TypeOK, ThereType, RowType, LinkType, SyncedType, PlanType,
         RoundType, FormType, BoundType, MarkType
<1>6. OutcomesAreApplied' /\ NoContradiction' /\ CopiesAreFresh' /\ MetadataFollowProvider' /\ DeletedHaveNoLinks'
  BY <1>2, <1>3 DEF Inv, IInv, OutcomesAreApplied, NoContradiction, CopiesAreFresh, MetadataFollowProvider, DeletedHaveNoLinks
<1>7. there' \subseteq Items /\ \A i \in Items : result'[i] = "none"
  BY <1>5 DEF TypeOK, ThereType
<1>8. AskedIsThere' /\ UndisturbedIsExact'
  BY <1>7 DEF AskedIsThere, UndisturbedIsExact
<1> QED BY <1>5, <1>6, <1>8 DEF Inv, IInv

LEMMA PreparingKeepsInv ==
  ASSUME Inv, Resolve \/ LoadSources \/ LoadItems
  PROVE  Inv'
<1>1. /\ stage \in {"submitted", "resolved", "sourced"} /\ stage' \in {"resolved", "sourced", "applying"}
      /\ result = [i \in Items |-> "none"] /\ todo = {}
  BY DEF Resolve, LoadSources, LoadItems, Inv, IInv, OutcomesAreApplied
<1>2. UNCHANGED <<world, ask, marks, bounds, chosen, result, form>>
  BY DEF Resolve, LoadSources, LoadItems
<1>3. /\ adds' \in [Items -> SUBSET Entry] /\ removes' \in [Items -> SUBSET Entry]
      /\ \A i \in Items : adds'[i] \cap removes'[i] = {}
  <2>1. CASE Resolve
    <3>1. ask.add \in SUBSET Entry /\ ask.remove \in SUBSET Entry /\ ask.add \cap ask.remove = {}
      BY DEF Inv, IInv, TypeOK, PlanType, Ask, NoContradiction
    <3>2. \A i \in Items : Subset(ask.add)[i] \subseteq ask.add /\ Subset(ask.remove)[i] \subseteq ask.remove
      BY DEF Subset
    <3> QED BY <2>1, <3>1, <3>2, SubsetType DEF Resolve
  <2>2. CASE LoadSources \/ LoadItems
    BY <2>2 DEF LoadSources, LoadItems, Inv, IInv, TypeOK, PlanType, NoContradiction
  <2> QED BY <2>1, <2>2
<1>4. links' \in [Items -> [Sources -> Link]]
  <2>1. links \in [Items -> [Sources -> Link]] /\ link \in [Items -> [Sources -> Link]]
    BY DEF Inv, IInv, TypeOK, PlanType, LinkType
  <2>2. CASE LoadSources
    BY <2>1, <2>2, NoLinkIsALink DEF LoadSources
  <2>3. CASE Resolve \/ LoadItems
    BY <2>1, <2>3 DEF Resolve, LoadItems
  <2> QED BY <2>2, <2>3
<1>5. /\ loaded' \subseteq Items /\ copy' \in [Items -> Row] /\ todo' \subseteq loaded'
      /\ todo' # {} => copy' = row /\ stage' = "applying"
  BY <1>1 DEF Resolve, LoadSources, LoadItems, Inv, IInv, TypeOK, PlanType, RowType,
              RoundType, ThereType, Selected
<1>6. TypeOK'
  BY <1>1, <1>2, <1>3, <1>4, <1>5
     DEF Inv, IInv, TypeOK, ThereType, RowType, LinkType, SyncedType, PlanType,
         RoundType, FormType, BoundType, MarkType
<1>7. OutcomesAreApplied'
  BY <1>1, <1>2, <1>5, <1>6 DEF OutcomesAreApplied, TypeOK, RoundType, PlanType
<1>8. NoContradiction' /\ CopiesAreFresh' /\ MetadataFollowProvider' /\ DeletedHaveNoLinks'
  BY <1>2, <1>3, <1>5 DEF Inv, IInv, NoContradiction, CopiesAreFresh, MetadataFollowProvider, DeletedHaveNoLinks
<1>9. there' \subseteq Items /\ \A i \in Items : result'[i] = "none"
  BY <1>1, <1>2, <1>6 DEF TypeOK, ThereType
<1>10. AskedIsThere' /\ UndisturbedIsExact'
  BY <1>9 DEF AskedIsThere, UndisturbedIsExact
<1> QED BY <1>6, <1>7, <1>8, <1>10 DEF Inv, IInv

\* An item whose turn ends without success is as it was.
LEMMA UnappliedKeepsInv ==
  ASSUME Inv, NEW i \in Items, SkipItem(i) \/ FailItem(i)
  PROVE  Inv'
<1>1. PICK how \in {"skipped", "failed"} : result' = [result EXCEPT ![i] = how]
  BY DEF SkipItem, FailItem, Ends
<1>2. /\ todo' = todo \ {i} /\ stage' = stage /\ stage = "applying"
      /\ UNCHANGED <<world, plan, marks, rounds, edits, chosen, form>>
  BY DEF SkipItem, FailItem, Ends, IsNext
<1>3. faults' \in 0..MaxFaults
  BY ConstantsOK DEF ConstantsOK, SkipItem, FailItem, Inv, IInv, TypeOK, BoundType
<1>4. result \in [Items -> {"none", "ok", "failed", "skipped"}]
  BY DEF Inv, IInv, TypeOK, RoundType
<1>5. result' \in [Items -> {"none", "ok", "failed", "skipped"}]
  BY <1>1, <1>4
<1>6. TypeOK'
  BY <1>2, <1>3, <1>5 DEF Inv, IInv, TypeOK, ThereType, RowType, LinkType, SyncedType, PlanType,
         RoundType, FormType, BoundType, MarkType
<1>7. \A j \in todo' : j # i /\ j \in Items
  BY <1>2 DEF Inv, IInv, TypeOK, RoundType, PlanType
<1>8. OutcomesAreApplied'
  BY <1>1, <1>2, <1>4, <1>7 DEF Inv, IInv, OutcomesAreApplied
<1>9. NoContradiction' /\ CopiesAreFresh' /\ MetadataFollowProvider' /\ DeletedHaveNoLinks'
  BY <1>2 DEF Inv, IInv, NoContradiction, CopiesAreFresh, MetadataFollowProvider, DeletedHaveNoLinks
<1>10. \A j \in Items : result'[j] = "ok" => result[j] = "ok"
  BY <1>1, <1>4
<1>11. there \subseteq Items
  BY DEF Inv, IInv, TypeOK, ThereType
<1>12. AskedIsThere'
  BY <1>2, <1>10, <1>11, SameAsked DEF Inv, AskedIsThere
<1>13. UndisturbedIsExact'
  BY <1>2, <1>10, <1>11, SameAsked DEF Inv, UndisturbedIsExact
<1> QED BY <1>6, <1>8, <1>9, <1>12, <1>13 DEF Inv, IInv

\* The turn of an item that succeeds: its row and its ItemSources are as applied.
LEMMA ApplyEffect ==
  ASSUME Inv, NEW i \in Items, ApplyItem(i)
  PROVE  /\ result' = [result EXCEPT ![i] = "ok"] /\ todo' = todo \ {i} /\ i \in todo
         /\ stage = "applying" /\ stage' = stage
         /\ UNCHANGED <<there, plan, marks, bounds, chosen, form>>
         /\ row' \in [Items -> Row] /\ link' \in [Items -> [Sources -> Link]]
         /\ synced' \in [Items -> Providers]
         /\ \A j \in Items \ {i} : row'[j] = row[j] /\ link'[j] = link[j] /\ synced'[j] = synced[j]
         /\ row'[i] = IF i \in there THEN Applied(i) ELSE row[i]
         /\ link'[i] = LinksApplied(i)
         /\ synced'[i] = IF ProviderChanges(i) THEN ask.provider ELSE synced[i]
<1>1. /\ row \in [Items -> Row] /\ link \in [Items -> [Sources -> Link]]
      /\ synced \in [Items -> Providers] /\ ask \in Ask /\ TypeOK
  BY DEF Inv, IInv, TypeOK, RowType, LinkType, SyncedType, PlanType
<1>2. Applied(i) \in Row /\ LinksApplied(i) \in [Sources -> Link]
  BY <1>1, AppliedType, LinksAppliedType
<1>3. ProviderChanges(i) => ask.provider \in Providers
  BY <1>1 DEF ProviderChanges, Ask
<1>4. /\ row' = IF i \in there THEN [row EXCEPT ![i] = Applied(i)] ELSE row
      /\ link' = [link EXCEPT ![i] = LinksApplied(i)]
      /\ synced' = IF ProviderChanges(i) THEN [synced EXCEPT ![i] = ask.provider] ELSE synced
  BY DEF ApplyItem
<1>5. /\ row' \in [Items -> Row]
      /\ \A j \in Items \ {i} : row'[j] = row[j]
      /\ row'[i] = IF i \in there THEN Applied(i) ELSE row[i]
  BY <1>1, <1>2, <1>4
<1>6. /\ link' \in [Items -> [Sources -> Link]]
      /\ \A j \in Items \ {i} : link'[j] = link[j]
      /\ link'[i] = LinksApplied(i)
  BY <1>1, <1>2, <1>4
<1>7. /\ synced' \in [Items -> Providers]
      /\ \A j \in Items \ {i} : synced'[j] = synced[j]
      /\ synced'[i] = IF ProviderChanges(i) THEN ask.provider ELSE synced[i]
  BY <1>1, <1>3, <1>4
<1>8. /\ result' = [result EXCEPT ![i] = "ok"] /\ todo' = todo \ {i} /\ i \in todo
      /\ stage = "applying" /\ stage' = stage
      /\ UNCHANGED <<there, plan, marks, bounds, chosen, form>>
  BY DEF ApplyItem, Ends, IsNext
<1> QED BY <1>5, <1>6, <1>7, <1>8

LEMMA AppliedRowIsAsked ==
  ASSUME Inv, NEW i \in there, ApplyItem(i)
  PROVE  RowAsked(i)'
<1>1. i \in Items
  BY DEF Inv, IInv, TypeOK, ThereType
<1>2. row'[i] = Applied(i) /\ UNCHANGED <<ask, adds, removes>>
  BY <1>1, ApplyEffect
<1>3. adds[i] \cap removes[i] = {} /\ ask.tagAdd \cap ask.tagRemove = {}
  BY <1>1 DEF Inv, IInv, NoContradiction
<1>4. ask.priority # Leave => Applied(i).priority = ask.priority
  BY DEF Applied
<1>5. adds[i] \subseteq Applied(i).expected /\ removes[i] \cap Applied(i).expected = {}
  <2>1. CASE ListChanges(i)
    BY <2>1, <1>3 DEF Applied
  <2>2. CASE ~ListChanges(i)
    BY <2>2 DEF ListChanges
  <2> QED BY <2>1, <2>2
<1>6. ask.tagAdd \subseteq Applied(i).tags /\ ask.tagRemove \cap Applied(i).tags = {}
  BY <1>3 DEF Applied
<1> QED BY <1>2, <1>4, <1>5, <1>6 DEF RowAsked

LEMMA AppliedLinksAreAsked ==
  ASSUME Inv, NEW i \in Items, ApplyItem(i)
  PROVE  LinksAsked(i)'
<1>1. link'[i] = LinksApplied(i) /\ UNCHANGED <<ask, links>>
  BY ApplyEffect
<1>2. \A s \in Sources : PatternsToAdd(s)' = PatternsToAdd(s) /\ PatternsToRemove(s)' = PatternsToRemove(s)
  BY <1>1 DEF PatternsToAdd, PatternsToRemove
<1>3. SavesLinks(i)' = SavesLinks(i)
  BY <1>1, <1>2 DEF SavesLinks, Touched
<1>4. ASSUME NEW s \in SavesLinks(i)
      PROVE  /\ link'[i][s].key # 0
             /\ \A p \in PatternsToAdd(s) : link'[i][s].include[p] > 0
             /\ \A p \in PatternsToRemove(s) \ PatternsToAdd(s) : link'[i][s].include[p] = 0
  <2>1. s \in Sources /\ links[i][s].key # 0
    BY DEF SavesLinks
  <2>2. link[i][s].key = links[i][s].key
    BY DEF ApplyItem, Raises
  <2>3. /\ link[i][s] \in Link /\ links[i][s].include \in [Patterns -> Nat]
        /\ ask \in Ask
    BY <2>1 DEF Inv, IInv, TypeOK, LinkType, PlanType, Link
  <2> DEFINE new == Merged(s, links[i][s].include)
  <2>4. link'[i][s] = [link[i][s] EXCEPT !.include = new]
    BY <1>1, <2>1 DEF LinksApplied
  <2>5. link'[i][s].key = link[i][s].key /\ link'[i][s].include = new
    BY <2>3, <2>4 DEF Link
  <2>6. PatternsToAdd(s) \subseteq Patterns /\ PatternsToRemove(s) \subseteq Patterns
    BY <2>1, <2>3, PatternsAreNamed
  <2>7. /\ \A p \in PatternsToAdd(s) : new[p] > 0
        /\ \A p \in PatternsToRemove(s) \ PatternsToAdd(s) : new[p] = 0
    BY <2>1, <2>3, <2>6, MergedType
  <2> HIDE DEF new
  <2> QED BY <2>1, <2>2, <2>5, <2>7
<1> QED BY <1>2, <1>3, <1>4 DEF LinksAsked, Linked, SavesLinks

\* An item that is gone when its turn comes gets nothing back.
LEMMA MissingGetsNothing ==
  ASSUME Inv, NEW i \in Items \ there, ApplyItem(i)
  PROVE  row'[i] = row[i] /\ link'[i] = link[i]
<1>1. link[i] = [s \in Sources |-> NoLink]
  BY DEF Inv, IInv, DeletedHaveNoLinks
<1>2. \A s \in SavesLinks(i) : s \in Sources /\ links[i][s].key # 0 /\ link[i][s].key = links[i][s].key
  BY DEF ApplyItem, Raises, SavesLinks
<1>3. \A s \in Sources : link[i][s].key = 0
  BY <1>1 DEF NoLink
<1>4. SavesLinks(i) = {}
  BY <1>2, <1>3
<1>5. LinksApplied(i) = [s \in Sources |-> link[i][s]]
  BY <1>4 DEF LinksApplied
<1>6. link[i] \in [Sources -> Link]
  BY DEF Inv, IInv, TypeOK, LinkType
<1> QED BY <1>5, <1>6, ApplyEffect

LEMMA ApplyKeepsInv ==
  ASSUME Inv, NEW i \in Items, ApplyItem(i)
  PROVE  Inv'
<1>1. /\ result' = [result EXCEPT ![i] = "ok"] /\ todo' = todo \ {i} /\ i \in todo
      /\ stage = "applying" /\ stage' = stage
      /\ UNCHANGED <<there, plan, marks, bounds, chosen, form>>
      /\ row' \in [Items -> Row] /\ link' \in [Items -> [Sources -> Link]]
      /\ synced' \in [Items -> Providers]
  BY ApplyEffect
<1>2. /\ \A j \in Items \ {i} : row'[j] = row[j] /\ link'[j] = link[j] /\ synced'[j] = synced[j]
      /\ row'[i] = IF i \in there THEN Applied(i) ELSE row[i]
      /\ synced'[i] = IF ProviderChanges(i) THEN ask.provider ELSE synced[i]
  BY ApplyEffect
<1>3. result \in [Items -> {"none", "ok", "failed", "skipped"}] /\ todo \subseteq Items /\ there \subseteq Items
  BY DEF Inv, IInv, TypeOK, RoundType, PlanType, ThereType
<1>4. result' \in [Items -> {"none", "ok", "failed", "skipped"}]
  BY <1>1, <1>3
<1>5. TypeOK'
  BY <1>1, <1>4 DEF Inv, IInv, TypeOK, ThereType, RowType, LinkType, SyncedType, PlanType,
         RoundType, FormType, BoundType, MarkType
<1>6. OutcomesAreApplied'
  BY <1>1, <1>3 DEF Inv, IInv, OutcomesAreApplied
<1>7. NoContradiction'
  BY <1>1 DEF Inv, IInv, NoContradiction
<1>8. CopiesAreFresh'
  BY <1>1, <1>2, <1>3 DEF Inv, IInv, CopiesAreFresh
<1>9. ProviderChanges(i) => i \in there
  BY DEF ApplyItem, Raises, SavesRow
<1>10. MetadataFollowProvider'
  <2>1. synced[i] = row[i].provider /\ \A j \in Items : synced[j] = row[j].provider
    BY DEF Inv, IInv, MetadataFollowProvider
  <2>2. synced'[i] = row'[i].provider
    BY <1>2, <1>9, <2>1 DEF Applied
  <2> QED BY <1>2, <2>1, <2>2 DEF MetadataFollowProvider
<1>11. \A j \in Items \ {i} : result'[j] = result[j]
  BY <1>1, <1>3
<1>14. DeletedHaveNoLinks'
  <2> SUFFICES ASSUME NEW j \in Items \ there' PROVE link'[j] = [s \in Sources |-> NoLink]
    BY DEF DeletedHaveNoLinks
  <2>1. link'[j] = link[j]
    BY <1>1, <1>2, MissingGetsNothing
  <2> QED BY <1>1, <2>1 DEF Inv, IInv, DeletedHaveNoLinks
<1>12. AskedIsThere'
  <2> SUFFICES ASSUME NEW j \in there' \ after', result'[j] = "ok"
               PROVE  RowAsked(j)' /\ LinksAsked(j)'
    BY DEF AskedIsThere
  <2>1. CASE j = i
    BY <1>1, <2>1, AppliedRowIsAsked, AppliedLinksAreAsked
  <2>2. CASE j # i
    <3>1. RowAsked(j) /\ LinksAsked(j) /\ j \in Items
      BY <1>1, <1>3, <1>11, <2>2 DEF Inv, AskedIsThere
    <3> QED BY <1>1, <1>2, <2>2, <3>1, SameAsked
  <2> QED BY <2>1, <2>2
<1>13. UndisturbedIsExact'
  <2> DEFINE Exact(j, r) ==
        r = [priority |-> IF ask.priority = Leave THEN copy[j].priority ELSE ask.priority,
             expected |-> (copy[j].expected \ removes[j]) \cup adds[j],
             provider |-> IF ask.provider = Leave THEN copy[j].provider ELSE ask.provider,
             tags |-> (copy[j].tags \cup ask.tagAdd) \ ask.tagRemove]
  <2> SUFFICES ASSUME NEW j \in there' \ (before' \cup after'), result'[j] = "ok"
               PROVE  Exact(j, row'[j]) /\ LinksAsked(j)' /\ synced'[j] = row'[j].provider
    BY <1>1 DEF UndisturbedIsExact
  <2>0. j \in Items /\ synced'[j] = row'[j].provider
    BY <1>1, <1>3, <1>10 DEF MetadataFollowProvider
  <2>1. CASE j = i
    <3>1. row[i] = copy[i]
      BY <1>1, <2>1 DEF Inv, IInv, CopiesAreFresh
    <3>2. row'[i] = Applied(i)
      BY <1>1, <1>2, <2>1
    <3>3. (IF ProviderChanges(i) THEN ask.provider ELSE row[i].provider)
             = IF ask.provider = Leave THEN copy[i].provider ELSE ask.provider
      BY <3>1 DEF ProviderChanges
    <3>4. (IF ListChanges(i) THEN (copy[i].expected \ removes[i]) \cup adds[i] ELSE row[i].expected)
             = (copy[i].expected \ removes[i]) \cup adds[i]
      BY <3>1 DEF ListChanges
    <3>5. Exact(i, Applied(i))
      BY <3>1, <3>3, <3>4 DEF Applied
    <3> QED BY <2>0, <2>1, <3>2, <3>5, AppliedLinksAreAsked
  <2>2. CASE j # i
    <3>1. Exact(j, row[j]) /\ LinksAsked(j)
      BY <1>1, <1>11, <2>0, <2>2 DEF Inv, UndisturbedIsExact
    <3>2. row'[j] = row[j] /\ link'[j] = link[j]
      BY <1>2, <2>0, <2>2
    <3>3. LinksAsked(j)'
      BY <1>1, <2>0, <3>1, <3>2, SameAsked
    <3> QED BY <2>0, <3>1, <3>2, <3>3
  <2> QED BY <2>1, <2>2
<1> QED BY <1>5, <1>6, <1>7, <1>8, <1>10, <1>12, <1>13, <1>14 DEF Inv, IInv

\* What another operator's change does: one item is changed, and marked.
Meddles(i) ==
    /\ i \in there /\ Changed(i) /\ there \ {i} \subseteq there' /\ there' \subseteq there /\ FormType'
    /\ row' \in [Items -> Row] /\ link' \in [Items -> [Sources -> Link]] /\ synced' \in [Items -> Providers]
    /\ \A j \in Items \ {i} : row'[j] = row[j] /\ link'[j] = link[j] /\ synced'[j] = synced[j]
    /\ synced'[i] = row'[i].provider
    /\ i \notin there' => link'[i] = [s \in Sources |-> NoLink]

LEMMA EditsMeddle ==
  ASSUME Inv, NEW i \in Items, NEW s \in Sources,
         EditSource(i, s) \/ AddSource(i, s) \/ RemoveSource(i, s)
  PROVE  Meddles(i)
<1>1. /\ row \in [Items -> Row] /\ link \in [Items -> [Sources -> Link]] /\ synced \in [Items -> Providers]
      /\ synced[i] = row[i].provider /\ FormType /\ edits \in Nat
  BY ConstantsOK DEF ConstantsOK, Inv, IInv, TypeOK, RowType, LinkType, SyncedType, MetadataFollowProvider, BoundType
<1>2. i \in there /\ Changed(i) /\ there' = there /\ FormType' /\ row' = row /\ synced' = synced
  BY <1>1 DEF EditSource, AddSource, RemoveSource, FormType
<1>3. link[i] \in [Sources -> Link] /\ link[i][s] \in Link
  BY <1>1
<1>4. PICK new \in [Sources -> Link] : link' = [link EXCEPT ![i] = new]
  <2>1. CASE EditSource(i, s)
    <3>1. PICK P \in [Patterns -> 0..MaxTimes] : link' = [link EXCEPT ![i][s].include = P]
      BY <2>1 DEF EditSource
    <3> DEFINE one == [link[i][s] EXCEPT !.include = P]
    <3>2. 0..MaxTimes \subseteq Nat
      BY ConstantsOK DEF ConstantsOK
    <3>3. P \in [Patterns -> Nat]
      BY <3>2
    <3>4. one \in Link
      BY <1>3, <3>3 DEF Link
    <3>5. [link[i] EXCEPT ![s] = one] \in [Sources -> Link]
      BY <1>3, <3>4
    <3>6. link' = [link EXCEPT ![i] = [link[i] EXCEPT ![s] = one]]
      BY <1>1, <3>1
    <3> QED BY <3>5, <3>6
  <2>2. CASE AddSource(i, s)
    <3> DEFINE one == [key |-> edits + 2, include |-> [p \in Patterns |-> 0]]
    <3>1. one \in Link
      <4>1. edits + 2 \in Nat
        BY <1>1
      <4>2. [p \in Patterns |-> 0] \in [Patterns -> Nat]
        OBVIOUS
      <4> QED BY <4>1, <4>2 DEF Link
    <3>2. one = [NoLink EXCEPT !.key = edits + 2]
      BY DEF NoLink
    <3>3. [link[i] EXCEPT ![s] = one] \in [Sources -> Link]
      BY <1>3, <3>1
    <3>4. link' = [link EXCEPT ![i] = [link[i] EXCEPT ![s] = one]]
      BY <1>1, <2>2, <3>2 DEF AddSource
    <3> QED BY <3>3, <3>4
  <2>3. CASE RemoveSource(i, s)
    <3>1. [link[i] EXCEPT ![s] = NoLink] \in [Sources -> Link]
      BY <1>3, NoLinkIsALink
    <3>2. link' = [link EXCEPT ![i] = [link[i] EXCEPT ![s] = NoLink]]
      BY <1>1, <2>3 DEF RemoveSource
    <3> QED BY <3>1, <3>2
  <2> QED BY <2>1, <2>2, <2>3
<1> QED BY <1>1, <1>2, <1>4 DEF Meddles

LEMMA DeleteMeddles ==
  ASSUME Inv, NEW i \in Items, Delete(i)
  PROVE  Meddles(i)
<1>1. /\ row \in [Items -> Row] /\ link \in [Items -> [Sources -> Link]] /\ synced \in [Items -> Providers]
      /\ synced[i] = row[i].provider /\ FormType
  BY DEF Inv, IInv, TypeOK, RowType, LinkType, SyncedType, MetadataFollowProvider
<1>2. [q \in Sources |-> NoLink] \in [Sources -> Link]
  BY NoLinkIsALink
<1> QED BY <1>1, <1>2 DEF Delete, Meddles, FormType

LEMMA MeddlingKeepsInv ==
  ASSUME Inv, NEW i \in Items, Meddles(i)
  PROVE  Inv'
<1> USE DEF Meddles
<1>1. /\ edits' = edits + 1 /\ edits < MaxEdits /\ before \subseteq before' /\ after \subseteq after'
      /\ before' \cup after' = before \cup after \cup {i}
      /\ result[i] = "none" => i \in before'
      /\ result[i] # "none" => i \in after'
      /\ UNCHANGED <<plan, chosen, stage, todo, result, rounds, faults>>
  BY DEF Changed
<1>2. edits' \in 0..MaxEdits
  BY <1>1, ConstantsOK DEF ConstantsOK, Inv, IInv, TypeOK, BoundType
<1>3. TypeOK'
  BY <1>1, <1>2 DEF Inv, IInv, TypeOK, ThereType, RowType, LinkType, SyncedType, PlanType,
         RoundType, BoundType, MarkType
<1>4. there \subseteq Items /\ todo \subseteq Items
  BY DEF Inv, IInv, TypeOK, ThereType, RoundType, PlanType
<1>5. OutcomesAreApplied' /\ NoContradiction'
  BY <1>1 DEF Inv, IInv, OutcomesAreApplied, NoContradiction
<1>6. \A j \in todo : result[j] = "none"
  BY DEF Inv, IInv, OutcomesAreApplied
<1>7. CopiesAreFresh'
  BY <1>1, <1>4, <1>6 DEF Inv, IInv, CopiesAreFresh
<1>8. MetadataFollowProvider'
  BY DEF Inv, IInv, MetadataFollowProvider
<1>12. DeletedHaveNoLinks'
  <2> SUFFICES ASSUME NEW j \in Items \ there' PROVE link'[j] = [s \in Sources |-> NoLink]
    BY DEF DeletedHaveNoLinks
  <2>1. CASE j = i
    BY <2>1
  <2>2. CASE j # i
    <3>1. j \notin there
      BY <2>2 DEF Changed, Meddles
    <3> QED BY <2>2, <3>1 DEF Inv, IInv, DeletedHaveNoLinks
  <2> QED BY <2>1, <2>2
<1>9. \A j \in there' \ after' : result'[j] = "ok" => j # i /\ j \in Items /\ j \in there \ after /\ result[j] = "ok"
  BY <1>1, <1>4
<1>10. AskedIsThere'
  BY <1>1, <1>9, SameAsked DEF Inv, AskedIsThere
<1>11. UndisturbedIsExact'
  BY <1>1, <1>9, SameAsked DEF Inv, UndisturbedIsExact
<1> QED BY <1>3, <1>5, <1>7, <1>8, <1>10, <1>11, <1>12 DEF Inv, IInv

\* Opening or dropping a form changes nothing else.
LEMMA FormStepKeepsInv ==
  ASSUME Inv, FormType', UNCHANGED <<world, plan, marks, bounds, chosen, stage, todo, result>>
  PROVE  Inv'
<1>1. TypeOK'
  BY DEF Inv, IInv, TypeOK, ThereType, RowType, LinkType, SyncedType, PlanType,
         RoundType, BoundType, MarkType
<1>2. OutcomesAreApplied' /\ NoContradiction' /\ CopiesAreFresh' /\ MetadataFollowProvider' /\ DeletedHaveNoLinks'
  BY DEF Inv, IInv, OutcomesAreApplied, NoContradiction, CopiesAreFresh, MetadataFollowProvider, DeletedHaveNoLinks
<1>3. there \subseteq Items
  BY DEF Inv, IInv, TypeOK, ThereType
<1>4. AskedIsThere'
  BY <1>3, SameAsked DEF Inv, AskedIsThere
<1>5. UndisturbedIsExact'
  BY <1>3, SameAsked DEF Inv, UndisturbedIsExact
<1> QED BY <1>1, <1>2, <1>4, <1>5 DEF Inv, IInv

LEMMA OpenFormKeepsInv ==
  ASSUME Inv, NEW i \in Items, OpenForm(i)
  PROVE  Inv'
<1>1. row[i] \in Row
  BY DEF Inv, IInv, TypeOK, RowType
<1>2. Choices(i) \subseteq Entry
  BY <1>1, ConstantsOK DEF ConstantsOK, Choices, Row, Entry
<1>3. PICK r \in Row, T \in SUBSET Entry : form' = [item |-> i, row |-> r, typed |-> T]
  <2>1. \A p \in Priorities : [row[i] EXCEPT !.priority = p] \in Row
    BY <1>1 DEF Row
  <2>2. \A m \in Providers : [row[i] EXCEPT !.provider = m] \in Row
    BY <1>1 DEF Row
  <2>3. \A T \in SUBSET Tags : [row[i] EXCEPT !.tags = T] \in Row
    BY <1>1 DEF Row
  <2>4. \A e \in Entry : /\ [row[i] EXCEPT !.expected = row[i].expected \cup {e}] \in Row
                         /\ [row[i] EXCEPT !.expected = row[i].expected \ {e}] \in Row
    BY <1>1 DEF Row
  <2>5. CASE \E p \in Priorities : form' = [item |-> i, row |-> [row[i] EXCEPT !.priority = p], typed |-> {}]
    BY <2>1, <2>5
  <2>6. CASE \E m \in Providers : form' = [item |-> i, row |-> [row[i] EXCEPT !.provider = m], typed |-> {}]
    BY <2>2, <2>6
  <2>7. CASE \E T \in SUBSET Tags : form' = [item |-> i, row |-> [row[i] EXCEPT !.tags = T], typed |-> {}]
    BY <2>3, <2>7
  <2>8. CASE \E e \in Choices(i) \cup {e \in Entry : e[2] = Manual} :
               form' = [item |-> i, row |-> [row[i] EXCEPT !.expected = row[i].expected \cup {e}], typed |-> {e} \ Choices(i)]
    BY <1>2, <2>4, <2>8
  <2>9. CASE \E e \in row[i].expected :
               form' = [item |-> i, row |-> [row[i] EXCEPT !.expected = row[i].expected \ {e}], typed |-> {}]
    BY <1>1, <2>4, <2>9 DEF Row
  <2> QED BY <2>5, <2>6, <2>7, <2>8, <2>9 DEF OpenForm
<1>4. FormType'
  BY <1>3 DEF FormType
<1> QED BY <1>4, FormStepKeepsInv DEF OpenForm

\* Saving a form is such a change, unless the form is dropped.
LEMMA SaveFormMeddles ==
  ASSUME Inv, SaveForm
  PROVE  \/ \E i \in Items : Meddles(i)
         \/ FormType' /\ UNCHANGED <<world, plan, marks, bounds, chosen, stage, todo, result>>
<1> DEFINE i == form.item
<1>1. form \in [item : Items, row : Row, typed : SUBSET Entry] /\ form' = NoForm
  BY DEF SaveForm, Inv, IInv, TypeOK, FormType
<1>2. i \in Items /\ form.row \in Row
  BY <1>1
<1>3. CASE i \in there /\ form.row.expected \ form.typed \subseteq Choices(i)
  <2>1. /\ Changed(i) /\ row' = [row EXCEPT ![i] = form.row]
        /\ synced' = IF form.row.provider # row[i].provider
                       THEN [synced EXCEPT ![i] = form.row.provider] ELSE synced
        /\ UNCHANGED <<there, link>>
    BY <1>3 DEF SaveForm
  <2>2. /\ row \in [Items -> Row] /\ link \in [Items -> [Sources -> Link]] /\ synced \in [Items -> Providers]
        /\ synced[i] = row[i].provider
    BY <1>2 DEF Inv, IInv, TypeOK, RowType, LinkType, SyncedType, MetadataFollowProvider
  <2>3. form.row.provider \in Providers
    BY <1>2 DEF Row
  <2>4. row' \in [Items -> Row] /\ row'[i] = form.row /\ \A j \in Items \ {i} : row'[j] = row[j]
    BY <1>2, <2>1, <2>2
  <2>5. /\ synced' \in [Items -> Providers] /\ \A j \in Items \ {i} : synced'[j] = synced[j]
        /\ synced'[i] = form.row.provider
    BY <1>2, <2>1, <2>2, <2>3
  <2>6. Meddles(i)
    BY <1>1, <1>3, <2>1, <2>2, <2>4, <2>5 DEF Meddles, FormType
  <2> HIDE DEF i
  <2> QED BY <1>2, <2>6
<1>4. CASE ~(i \in there /\ form.row.expected \ form.typed \subseteq Choices(i))
  <2>1. UNCHANGED <<world, plan, marks, bounds, chosen, stage, todo, result>>
    BY <1>4 DEF SaveForm
  <2> HIDE DEF i
  <2> QED BY <1>1, <2>1 DEF FormType
<1> QED BY <1>3, <1>4

LEMMA SaveFormKeepsInv ==
  ASSUME Inv, SaveForm
  PROVE  Inv'
  BY SaveFormMeddles, MeddlingKeepsInv, FormStepKeepsInv

LEMMA NextKeepsInv ==
  ASSUME Inv, [Next]_vars
  PROVE  Inv'
<1>1. CASE Enter \/ Done \/ Finish \/ \E i \in Items : DropItem(i)
  BY <1>1, WorkspaceRests, RestsKeepsInv
<1>2. CASE Submit
  BY <1>2, SubmitKeepsInv
<1>3. CASE Resolve \/ LoadSources \/ LoadItems
  BY <1>3, PreparingKeepsInv
<1>4. CASE \E i \in Items : SkipItem(i) \/ FailItem(i)
  BY <1>4, UnappliedKeepsInv
<1>5. CASE \E i \in Items : ApplyItem(i)
  BY <1>5, ApplyKeepsInv
<1>6. CASE SaveForm
  BY <1>6, SaveFormKeepsInv
<1>7. CASE \E i \in Items : OpenForm(i)
  BY <1>7, OpenFormKeepsInv
<1>8. CASE \E i \in Items : Delete(i)
  BY <1>8, DeleteMeddles, MeddlingKeepsInv
<1>9. CASE \E i \in Items, s \in Sources : EditSource(i, s) \/ AddSource(i, s) \/ RemoveSource(i, s)
  BY <1>9, EditsMeddle, MeddlingKeepsInv
<1>10. CASE UNCHANGED vars
  BY <1>10, FormStepKeepsInv DEF vars, FormType, Inv, IInv, TypeOK
<1> QED BY <1>1, <1>2, <1>3, <1>4, <1>5, <1>6, <1>7, <1>8, <1>9, <1>10 DEF Next

LEMMA InvIsInvariant == Spec => []Inv
<1>1. Init => Inv
  BY InitInv
<1>2. Inv /\ [Next]_vars => Inv'
  BY NextKeepsInv
<1> QED BY <1>1, <1>2, PTL DEF Spec

-----------------------------------------------------------------------------
(* The theorems. *)

\* The types, the freshness of the copies a round works from, and the metadata
\* that follow the provider: the inductive invariant of views.py and forms.py.
THEOREM InvariantHolds == Spec => []IInv
<1>1. Inv => IInv
  BY DEF Inv
<1> QED BY <1>1, InvIsInvariant, PTL

\* What apply_bulk_edit reports as updated has what was asked of it.
THEOREM UpdatedMeansAsked == Spec => []AskedIsThere
<1>1. Inv => AskedIsThere
  BY DEF Inv
<1> QED BY <1>1, InvIsInvariant, PTL

\* Without interference, an update is the loaded item with the changes asked.
THEOREM UpdatesAreExact == Spec => []UndisturbedIsExact
<1>1. Inv => UndisturbedIsExact
  BY DEF Inv
<1> QED BY <1>1, InvIsInvariant, PTL

LEMMA TurnLeavesUnasked ==
  ASSUME Inv, [Next]_vars, stage = "applying", todo' # todo
  PROVE  /\ there' = there
         /\ \A i \in Items :
             /\ i \in Protected \/ i \notin todo \/ i \in todo' \/ result'[i] # "ok" \/ i \notin there
                 => row'[i] = row[i] /\ link'[i] = link[i]
             /\ ask.priority = Leave => row'[i].priority = row[i].priority
             /\ ~ListChanges(i) => row'[i].expected = row[i].expected
             /\ row'[i].provider # row[i].provider => row'[i].provider = ask.provider /\ synced'[i] = ask.provider
             /\ \A t \in Tags : t \notin ask.tagAdd \cup ask.tagRemove => (t \in row'[i].tags <=> t \in row[i].tags)
             /\ \A s \in Sources :
                 /\ link'[i][s].key = link[i][s].key
                 /\ ~Touched(s) => link'[i][s] = link[i][s]
<1>1. \E i \in Items : SkipItem(i) \/ FailItem(i) \/ ApplyItem(i)
  BY DEF Next, vars, Enter, Done, Submit, Resolve, LoadSources, LoadItems, Finish, SaveForm, Changed,
         DropItem, OpenForm, Delete, EditSource, AddSource, RemoveSource
<1>2. CASE \E i \in Items : SkipItem(i) \/ FailItem(i)
  BY <1>2 DEF SkipItem, FailItem, Ends
<1>3. ASSUME NEW k \in Items, ApplyItem(k)
      PROVE  /\ there' = there
             /\ \A i \in Items \ {k} : row'[i] = row[i] /\ link'[i] = link[i]
             /\ row'[k] = IF k \in there THEN Applied(k) ELSE row[k]
             /\ link'[k] = LinksApplied(k)
             /\ synced'[k] = IF ProviderChanges(k) THEN ask.provider ELSE synced[k]
             /\ k \in todo /\ k \notin todo' /\ result'[k] = "ok" /\ k \notin Protected
  <2>1. result \in [Items -> {"none", "ok", "failed", "skipped"}]
    BY DEF Inv, IInv, TypeOK, RoundType
  <2> QED BY <1>3, <2>1, ApplyEffect DEF ApplyItem
<1>4. ASSUME NEW k \in Items, ApplyItem(k)
      PROVE  /\ ask.priority = Leave => row'[k].priority = row[k].priority
             /\ ~ListChanges(k) => row'[k].expected = row[k].expected
             /\ row'[k].provider # row[k].provider => row'[k].provider = ask.provider /\ synced'[k] = ask.provider
             /\ \A t \in Tags : t \notin ask.tagAdd \cup ask.tagRemove => (t \in row'[k].tags <=> t \in row[k].tags)
  <2>1. CASE k \in there
    <3>1. row'[k] = Applied(k) /\ synced'[k] = IF ProviderChanges(k) THEN ask.provider ELSE synced[k]
      BY <1>3, <1>4, <2>1
    <3>2. /\ ask.priority = Leave => Applied(k).priority = row[k].priority
          /\ ~ListChanges(k) => Applied(k).expected = row[k].expected
      BY DEF Applied
    <3>3. Applied(k).provider = IF ProviderChanges(k) THEN ask.provider ELSE row[k].provider
      BY DEF Applied
    <3>4. Applied(k).tags = (row[k].tags \cup ask.tagAdd) \ ask.tagRemove
      BY DEF Applied
    <3> QED BY <3>1, <3>2, <3>3, <3>4
  <2>2. CASE k \notin there
    BY <1>3, <1>4, <2>2
  <2> QED BY <2>1, <2>2
<1>5. ASSUME NEW k \in Items, ApplyItem(k), NEW s \in Sources
      PROVE  /\ link'[k][s].key = link[k][s].key
             /\ ~Touched(s) => link'[k][s] = link[k][s]
  <2>1. link[k][s] \in Link
    BY DEF Inv, IInv, TypeOK, LinkType
  <2>2. link'[k][s] = IF s \in SavesLinks(k)
                        THEN [link[k][s] EXCEPT !.include = Merged(s, links[k][s].include)]
                        ELSE link[k][s]
    BY <1>3, <1>5 DEF LinksApplied
  <2> QED BY <2>1, <2>2 DEF Link, SavesLinks
<1>6. ASSUME NEW k \in Items, ApplyItem(k), k \notin there
      PROVE  row'[k] = row[k] /\ link'[k] = link[k]
  BY <1>6, MissingGetsNothing
<1>7. CASE \E i \in Items : ApplyItem(i)
  BY <1>3, <1>4, <1>5, <1>6, <1>7
<1> QED BY <1>1, <1>2, <1>7

\* The turn of an item changes what the round asks for, on that item, and no more.
THEOREM TurnsLeaveTheRest == Spec => LeavesUnasked
<1>1. Inv /\ [Next]_vars =>
        [stage = "applying" /\ todo' # todo =>
          /\ there' = there
          /\ \A i \in Items :
              /\ i \in Protected \/ i \notin todo \/ i \in todo' \/ result'[i] # "ok" \/ i \notin there
                  => row'[i] = row[i] /\ link'[i] = link[i]
              /\ ask.priority = Leave => row'[i].priority = row[i].priority
              /\ ~ListChanges(i) => row'[i].expected = row[i].expected
              /\ row'[i].provider # row[i].provider => row'[i].provider = ask.provider /\ synced'[i] = ask.provider
              /\ \A t \in Tags : t \notin ask.tagAdd \cup ask.tagRemove => (t \in row'[i].tags <=> t \in row[i].tags)
              /\ \A s \in Sources :
                  /\ link'[i][s].key = link[i][s].key
                  /\ ~Touched(s) => link'[i][s] = link[i][s]]_vars
  BY TurnLeavesUnasked
<1> QED BY <1>1, InvIsInvariant, PTL DEF Spec, LeavesUnasked
-----------------------------------------------------------------------------
(* The rows the form shows after the round. *)

\* The entries of the request that were resolved for an item, and the ItemSources
\* loaded for it, are those it still has, unless somebody else changed the item.
Resolved(i) == result[i] = "ok" \/ (i \in chosen /\ stage \in {"resolved", "sourced", "applying"})
Sourced(i) == result[i] = "ok" \/ (i \in chosen /\ stage \in {"sourced", "applying"})
EntriesFor(i, E) == {e \in E : e[2] = Manual \/ Linked(i, e[2])}
AsResolved(i) == adds[i] = EntriesFor(i, ask.add) /\ removes[i] = EntriesFor(i, ask.remove)
AsSourced(i) == \A s \in Sources : Touched(s) => (Linked(i, s) <=> links[i][s].key # 0)

PlanFollowsLinks ==
    /\ todo \subseteq chosen
    /\ \A i \in Items \ (before \cup after) :
        (Resolved(i) => AsResolved(i)) /\ (Sourced(i) => AsSourced(i))

LEMMA SamePlan ==
  ASSUME UNCHANGED <<ask, adds, removes, links>>, NEW i \in Items,
         \A s \in Sources : link'[i][s].key = link[i][s].key,
         ask.add \subseteq Entry, ask.remove \subseteq Entry
  PROVE  (AsResolved(i)' <=> AsResolved(i)) /\ (AsSourced(i)' <=> AsSourced(i))
<1>1. \A s \in Sources : Linked(i, s)' <=> Linked(i, s)
  BY DEF Linked
<1>2. \A s \in Sources : Touched(s)' <=> Touched(s)
  BY DEF Touched, PatternsToAdd, PatternsToRemove
<1>3. EntriesFor(i, ask.add)' = EntriesFor(i, ask.add) /\ EntriesFor(i, ask.remove)' = EntriesFor(i, ask.remove)
  BY <1>1 DEF EntriesFor, Entry
<1>4. AsResolved(i)' <=> AsResolved(i)
  BY <1>3 DEF AsResolved
<1>5. AsSourced(i)' <=> AsSourced(i)
  BY <1>1, <1>2 DEF AsSourced
<1> QED BY <1>4, <1>5

\* What keeps it: nothing becomes chosen or applied of an item that a step leaves as
\* it was, and a step that changes the ItemSources of an item marks it.
LEMMA PlanRests ==
  ASSUME Inv, PlanFollowsLinks, UNCHANGED <<ask, adds, removes, links>>, todo' \subseteq chosen',
         before \cup after \subseteq before' \cup after',
         \A i \in Items \ (before' \cup after') :
            /\ Resolved(i)' => Resolved(i)
            /\ Sourced(i)' => Sourced(i)
            /\ \A s \in Sources : link'[i][s].key = link[i][s].key
  PROVE  PlanFollowsLinks'
<1>1. ask.add \subseteq Entry /\ ask.remove \subseteq Entry
  BY DEF Inv, IInv, TypeOK, PlanType, Ask
<1>2. ASSUME NEW i \in Items \ (before' \cup after')
      PROVE  (Resolved(i)' => AsResolved(i)') /\ (Sourced(i)' => AsSourced(i)')
  BY <1>1, SamePlan DEF PlanFollowsLinks
<1> QED BY <1>2 DEF PlanFollowsLinks

LEMMA NextKeepsPlan ==
  ASSUME Inv, PlanFollowsLinks, [Next]_vars
  PROVE  PlanFollowsLinks'
<1>0. /\ chosen \subseteq Items /\ todo \subseteq Items
      /\ result \in [Items -> {"none", "ok", "failed", "skipped"}]
      /\ link \in [Items -> [Sources -> Link]]
  BY DEF Inv, IInv, TypeOK, RoundType, PlanType, LinkType
<1>1. CASE Enter \/ Done \/ Finish \/ \E i \in Items : DropItem(i)
  <2>1. Rests
    BY <1>1, WorkspaceRests
  <2> QED BY <2>1, PlanRests DEF Rests, Resolved, Sourced
<1>2. CASE Submit
  <2>1. stage' = "submitted" /\ \A i \in Items : result'[i] = "none"
    BY <1>2 DEF Submit
  <2>2. todo' \subseteq chosen'
    BY <1>2 DEF Submit, PlanFollowsLinks
  <2> QED BY <2>1, <2>2 DEF PlanFollowsLinks, Resolved, Sourced
<1>3. CASE Resolve
  <2>1. /\ stage' = "resolved" /\ \A i \in Items : result'[i] = "none"
        /\ adds' = Subset(ask.add) /\ removes' = Subset(ask.remove)
        /\ UNCHANGED <<ask, link, chosen, todo>>
    BY <1>3 DEF Resolve, Inv, IInv, OutcomesAreApplied
  <2>2. ASSUME NEW i \in chosen PROVE AsResolved(i)'
    <3>1. adds'[i] = EntriesFor(i, ask.add) /\ removes'[i] = EntriesFor(i, ask.remove)
      BY <1>0, <2>1 DEF Subset, EntriesFor
    <3> QED BY <2>1, <3>1 DEF AsResolved, EntriesFor, Linked
  <2> QED BY <2>1, <2>2 DEF PlanFollowsLinks, Resolved, Sourced
<1>4. CASE LoadSources
  <2>1. /\ stage = "resolved" /\ stage' = "sourced" /\ \A i \in Items : result'[i] = "none"
        /\ links' = [i \in Items |-> [s \in Sources |->
                        IF i \in chosen /\ Touched(s) THEN link[i][s] ELSE NoLink]]
        /\ UNCHANGED <<ask, adds, removes, link, chosen, todo, before, after>>
    BY <1>4 DEF LoadSources, Inv, IInv, OutcomesAreApplied
  <2>2. ASSUME NEW i \in chosen, NEW s \in Sources, Touched(s) PROVE links'[i][s].key = link[i][s].key
    BY <1>0, <2>1, <2>2
  <2>3. \A s \in Sources : Touched(s)' <=> Touched(s)
    BY <2>1 DEF Touched, PatternsToAdd, PatternsToRemove
  <2>4. \A i \in chosen : AsSourced(i)'
    BY <2>1, <2>2, <2>3 DEF AsSourced, Linked
  <2>5. \A i \in chosen \ (before \cup after) : AsResolved(i)'
    BY <1>0, <2>1 DEF PlanFollowsLinks, Resolved, AsResolved, EntriesFor, Linked
  <2> QED BY <2>1, <2>4, <2>5 DEF PlanFollowsLinks, Resolved, Sourced
<1>5. CASE LoadItems
  <2>1. /\ stage = "sourced" /\ todo' \subseteq chosen /\ \A i \in Items : result'[i] = "none"
        /\ UNCHANGED <<ask, adds, removes, links, link, chosen, before, after>>
    BY <1>5 DEF LoadItems, Selected, Inv, IInv, OutcomesAreApplied
  <2> QED BY <2>1, PlanRests DEF Resolved, Sourced
<1>6. ASSUME NEW i \in Items, SkipItem(i) \/ FailItem(i) PROVE PlanFollowsLinks'
  <2>1. PICK how \in {"skipped", "failed"} : result' = [result EXCEPT ![i] = how]
    BY <1>6 DEF SkipItem, FailItem, Ends
  <2>2. \A j \in Items : result'[j] = "ok" => result[j] = "ok"
    BY <1>0, <2>1
  <2>3. UNCHANGED <<ask, adds, removes, links, link, chosen, stage, before, after>> /\ todo' \subseteq todo
    BY <1>6 DEF SkipItem, FailItem, Ends
  <2> QED BY <2>2, <2>3, PlanRests DEF Resolved, Sourced, PlanFollowsLinks
<1>7. ASSUME NEW i \in Items, ApplyItem(i) PROVE PlanFollowsLinks'
  <2>1. /\ result' = [result EXCEPT ![i] = "ok"] /\ todo' = todo \ {i} /\ i \in todo
        /\ stage = "applying" /\ stage' = stage
        /\ UNCHANGED <<ask, adds, removes, links, chosen, before, after>>
        /\ \A j \in Items \ {i} : link'[j] = link[j]
        /\ link'[i] = LinksApplied(i)
    BY <1>7, ApplyEffect
  <2>2. \A s \in Sources : link'[i][s].key = link[i][s].key
    <3> SUFFICES ASSUME NEW s \in Sources PROVE link'[i][s].key = link[i][s].key
      OBVIOUS
    <3>1. link[i][s] \in Link
      BY <1>0
    <3> QED BY <2>1, <3>1 DEF LinksApplied, Link
  <2>3. i \in chosen /\ \A j \in Items \ {i} : result'[j] = result[j]
    BY <1>0, <2>1 DEF PlanFollowsLinks
  <2>4. \A j \in Items : (Resolved(j)' => Resolved(j)) /\ (Sourced(j)' => Sourced(j))
    BY <2>1, <2>3 DEF Resolved, Sourced
  <2>5. todo' \subseteq chosen'
    BY <2>1 DEF PlanFollowsLinks
  <2> QED BY <2>1, <2>2, <2>4, <2>5, PlanRests
<1>8. ASSUME NEW i \in Items, Meddles(i) PROVE PlanFollowsLinks'
  <2>1. /\ before' \cup after' = before \cup after \cup {i}
        /\ UNCHANGED <<ask, adds, removes, links, chosen, stage, todo, result>>
        /\ \A j \in Items \ {i} : link'[j] = link[j]
    BY <1>8 DEF Meddles, Changed
  <2>2. todo' \subseteq chosen'
    BY <2>1 DEF PlanFollowsLinks
  <2> QED BY <2>1, <2>2, PlanRests DEF Resolved, Sourced
<1>9. ASSUME UNCHANGED <<world, plan, marks, bounds, chosen, stage, todo, result>> PROVE PlanFollowsLinks'
  BY <1>9, PlanRests DEF Resolved, Sourced, PlanFollowsLinks
<1>10. CASE SaveForm
  BY <1>8, <1>9, <1>10, SaveFormMeddles
<1>11. CASE \E i \in Items : OpenForm(i)
  BY <1>9, <1>11 DEF OpenForm
<1>12. CASE UNCHANGED vars
  BY <1>9, <1>12 DEF vars
<1>13. CASE \E i \in Items : Delete(i)
  BY <1>8, <1>13, DeleteMeddles
<1>14. CASE \E i \in Items, s \in Sources : EditSource(i, s) \/ AddSource(i, s) \/ RemoveSource(i, s)
  BY <1>8, <1>14, EditsMeddle
<1> QED BY <1>1, <1>2, <1>3, <1>4, <1>5, <1>6, <1>7, <1>10, <1>11, <1>12, <1>13, <1>14 DEF Next

LEMMA PlanFollowsLinksAlways == Spec => []PlanFollowsLinks
<1>1. Init => PlanFollowsLinks
  BY DEF Init, PlanFollowsLinks, Resolved, Sourced
<1>2. Inv /\ PlanFollowsLinks /\ [Next]_vars => PlanFollowsLinks'
  BY NextKeepsPlan
<1> QED BY <1>1, <1>2, InvIsInvariant, PTL DEF Spec

\* An undisturbed item that was updated: each entry it was in reach of is on it or
\* off it, and each ItemSource it has lists what was asked.
LEMMA ReadsRight ==
  ASSUME Inv, PlanFollowsLinks, NEW i \in Selected \ (before \cup after), result[i] = "ok"
  PROVE  /\ \A e \in ask.add : e[2] = Manual \/ Linked(i, e[2]) => e \in row[i].expected
         /\ \A e \in ask.remove : e[2] = Manual \/ Linked(i, e[2]) => e \notin row[i].expected
         /\ ask.tagAdd \subseteq row[i].tags /\ ask.tagRemove \cap row[i].tags = {}
         /\ \A s \in Sources : Linked(i, s) =>
              /\ \A p \in PatternsToAdd(s) : link[i][s].include[p] > 0
              /\ \A p \in PatternsToRemove(s) \ PatternsToAdd(s) : link[i][s].include[p] = 0
<1>1. i \in Items /\ i \in there
  BY DEF Selected, Inv, IInv, TypeOK, ThereType
<1>2. RowAsked(i) /\ LinksAsked(i)
  BY <1>1 DEF Inv, AskedIsThere
<1>3. AsResolved(i) /\ AsSourced(i)
  BY <1>1 DEF PlanFollowsLinks, Resolved, Sourced
<1>4. /\ \A e \in ask.add : e[2] = Manual \/ Linked(i, e[2]) => e \in adds[i]
      /\ \A e \in ask.remove : e[2] = Manual \/ Linked(i, e[2]) => e \in removes[i]
  BY <1>3 DEF AsResolved, EntriesFor
<1>5. \A s \in Sources : Linked(i, s) /\ Touched(s) => s \in SavesLinks(i)
  BY <1>3 DEF AsSourced, SavesLinks
<1>6. ASSUME NEW s \in Sources, Linked(i, s)
      PROVE  /\ \A p \in PatternsToAdd(s) : link[i][s].include[p] > 0
             /\ \A p \in PatternsToRemove(s) \ PatternsToAdd(s) : link[i][s].include[p] = 0
  <2>1. CASE Touched(s)
    BY <1>2, <1>5, <1>6, <2>1 DEF LinksAsked
  <2>2. CASE ~Touched(s)
    BY <2>2 DEF Touched
  <2> QED BY <2>1, <2>2
<1> QED BY <1>2, <1>4, <1>6 DEF RowAsked

\* After a round that updated every item and that nobody disturbed, "active on X of
\* Y items" reads in every row of the form as the operator asked, but for the strays
\* of a vendor's value: they are counted on top, and no removal reaches them.
THEOREM FormReadsAsAsked == Spec => []RowsReadAsAsked
<1>1. Inv /\ PlanFollowsLinks => RowsReadAsAsked
  <2> SUFFICES ASSUME Inv, PlanFollowsLinks,
                      \A i \in chosen : result[i] = "ok" /\ i \notin before \cup after
               PROVE  /\ \A e \in ask.add : EntryCount(e) = EntryTotal(e) + Cardinality(Strays(e))
                      /\ \A e \in ask.remove : Having(e) = Strays(e)
                      /\ \A t \in ask.tagAdd : Tagged(t) = Selected
                      /\ \A t \in ask.tagRemove : Tagged(t) = {}
                      /\ \A sp \in ask.patternAdd : WithPattern(sp[1], sp[2]) = LinkedTo(sp[1])
                      /\ \A sp \in ask.patternRemove \ ask.patternAdd : PatternCount(sp[1], sp[2]) = 0
    BY DEF RowsReadAsAsked
  <2>1. \A i \in Selected : i \in Selected \ (before \cup after) /\ result[i] = "ok"
    BY DEF Selected
  <2>2. \A e : \A i \in Scope(e) : i \in Selected /\ (e[2] = Manual \/ Linked(i, e[2]))
    BY DEF Scope, LinkedTo
  <2>3. IsFiniteSet(Selected)
    <3>1. Selected \in SUBSET Items
      BY DEF Selected, Inv, IInv, TypeOK, ThereType
    <3> QED BY <3>1, ConstantsOK, FS_Subset DEF ConstantsOK
  <2>4. ASSUME NEW e \in ask.add
        PROVE  EntryCount(e) = EntryTotal(e) + Cardinality(Strays(e))
    <3>1. Scope(e) \subseteq Having(e)
      BY <2>1, <2>2, ReadsRight DEF Having
    <3>2. Having(e) \in SUBSET Selected
      BY DEF Having
    <3>3. IsFiniteSet(Having(e)) /\ IsFiniteSet(Scope(e))
      BY <2>3, <3>1, <3>2, FS_Subset
    <3>4. Having(e) \cap Scope(e) = Scope(e)
      BY <3>1
    <3>5. Cardinality(Having(e) \ Scope(e)) = Cardinality(Having(e)) - Cardinality(Scope(e))
      BY <3>3, <3>4, FS_Difference
    <3>6. Cardinality(Having(e)) \in Nat /\ Cardinality(Scope(e)) \in Nat
      BY <3>3, FS_CardinalityType
    <3>7. EntryCount(e) = Cardinality(Having(e)) /\ EntryTotal(e) = Cardinality(Scope(e))
      BY DEF EntryCount, EntryTotal, Scope
    <3> QED BY <3>5, <3>6, <3>7 DEF Strays
  <2>5. ASSUME NEW e \in ask.remove PROVE Having(e) = Strays(e)
    BY <2>1, <2>2, ReadsRight DEF Having, Strays
  <2>6. /\ \A t \in ask.tagAdd : Tagged(t) = Selected
        /\ \A t \in ask.tagRemove : Tagged(t) = {}
    BY <2>1, ReadsRight DEF Tagged
  <2>7. /\ \A sp \in ask.patternAdd : sp[1] \in Sources /\ sp[2] \in PatternsToAdd(sp[1])
        /\ \A sp \in ask.patternRemove \ ask.patternAdd :
              sp[1] \in Sources /\ sp[2] \in PatternsToRemove(sp[1]) \ PatternsToAdd(sp[1])
    <3>1. ask.patternAdd \subseteq Pattern /\ ask.patternRemove \subseteq Pattern
      BY DEF Inv, IInv, TypeOK, PlanType, Ask
    <3> QED BY <3>1 DEF Pattern, PatternsToAdd, PatternsToRemove
  <2>8. ASSUME NEW sp \in ask.patternAdd PROVE WithPattern(sp[1], sp[2]) = LinkedTo(sp[1])
    BY <2>1, <2>7, ReadsRight DEF WithPattern, LinkedTo
  <2>9. ASSUME NEW sp \in ask.patternRemove \ ask.patternAdd PROVE PatternCount(sp[1], sp[2]) = 0
    <3>1. \A i \in LinkedTo(sp[1]) : link[i][sp[1]].include[sp[2]] = 0
      BY <2>1, <2>7, ReadsRight DEF LinkedTo
    <3>2. {x \in LinkedTo(sp[1]) \X (1..MaxTimes) : x[2] <= link[x[1]][sp[1]].include[sp[2]]} = {}
      <4> SUFFICES ASSUME NEW x \in LinkedTo(sp[1]) \X (1..MaxTimes)
                   PROVE  ~(x[2] <= link[x[1]][sp[1]].include[sp[2]])
        OBVIOUS
      <4>1. x[1] \in LinkedTo(sp[1]) /\ x[2] \in 1..MaxTimes
        OBVIOUS
      <4>2. link[x[1]][sp[1]].include[sp[2]] = 0
        BY <3>1, <4>1
      <4>3. x[2] \in Nat /\ x[2] >= 1
        BY <4>1, ConstantsOK DEF ConstantsOK
      <4> QED BY <4>2, <4>3
    <3> QED BY <3>2, FS_EmptySet DEF PatternCount
  <2> QED BY <2>4, <2>5, <2>6, <2>8, <2>9
<1> QED BY <1>1, InvIsInvariant, PlanFollowsLinksAlways, PTL
=============================================================================
