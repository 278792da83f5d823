--------------------------- MODULE MetadataQueue ---------------------------
(***************************************************************************)
(* The metadata of one item: operators who edit the item, retry a fetch,   *)
(* pin an external id or select a candidate, the queue of fetch requests,  *)
(* the periodic task that drains it, and the workers that run              *)
(* fetch_metadata.  One action per database statement; tasks and requests  *)
(* run outside transactions.                                               *)
(*                                                                         *)
(* Abstracted: what a payload contains (whose it is and which ids it       *)
(* offers remains), the item's text (an edit may have changed it), the     *)
(* existence of the ItemMetadata row (an absent one reads as Unfetched).   *)
(***************************************************************************)
EXTENDS Integers, FiniteSets

CONSTANTS
    Providers,    \* keys of the provider registry
    Ids,          \* external ids
    None,         \* the empty string in either place
    Editors,      \* requests of operators handled at the same time
    Workers,      \* consumer threads
    Batch,        \* METADATA_DRAIN_BATCH_SIZE
    MaxRequests,  \* bound: MetadataFetchRequest rows
    MaxCopies,    \* bound: deliveries of one request in the Huey queue
    MaxCrashes    \* bound: deaths of the consumer

ASSUME ConstantsOK ==
    /\ None \notin Providers \cup Ids
    /\ IsFiniteSet(Workers) /\ IsFiniteSet(Editors)
    /\ Batch \in Nat \ {0}
    /\ {MaxRequests, MaxCopies, MaxCrashes} \subseteq Nat

VARIABLES
    provider,   \* metadata_provider_key of the item
    meta,       \* its ItemMetadata row
    made,       \* the requests are 1 .. made, in the order of requested_at
    done,       \* those with status DONE
    copies,     \* fetch_metadata tasks of each request in the Huey queue
    worker, editor,
    crashes,
    answered,   \* history: requests made when the last answer's item was read
    overlapped  \* history: two fetches of the item have run at the same time

vars == <<provider, meta, made, done, copies, worker, editor, crashes, answered, overlapped>>

Requests == 1 .. MaxRequests
MaybeId == Ids \cup {None}
MaybeProvider == Providers \cup {None}

(* The payload is the answer of provider by: the match with an id, or the  *)
(* candidates, or empty.                                                   *)
Meta == [status : {"unfetched", "matched", "needs_review", "no_match", "error"},
         ext : MaybeId, pin : MaybeId,
         by : MaybeProvider, match : MaybeId, candidates : SUBSET Ids]
Unfetched == [status |-> "unfetched", ext |-> None, pin |-> None,
              by |-> None, match |-> None, candidates |-> {}]

(* A run of fetch_metadata for request req: what it has read of the item   *)
(* and its metadata, and (history) the number of requests made by then.    *)
Worker == [pc : {"idle", "read", "save", "finish"}, req : Requests \cup {0},
           key : MaybeProvider, pin : MaybeId, seen : 0 .. MaxRequests]
IdleWorker == [pc |-> "idle", req |-> 0, key |-> None, pin |-> None, seen |-> 0]

(* A request of an operator: the edit form with what it changes, or the    *)
(* selection of a candidate with what it has read.                         *)
Editor == [pc : {"idle", "save", "reset", "check", "request", "select"},
           key : MaybeProvider, keyChanged : BOOLEAN, textChanged : BOOLEAN,
           by : MaybeProvider, id : MaybeId]
IdleEditor == [pc |-> "idle", key |-> None, keyChanged |-> FALSE, textChanged |-> FALSE,
               by |-> None, id |-> None]

Init ==
    /\ provider = None /\ meta = Unfetched
    /\ made = 0 /\ done = {} /\ copies = [r \in Requests |-> 0]
    /\ worker = [w \in Workers |-> IdleWorker]
    /\ editor = [o \in Editors |-> IdleEditor]
    /\ crashes = 0 /\ answered = 0 /\ overlapped = FALSE

Pending == (1 .. made) \ done
-----------------------------------------------------------------------------
(* Operators *)

(* Bound: requests are made up to MaxRequests, and nothing begins then. *)
Begins(o) == editor[o].pc = "idle" /\ made < MaxRequests

(* request_metadata_refresh *)
Request(o) ==
    /\ editor[o].pc = "request"
    /\ made < MaxRequests
    /\ made' = made + 1
    /\ editor' = [editor EXCEPT ![o] = IdleEditor]
    /\ UNCHANGED <<provider, meta, done, copies, worker, crashes, answered, overlapped>>

(* SearchableItemForm: the item is loaded and compared with what was       *)
(* posted, saved with all its columns, and then synchronised.              *)
EditLoad(o) ==
    /\ Begins(o)
    /\ \E key \in MaybeProvider, t \in BOOLEAN :
          editor' = [editor EXCEPT ![o] = [IdleEditor EXCEPT
                        !.pc = "save", !.key = key,
                        !.keyChanged = (key # provider), !.textChanged = t]]
    /\ UNCHANGED <<provider, meta, made, done, copies, worker, crashes, answered, overlapped>>

EditSave(o) ==
    LET e == editor[o]
    IN  /\ e.pc = "save"
        /\ provider' = e.key
        /\ editor' = [editor EXCEPT ![o] =
              IF e.keyChanged THEN [e EXCEPT !.pc = "reset"]
              ELSE IF e.key # None /\ e.textChanged THEN [e EXCEPT !.pc = "check"]
              ELSE IdleEditor]
        /\ UNCHANGED <<meta, made, done, copies, worker, crashes, answered, overlapped>>

(* Mutant: the new provider is not asked. *)
EditResetSilently(o) ==
    /\ editor[o].pc = "reset"
    /\ meta' = Unfetched
    /\ editor' = [editor EXCEPT ![o] = IdleEditor]
    /\ UNCHANGED <<provider, made, done, copies, worker, crashes, answered, overlapped>>
(* reset_item_metadata *)
EditReset(o) ==
    LET e == editor[o]
    IN  /\ e.pc = "reset"
        /\ meta' = Unfetched
        /\ editor' = [editor EXCEPT ![o] =
              IF e.key # None THEN [e EXCEPT !.pc = "request"] ELSE IdleEditor]
        /\ UNCHANGED <<provider, made, done, copies, worker, crashes, answered, overlapped>>

(* A changed text is looked up anew unless the match is pinned. *)
EditCheckPin(o) ==
    LET e == editor[o]
    IN  /\ e.pc = "check"
        /\ editor' = [editor EXCEPT ![o] =
              IF meta.pin = None THEN [e EXCEPT !.pc = "request"] ELSE IdleEditor]
        /\ UNCHANGED <<provider, meta, made, done, copies, worker, crashes, answered, overlapped>>

(* MetadataRetryView *)
Retry(o) ==
    /\ Begins(o)
    /\ editor' = [editor EXCEPT ![o] = [IdleEditor EXCEPT !.pc = "request"]]
    /\ UNCHANGED <<provider, meta, made, done, copies, worker, crashes, answered, overlapped>>

(* MetadataSetExternalIdView *)
SetExternalId(o) ==
    /\ Begins(o)
    /\ \E id \in Ids : meta' = [meta EXCEPT !.pin = id]
    /\ editor' = [editor EXCEPT ![o] = [IdleEditor EXCEPT !.pc = "request"]]
    /\ UNCHANGED <<provider, made, done, copies, worker, crashes, answered, overlapped>>

(* MetadataSelectCandidateView: one of the stored candidates becomes the   *)
(* match and the pin, and no fetch is requested.                           *)
SelectLoad(o) ==
    /\ Begins(o)
    /\ \E id \in meta.candidates :
          editor' = [editor EXCEPT ![o] = [IdleEditor EXCEPT
                        !.pc = "select", !.id = id, !.by = meta.by]]
    /\ UNCHANGED <<provider, meta, made, done, copies, worker, crashes, answered, overlapped>>

SelectSave(o) ==
    LET e == editor[o]
    IN  /\ e.pc = "select"
        /\ meta' = [status |-> "matched", ext |-> e.id, pin |-> e.id,
                    by |-> e.by, match |-> e.id, candidates |-> {}]
        /\ editor' = [editor EXCEPT ![o] = IdleEditor]
        /\ UNCHANGED <<provider, made, done, copies, worker, crashes, answered, overlapped>>

Operate(o) ==
    \/ Request(o) \/ EditSave(o) \/ EditReset(o) \/ EditCheckPin(o) \/ SelectSave(o)
Begin(o) == EditLoad(o) \/ Retry(o) \/ SetExternalId(o) \/ SelectLoad(o)
-----------------------------------------------------------------------------
(* drain_pending_metadata_fetch_requests, a task of its own: the oldest    *)
(* pending requests are dispatched, whether or not they have been before.  *)
Drain ==
    LET batch == {r \in Pending : Cardinality({q \in Pending : q < r}) < Batch}
    IN  /\ \E w \in Workers : worker[w].pc = "idle"
        /\ copies' = [r \in Requests |->
                        IF r \in batch /\ copies[r] < MaxCopies THEN copies[r] + 1
                        ELSE copies[r]]
        /\ UNCHANGED <<provider, meta, made, done, worker, editor, crashes, answered, overlapped>>

(* A worker takes a task and reads the request with its item. *)
FetchStart(w) ==
    /\ worker[w].pc = "idle"
    /\ \E r \in Requests :
          /\ copies[r] > 0
          /\ copies' = [copies EXCEPT ![r] = @ - 1]
          /\ worker' = [worker EXCEPT ![w] = [IdleWorker EXCEPT
                           !.pc = "read", !.req = r, !.key = provider, !.seen = made]]
    /\ overlapped' = (overlapped \/ \E v \in Workers \ {w} : worker[v].pc # "idle")
    /\ UNCHANGED <<provider, meta, made, done, editor, crashes, answered>>

(* get_or_create of the metadata *)
FetchRead(w) ==
    /\ worker[w].pc = "read"
    /\ worker' = [worker EXCEPT ![w] = [worker[w] EXCEPT !.pc = "save", !.pin = meta.pin]]
    /\ UNCHANGED <<provider, meta, made, done, copies, editor, crashes, answered, overlapped>>

(* What is written over the row m when an id, nothing or candidates are    *)
(* found, or an exception is caught.                                       *)
Found(m, by, id) ==
    [m EXCEPT !.status = "matched", !.ext = id, !.by = by, !.match = id, !.candidates = {}]
(* Mutant: external_id is left as it was. *)
NotFoundKeepsId(m) ==
    [m EXCEPT !.status = "no_match", !.by = None, !.match = None, !.candidates = {}]
NotFound(m) ==
    [m EXCEPT !.status = "no_match", !.ext = None, !.by = None, !.match = None,
              !.candidates = {}]
ToReview(m, by, c) ==
    [m EXCEPT !.status = "needs_review", !.ext = None, !.by = by, !.match = None,
              !.candidates = c]
Failed(m) == [m EXCEPT !.status = "error"]

(* The outcomes of asking provider key for the pinned id or, without one,  *)
(* to resolve the item.  An unknown key raises as a failing request does.  *)
Answers(m, key, pin) ==
    {Failed(m)} \cup
    IF key = None THEN {}
    ELSE {NotFound(m)} \cup
         IF pin # None THEN {Found(m, key, pin)}
         ELSE {Found(m, key, id) : id \in Ids}
              \cup {ToReview(m, key, c) : c \in {s \in SUBSET Ids : Cardinality(s) > 1}}

(* Mutant: save() of every column, the pin that was read among them. *)
FetchSaveAll(w) ==
    /\ worker[w].pc = "save"
    /\ \E a \in Answers(meta, worker[w].key, worker[w].pin) :
          meta' = [a EXCEPT !.pin = worker[w].pin]
    /\ answered' = worker[w].seen
    /\ worker' = [worker EXCEPT ![w] = [worker[w] EXCEPT !.pc = "finish"]]
    /\ UNCHANGED <<provider, made, done, copies, editor, crashes, overlapped>>
FetchSave(w) ==
    /\ worker[w].pc = "save"
    /\ meta' \in Answers(meta, worker[w].key, worker[w].pin)
    /\ answered' = worker[w].seen
    /\ worker' = [worker EXCEPT ![w] = [worker[w] EXCEPT !.pc = "finish"]]
    /\ UNCHANGED <<provider, made, done, copies, editor, crashes, overlapped>>

(* Mutant: the item's other requests count as done, too. *)
FinishAll(w) ==
    /\ worker[w].pc = "finish"
    /\ done' = 1 .. made
    /\ worker' = [worker EXCEPT ![w] = IdleWorker]
    /\ UNCHANGED <<provider, meta, made, copies, editor, crashes, answered, overlapped>>
(* Mutant: a failed request stays pending. *)
FinishUnlessFailed(w) ==
    /\ worker[w].pc = "finish"
    /\ done' = IF meta.status = "error" THEN done ELSE done \cup {worker[w].req}
    /\ worker' = [worker EXCEPT ![w] = IdleWorker]
    /\ UNCHANGED <<provider, meta, made, copies, editor, crashes, answered, overlapped>>
(* The finally clause. *)
Finish(w) ==
    /\ worker[w].pc = "finish"
    /\ done' = done \cup {worker[w].req}
    /\ worker' = [worker EXCEPT ![w] = IdleWorker]
    /\ UNCHANGED <<provider, meta, made, copies, editor, crashes, answered, overlapped>>

Fetch(w) == FetchStart(w) \/ FetchRead(w) \/ FetchSave(w) \/ Finish(w)

(* The running tasks are lost, the queue and the requests remain. *)
ConsumerDies ==
    /\ crashes < MaxCrashes
    /\ \E w \in Workers : worker[w].pc # "idle"
    /\ crashes' = crashes + 1
    /\ worker' = [w \in Workers |-> IdleWorker]
    /\ UNCHANGED <<provider, meta, made, done, copies, editor, answered, overlapped>>

Next ==
    \/ \E o \in Editors : Begin(o) \/ Operate(o)
    \/ \E w \in Workers : Fetch(w)
    \/ Drain \/ ConsumerDies

Spec == Init /\ [][Next]_vars

(* A request that has begun ends, Huey drains the queue every minute, and  *)
(* its threads take the tasks and run them.                                *)
FairSpec == Spec /\ WF_vars(Drain)
                 /\ \A o \in Editors : WF_vars(Operate(o))
                 /\ \A w \in Workers : WF_vars(Fetch(w))
-----------------------------------------------------------------------------
TypeOK ==
    /\ provider \in MaybeProvider
    /\ meta \in Meta
    /\ made \in 0 .. MaxRequests
    /\ done \subseteq 1 .. made
    /\ copies \in [Requests -> 0 .. MaxCopies]
    /\ worker \in [Workers -> Worker]
    /\ editor \in [Editors -> Editor]
    /\ crashes \in 0 .. MaxCrashes
    /\ answered \in 0 .. made
    /\ overlapped \in BOOLEAN

(* The status fits the identifier and the payload, whoever wrote last and  *)
(* in whatever order: a match shows the payload of its own id, candidates  *)
(* are shown only for review, and nothing is left of an earlier answer.    *)
RowIsWhole ==
    /\ meta.status = "matched" => meta.ext # None /\ meta.match = meta.ext
    /\ meta.status = "needs_review" => meta.ext = None /\ meta.candidates # {}
    /\ meta.status \in {"unfetched", "no_match"} =>
          meta.ext = None /\ meta.match = None /\ meta.candidates = {}
    /\ meta.candidates # {} => meta.match = None

(* Until two fetches overlap, a request is done only when the last answer  *)
(* stored was given to a fetch that read the item after the request was    *)
(* made: no duplicate delivery or crash lets an older answer prevail.      *)
AnswersEveryRequest ==
    ~overlapped => \A r \in done : answered >= r

(* No fetch undoes what an operator has pinned since it read the row.      *)
FetchKeepsPin == [][\A w \in Workers : worker'[w] # worker[w] => meta'.pin = meta.pin]_vars

Quiet ==
    /\ Pending = {} /\ \A r \in Requests : copies[r] = 0
    /\ \A w \in Workers : worker[w].pc = "idle"
    /\ \A o \in Editors : editor[o].pc = "idle"

(* When nothing is left to do, what is shown of an item without a pin is   *)
(* the answer of its present provider, with one operator at a time and no  *)
(* fetches that overlapped.                                                *)
ShowsPresentProvider ==
    /\ ~overlapped /\ Cardinality(Editors) = 1
    /\ Quiet /\ provider # None /\ meta.pin = None
    /\ meta.status \in {"matched", "needs_review"}
    => meta.by = provider

(* Every request is served in the end: failures finish it, the oldest come *)
(* first, and a crash leaves it pending.                                   *)
RequestsServed == \A r \in Requests : (r <= made) ~> (r \in done)

(* The inductive invariant.  Tasks are of requests that exist; a fetch has *)
(* read the item after its request was made and, alone, after the answer   *)
(* stored before; one about to finish has stored its own.                  *)
TasksOfRequests == \A r \in Requests : copies[r] > 0 => r <= made
InOrder ==
    \A w \in Workers : worker[w].pc # "idle" =>
        /\ worker[w].req \in 1 .. worker[w].seen /\ worker[w].seen <= made
        /\ ~overlapped =>
              /\ \A v \in Workers \ {w} : worker[v].pc = "idle"
              /\ answered <= worker[w].seen
              /\ worker[w].pc = "finish" => answered = worker[w].seen
(* What an operator writes is whole, and fits the item when nobody else    *)
(* edits it.                                                               *)
EditsFit ==
    \A o \in Editors :
        /\ editor[o].pc = "select" => editor[o].id # None
        /\ Cardinality(Editors) = 1 =>
              \/ editor[o].pc \notin {"save", "reset"}
              \/ editor[o].pc = "save" /\ editor[o].keyChanged
              \/ editor[o].key = provider
(* An answer of another provider, stored or on its way, will be replaced:  *)
(* a request newer than it has been made or is about to be.                *)
ToBeAsked(n) ==
    \/ provider = None
    \/ \E o \in Editors : editor[o].pc \in {"reset", "request"}
    \/ made > n
Shown == meta.pin = None /\ meta.status \in {"matched", "needs_review"}
Renewed ==
    ~overlapped /\ Cardinality(Editors) = 1 =>
        /\ Shown /\ meta.by # provider => ToBeAsked(answered)
        /\ \A w \in Workers :
              worker[w].pc \in {"read", "save"} /\ worker[w].key # provider
                  => ToBeAsked(worker[w].seen)
IInv == TypeOK /\ RowIsWhole /\ TasksOfRequests /\ InOrder /\ AnswersEveryRequest
               /\ EditsFit /\ Renewed

(* openspec/specs/item-metadata-enrichment/spec.md: once set, the pin is   *)
(* authoritative; "no automated process overwrites it with a different     *)
(* externally-resolved match".                                             *)
PinPrevails ==
    Quiet /\ meta.pin # None /\ meta.status \in {"matched", "needs_review"}
        => meta.ext = meta.pin
=============================================================================
