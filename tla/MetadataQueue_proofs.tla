----------------------- MODULE MetadataQueue_proofs -----------------------
(***************************************************************************)
(* Proofs about MetadataQueue for any providers and ids, any number of     *)
(* operators, threads and requests, any batch and any number of crashes.   *)
(***************************************************************************)
EXTENDS MetadataQueue, FiniteSetTheorems, TLAPS

LEMMA Bounds ==
    /\ MaxRequests \in Nat /\ MaxCopies \in Nat /\ MaxCrashes \in Nat
    /\ None \notin Providers /\ None \notin Ids
BY ConstantsOK

LEMMA OnlyOne ==
    ASSUME NEW S, IsFiniteSet(S), Cardinality(S) = 1, NEW x \in S, NEW y \in S
    PROVE  x = y
<1>1. PICK z : S = {z}
  BY FS_Singleton
<1> QED
  BY <1>1

LEMMA IdleTypes == IdleWorker \in Worker /\ IdleEditor \in Editor /\ Unfetched \in Meta
BY Bounds DEF IdleWorker, Worker, IdleEditor, Editor, Unfetched, Meta,
              MaybeId, MaybeProvider

LEMMA EditorFields ==
    ASSUME TypeOK, NEW o \in Editors
    PROVE  /\ editor[o] \in Editor
           /\ editor[o].key \in MaybeProvider /\ editor[o].by \in MaybeProvider
           /\ editor[o].id \in MaybeId
BY DEF TypeOK, Editor

LEMMA WorkerFields ==
    ASSUME TypeOK, NEW w \in Workers
    PROVE  /\ worker[w] \in Worker
           /\ worker[w].key \in MaybeProvider /\ worker[w].pin \in MaybeId
           /\ worker[w].seen \in 0 .. MaxRequests /\ worker[w].req \in Requests \cup {0}
BY DEF TypeOK, Worker

LEMMA MetaFields ==
    ASSUME TypeOK
    PROVE  /\ meta \in Meta /\ meta.pin \in MaybeId /\ meta.by \in MaybeProvider
           /\ meta.candidates \in SUBSET Ids
BY DEF TypeOK, Meta
-----------------------------------------------------------------------------
(* Steps by the record they leave in the thread or the operator's request. *)

LEMMA WorkerMoves ==
    ASSUME TypeOK, NEW w \in Workers, NEW x \in Worker, worker' = [worker EXCEPT ![w] = x]
    PROVE  /\ worker' \in [Workers -> Worker] /\ worker'[w] = x
           /\ \A v \in Workers \ {w} : worker'[v] = worker[v]
BY DEF TypeOK

LEMMA EditorMoves ==
    ASSUME TypeOK, NEW o \in Editors, NEW x \in Editor, editor' = [editor EXCEPT ![o] = x]
    PROVE  /\ editor' \in [Editors -> Editor] /\ editor'[o] = x
           /\ \A e \in Editors \ {o} : editor'[e] = editor[e]
BY DEF TypeOK

(* The outcomes of a fetch: all but the pin is written, or the status only. *)
LEMMA AnswerIs ==
    ASSUME NEW m \in Meta, NEW key \in MaybeProvider, NEW pin \in MaybeId,
           NEW a \in Answers(m, key, pin)
    PROVE  /\ a \in Meta /\ a.pin = m.pin
           /\ \/ /\ a.status = "error" /\ a.ext = m.ext /\ a.by = m.by
                 /\ a.match = m.match /\ a.candidates = m.candidates
              \/ /\ a.status = "matched" /\ a.by = key /\ a.ext # None
                 /\ a.match = a.ext /\ a.candidates = {}
              \/ /\ a.status = "needs_review" /\ a.by = key /\ a.ext = None
                 /\ a.match = None /\ a.candidates # {}
              \/ /\ a.status = "no_match" /\ a.ext = None
                 /\ a.match = None /\ a.candidates = {}
<1>1. CASE a = Failed(m)
  BY <1>1 DEF Failed, Meta
<1>2. CASE a = NotFound(m)
  BY <1>2 DEF NotFound, Meta, MaybeId, MaybeProvider
<1>3. ASSUME NEW id \in Ids, a = Found(m, key, id)
      PROVE  /\ a \in Meta /\ a.pin = m.pin
             /\ a.status = "matched" /\ a.by = key /\ a.ext # None
             /\ a.match = a.ext /\ a.candidates = {}
  BY <1>3, Bounds DEF Found, Meta, MaybeId
<1>4. ASSUME NEW c \in SUBSET Ids, Cardinality(c) > 1, a = ToReview(m, key, c)
      PROVE  /\ a \in Meta /\ a.pin = m.pin
             /\ a.status = "needs_review" /\ a.by = key /\ a.ext = None
             /\ a.match = None /\ a.candidates # {}
  <2>1. c # {}
    BY <1>4, FS_EmptySet
  <2> QED
    BY <1>4, <2>1 DEF ToReview, Meta, MaybeId
<1>5. \/ a = Failed(m) \/ a = NotFound(m)
      \/ \E id \in Ids : a = Found(m, key, id)
      \/ \E c \in SUBSET Ids : Cardinality(c) > 1 /\ a = ToReview(m, key, c)
  BY DEF Answers, MaybeId
<1> QED
  BY <1>1, <1>2, <1>3, <1>4, <1>5

(* What each step of a thread leaves in it. *)
FetchLeaves(w, x) ==
    \/ /\ FetchStart(w)
       /\ x.pc = "read" /\ x.key = provider /\ x.seen = made
       /\ x.req \in Requests /\ copies[x.req] > 0
    \/ /\ \/ FetchRead(w) /\ x.pc = "save"
          \/ FetchSave(w) /\ x.pc = "finish"
       /\ x.key = worker[w].key /\ x.seen = worker[w].seen /\ x.req = worker[w].req
    \/ Finish(w) /\ x = IdleWorker

LEMMA FetchMoves ==
    ASSUME TypeOK, NEW w \in Workers, Fetch(w)
    PROVE  \E x \in Worker :
              /\ worker' = [worker EXCEPT ![w] = x]
              /\ FetchLeaves(w, x)
<1> USE DEF FetchLeaves
<1>1. worker[w] \in Worker
  BY WorkerFields
<1>2. CASE FetchStart(w)
  <2>1. PICK r \in Requests :
           /\ copies[r] > 0
           /\ worker' = [worker EXCEPT ![w] = [IdleWorker EXCEPT
                           !.pc = "read", !.req = r, !.key = provider, !.seen = made]]
    BY <1>2 DEF FetchStart
  <2> DEFINE x == [IdleWorker EXCEPT !.pc = "read", !.req = r, !.key = provider, !.seen = made]
  <2>2. /\ x \in Worker /\ x.pc = "read" /\ x.key = provider /\ x.seen = made /\ x.req = r
    BY IdleTypes DEF TypeOK, Worker, IdleWorker
  <2> QED
    BY <1>2, <2>1, <2>2
<1>3. CASE FetchRead(w)
  <2> DEFINE x == [worker[w] EXCEPT !.pc = "save", !.pin = meta.pin]
  <2>1. /\ x \in Worker /\ x.pc = "save" /\ x.key = worker[w].key
        /\ x.seen = worker[w].seen /\ x.req = worker[w].req
    BY <1>1, MetaFields DEF Worker
  <2> QED
    BY <1>3, <2>1 DEF FetchRead
<1>4. CASE FetchSave(w)
  <2> DEFINE x == [worker[w] EXCEPT !.pc = "finish"]
  <2>1. /\ x \in Worker /\ x.pc = "finish" /\ x.key = worker[w].key
        /\ x.seen = worker[w].seen /\ x.req = worker[w].req
    BY <1>1 DEF Worker
  <2> QED
    BY <1>4, <2>1 DEF FetchSave
<1>5. CASE Finish(w)
  BY <1>5, IdleTypes DEF Finish
<1> QED
  BY <1>2, <1>3, <1>4, <1>5 DEF Fetch

(* What each step of an operator leaves in the request. *)
OperatorLeaves(o, x) ==
    \/ Request(o) /\ x.pc = "idle"
    \/ EditLoad(o) /\ x.pc = "save" /\ x.keyChanged = (x.key # provider)
    \/ EditSave(o) /\ editor[o].keyChanged /\ x.pc = "reset" /\ x.key = editor[o].key
    \/ EditSave(o) /\ ~editor[o].keyChanged /\ x.pc \in {"check", "idle"}
    \/ EditReset(o) /\ (x.pc = "request" \/ (x.pc = "idle" /\ editor[o].key = None))
    \/ EditCheckPin(o) /\ x.pc \in {"request", "idle"}
    \/ (Retry(o) \/ SetExternalId(o)) /\ x.pc = "request"
    \/ SelectLoad(o) /\ x.pc = "select" /\ x.id # None
    \/ SelectSave(o) /\ x.pc = "idle"

LEMMA OperatorMoves ==
    ASSUME TypeOK, NEW o \in Editors, Begin(o) \/ Operate(o)
    PROVE  \E x \in Editor :
              /\ editor' = [editor EXCEPT ![o] = x]
              /\ OperatorLeaves(o, x)
<1> USE DEF OperatorLeaves
<1>1. editor[o] \in Editor
  BY EditorFields
<1>2. IdleEditor \in Editor /\ IdleEditor.pc = "idle"
  BY IdleTypes DEF IdleEditor
<1>3. CASE Request(o)
  BY <1>2, <1>3 DEF Request
<1>4. CASE EditLoad(o)
  <2>1. PICK key \in MaybeProvider, t \in BOOLEAN :
           editor' = [editor EXCEPT ![o] = [IdleEditor EXCEPT
                        !.pc = "save", !.key = key,
                        !.keyChanged = (key # provider), !.textChanged = t]]
    BY <1>4 DEF EditLoad
  <2> DEFINE x == [IdleEditor EXCEPT !.pc = "save", !.key = key,
                                     !.keyChanged = (key # provider), !.textChanged = t]
  <2>2. x \in Editor /\ x.pc = "save" /\ x.key = key /\ x.keyChanged = (key # provider)
    BY <1>2 DEF Editor, IdleEditor
  <2>3. editor' = [editor EXCEPT ![o] = x]
    BY <2>1
  <2> HIDE DEF x
  <2> QED
    BY <1>4, <2>2, <2>3
<1>5. CASE EditSave(o) /\ editor[o].keyChanged
  <2> DEFINE x == [editor[o] EXCEPT !.pc = "reset"]
  <2>1. x \in Editor /\ x.pc = "reset" /\ x.key = editor[o].key
    BY <1>1 DEF Editor
  <2> QED
    BY <1>5, <2>1 DEF EditSave
<1>6. CASE EditSave(o) /\ ~editor[o].keyChanged
  <2> DEFINE x == [editor[o] EXCEPT !.pc = "check"]
  <2>1. x \in Editor /\ x.pc = "check"
    BY <1>1 DEF Editor
  <2>2. editor' = [editor EXCEPT ![o] = x] \/ editor' = [editor EXCEPT ![o] = IdleEditor]
    BY <1>6 DEF EditSave
  <2> QED
    BY <1>2, <1>6, <2>1, <2>2
<1>7. CASE EditReset(o) \/ EditCheckPin(o)
  <2> DEFINE x == [editor[o] EXCEPT !.pc = "request"]
  <2>1. x \in Editor /\ x.pc = "request"
    BY <1>1 DEF Editor
  <2>2. \/ editor' = [editor EXCEPT ![o] = x]
        \/ /\ editor' = [editor EXCEPT ![o] = IdleEditor]
           /\ EditCheckPin(o) \/ editor[o].key = None
    BY <1>7 DEF EditReset, EditCheckPin
  <2> HIDE DEF x
  <2>3. OperatorLeaves(o, x)
    BY <1>7, <2>1
  <2>4. EditCheckPin(o) \/ editor[o].key = None => OperatorLeaves(o, IdleEditor)
    BY <1>2, <1>7
  <2> HIDE DEF OperatorLeaves
  <2> QED
    BY <1>2, <2>1, <2>2, <2>3, <2>4
<1>8. CASE Retry(o) \/ SetExternalId(o)
  <2> DEFINE x == [IdleEditor EXCEPT !.pc = "request"]
  <2>1. x \in Editor /\ x.pc = "request"
    BY <1>2 DEF Editor, IdleEditor
  <2> QED
    BY <1>8, <2>1 DEF Retry, SetExternalId
<1>9. CASE SelectLoad(o)
  <2>1. PICK id \in meta.candidates :
           editor' = [editor EXCEPT ![o] = [IdleEditor EXCEPT
                        !.pc = "select", !.id = id, !.by = meta.by]]
    BY <1>9 DEF SelectLoad
  <2> DEFINE x == [IdleEditor EXCEPT !.pc = "select", !.id = id, !.by = meta.by]
  <2>2. id \in Ids /\ id # None
    BY MetaFields, Bounds
  <2>3. x \in Editor /\ x.pc = "select" /\ x.id = id
    BY <1>2, <2>2, MetaFields DEF Editor, IdleEditor, MaybeId
  <2> QED
    BY <1>9, <2>1, <2>2, <2>3
<1>10. CASE SelectSave(o)
  BY <1>2, <1>10 DEF SelectSave
<1> QED
  BY <1>3, <1>4, <1>5, <1>6, <1>7, <1>8, <1>9, <1>10 DEF Begin, Operate
-----------------------------------------------------------------------------
(* Which variables a step leaves alone. *)

LEMMA OperatorFrame ==
    ASSUME NEW o \in Editors, Begin(o) \/ Operate(o)
    PROVE  /\ UNCHANGED <<done, copies, worker, crashes, answered, overlapped>>
           /\ EditSave(o) \/ UNCHANGED provider
           /\ EditReset(o) \/ SetExternalId(o) \/ SelectSave(o) \/ UNCHANGED meta
           /\ Request(o) \/ UNCHANGED made
BY DEF Begin, Operate, Request, EditLoad, EditSave, EditReset, EditCheckPin, Retry,
       SetExternalId, SelectLoad, SelectSave

LEMMA FetchFrame ==
    ASSUME NEW w \in Workers, Fetch(w)
    PROVE  /\ UNCHANGED <<provider, made, editor, crashes>>
           /\ FetchSave(w) \/ UNCHANGED <<meta, answered>>
           /\ Finish(w) \/ UNCHANGED done
           /\ FetchStart(w) \/ UNCHANGED <<copies, overlapped>>
BY DEF Fetch, FetchStart, FetchRead, FetchSave, Finish

(* What an operator or a thread writes into the row is a row. *)
LEMMA OperatorMeta ==
    ASSUME TypeOK, NEW o \in Editors, Begin(o) \/ Operate(o)
    PROVE  meta' \in Meta
<1>1. CASE EditReset(o)
  BY <1>1, IdleTypes DEF EditReset
<1>2. CASE SetExternalId(o)
  <2>1. PICK id \in Ids : meta' = [meta EXCEPT !.pin = id]
    BY <1>2 DEF SetExternalId
  <2> QED
    BY <2>1, MetaFields DEF Meta, MaybeId
<1>3. CASE SelectSave(o)
  <2>1. /\ editor[o].id \in MaybeId /\ editor[o].by \in MaybeProvider
    BY EditorFields
  <2> QED
    BY <1>3, <2>1 DEF SelectSave, Meta, MaybeId
<1> QED
  BY <1>1, <1>2, <1>3, OperatorFrame, MetaFields

LEMMA FetchMeta ==
    ASSUME TypeOK, NEW w \in Workers, Fetch(w)
    PROVE  meta' \in Meta /\ meta'.pin = meta.pin
<1>1. CASE FetchSave(w)
  <2>1. meta' \in Answers(meta, worker[w].key, worker[w].pin)
    BY <1>1 DEF FetchSave
  <2> QED
    BY <2>1, AnswerIs, WorkerFields, MetaFields
<1> QED
  BY <1>1, FetchFrame, MetaFields

(* The drain adds tasks of pending requests only. *)
LEMMA DrainCopies ==
    ASSUME TypeOK, Drain
    PROVE  /\ copies' \in [Requests -> 0 .. MaxCopies]
           /\ \A r \in Requests : copies'[r] > 0 => copies[r] > 0 \/ r <= made
<1> DEFINE B == {r \in Pending : Cardinality({q \in Pending : q < r}) < Batch}
           next(r) == IF r \in B /\ copies[r] < MaxCopies THEN copies[r] + 1 ELSE copies[r]
<1>1. copies' = [r \in Requests |-> next(r)]
  BY DEF Drain
<1>2. B \subseteq 1 .. made
  BY DEF Pending
<1>3. made \in Int
  BY Bounds DEF TypeOK
<1> HIDE DEF B
<1>4. \A r \in Requests : next(r) \in 0 .. MaxCopies
  BY Bounds DEF TypeOK
<1>5. ASSUME NEW r \in Requests, next(r) > 0
      PROVE  copies[r] > 0 \/ r <= made
  <2>1. CASE r \in B
    BY <1>2, <1>3, <2>1
  <2> QED
    BY <1>5, <2>1
<1> HIDE DEF next
<1> QED
  BY <1>1, <1>4, <1>5

LEMMA StartCopies ==
    ASSUME TypeOK, NEW w \in Workers, FetchStart(w)
    PROVE  /\ copies' \in [Requests -> 0 .. MaxCopies]
           /\ \A r \in Requests : copies'[r] > 0 => copies[r] > 0
<1>1. PICK r \in Requests : copies[r] > 0 /\ copies' = [copies EXCEPT ![r] = @ - 1]
  BY DEF FetchStart
<1>2. copies[r] - 1 \in 0 .. MaxCopies
  BY <1>1, Bounds DEF TypeOK
<1> QED
  BY <1>1, <1>2 DEF TypeOK
-----------------------------------------------------------------------------
LEMMA TypeOKInitially == Init => TypeOK
<1> SUFFICES ASSUME Init PROVE TypeOK
  OBVIOUS
<1>1. /\ provider \in MaybeProvider /\ meta \in Meta
      /\ worker \in [Workers -> Worker] /\ editor \in [Editors -> Editor]
  BY IdleTypes DEF Init, MaybeProvider
<1>2. /\ made \in 0 .. MaxRequests /\ done \subseteq 1 .. made
      /\ copies \in [Requests -> 0 .. MaxCopies]
      /\ crashes \in 0 .. MaxCrashes /\ answered \in 0 .. made
  BY Bounds DEF Init
<1>3. overlapped \in BOOLEAN
  BY DEF Init
<1> QED
  BY <1>1, <1>2, <1>3 DEF TypeOK

LEMMA TypeOKKept ==
    ASSUME TypeOK, InOrder, [Next]_vars
    PROVE  TypeOK'
<1>1. CASE UNCHANGED vars
  BY <1>1 DEF vars, TypeOK
<1>2. ASSUME NEW o \in Editors, Begin(o) \/ Operate(o)
      PROVE  TypeOK'
  <2>1. UNCHANGED <<done, copies, worker, crashes, answered, overlapped>>
    BY <1>2, OperatorFrame
  <2>2. editor' \in [Editors -> Editor]
    BY <1>2, OperatorMoves, EditorMoves
  <2>3. provider' \in MaybeProvider
    BY <1>2, OperatorFrame, EditorFields DEF TypeOK, EditSave
  <2>4. made' \in 0 .. MaxRequests /\ made <= made'
    BY <1>2, OperatorFrame, Bounds DEF TypeOK, Request
  <2>5. done' \subseteq 1 .. made' /\ answered' \in 0 .. made'
    BY <2>1, <2>4, Bounds DEF TypeOK
  <2> QED
    BY <1>2, <2>1, <2>2, <2>3, <2>4, <2>5, OperatorMeta DEF TypeOK
<1>3. ASSUME NEW w \in Workers, Fetch(w)
      PROVE  TypeOK'
  <2>1. UNCHANGED <<provider, made, editor, crashes>>
    BY <1>3, FetchFrame
  <2>2. worker' \in [Workers -> Worker]
    BY <1>3, FetchMoves, WorkerMoves
  <2>3. copies' \in [Requests -> 0 .. MaxCopies]
    <3>1. CASE FetchStart(w)
      BY <3>1, StartCopies
    <3> QED
      BY <1>3, <3>1, FetchFrame DEF TypeOK
  <2>4. worker[w].pc # "idle" =>
          worker[w].req \in 1 .. made /\ worker[w].seen \in 0 .. made
    BY WorkerFields, Bounds DEF InOrder, TypeOK, Requests
  <2>5. done' \subseteq 1 .. made'
    BY <1>3, <2>1, <2>4, FetchFrame DEF TypeOK, Finish
  <2>6. answered' \in 0 .. made'
    BY <1>3, <2>1, <2>4, FetchFrame DEF TypeOK, FetchSave
  <2>7. overlapped' \in BOOLEAN
    BY <1>3, FetchFrame DEF TypeOK, FetchStart
  <2> QED
    BY <1>3, <2>1, <2>2, <2>3, <2>5, <2>6, <2>7, FetchMeta DEF TypeOK
<1>4. CASE Drain
  <2>1. copies' \in [Requests -> 0 .. MaxCopies]
    BY <1>4, DrainCopies
  <2> QED
    BY <1>4, <2>1 DEF Drain, TypeOK
<1>5. CASE ConsumerDies
  <2>1. worker' \in [Workers -> Worker]
    BY <1>5, IdleTypes DEF ConsumerDies
  <2>2. crashes' \in 0 .. MaxCrashes
    BY <1>5, Bounds DEF ConsumerDies, TypeOK
  <2> QED
    BY <1>5, <2>1, <2>2 DEF ConsumerDies, TypeOK
<1> QED
  BY <1>1, <1>2, <1>3, <1>4, <1>5 DEF Next
-----------------------------------------------------------------------------
(* An answer overwrites every column it speaks of, an error only the        *)
(* status; a selection writes an id of its own.                             *)
LEMMA RowKept ==
    ASSUME TypeOK, RowIsWhole, EditsFit, [Next]_vars
    PROVE  RowIsWhole'
<1>1. CASE UNCHANGED meta
  BY <1>1 DEF RowIsWhole
<1>2. ASSUME NEW o \in Editors, Begin(o) \/ Operate(o)
      PROVE  RowIsWhole'
  <2>1. CASE EditReset(o)
    BY <2>1 DEF EditReset, Unfetched, RowIsWhole
  <2>2. CASE SetExternalId(o)
    <3>1. PICK id \in Ids : meta' = [meta EXCEPT !.pin = id]
      BY <2>2 DEF SetExternalId
    <3>2. /\ meta'.status = meta.status /\ meta'.ext = meta.ext
          /\ meta'.match = meta.match /\ meta'.candidates = meta.candidates
      BY <3>1, MetaFields DEF Meta
    <3> QED
      BY <3>2 DEF RowIsWhole
  <2>3. CASE SelectSave(o)
    <3>1. editor[o].id # None
      BY <2>3 DEF EditsFit, SelectSave
    <3> QED
      BY <2>3, <3>1 DEF SelectSave, RowIsWhole
  <2> QED
    BY <1>1, <1>2, <2>1, <2>2, <2>3, OperatorFrame
<1>3. ASSUME NEW w \in Workers, Fetch(w)
      PROVE  RowIsWhole'
  <2>1. CASE FetchSave(w)
    <3>1. meta' \in Answers(meta, worker[w].key, worker[w].pin)
      BY <2>1 DEF FetchSave
    <3>2. /\ meta \in Meta /\ worker[w].key \in MaybeProvider /\ worker[w].pin \in MaybeId
      BY MetaFields, WorkerFields
    <3> QED
      BY <3>1, <3>2, AnswerIs DEF RowIsWhole
  <2> QED
    BY <1>1, <1>3, <2>1, FetchFrame
<1> QED
  BY <1>1, <1>2, <1>3 DEF Next, Drain, ConsumerDies, vars

LEMMA TasksKept ==
    ASSUME TypeOK, TasksOfRequests, [Next]_vars
    PROVE  TasksOfRequests'
<1>1. made \in Nat /\ made' \in Nat /\ made <= made'
  <2>1. made \in Nat
    BY Bounds DEF TypeOK
  <2>2. made' = made \/ made' = made + 1
    BY OperatorFrame, FetchFrame DEF Next, Request, Drain, ConsumerDies, vars
  <2> QED
    BY <2>1, <2>2
<1>2. \A r \in Requests : copies'[r] > 0 => copies[r] > 0 \/ r <= made
  <2>1. CASE UNCHANGED copies
    BY <2>1
  <2>2. CASE Drain
    BY <2>2, DrainCopies
  <2>3. ASSUME NEW w \in Workers, FetchStart(w)
        PROVE  \A r \in Requests : copies'[r] > 0 => copies[r] > 0 \/ r <= made
    BY <2>3, StartCopies
  <2> QED
    BY <2>1, <2>2, <2>3, OperatorFrame, FetchFrame DEF Next, ConsumerDies, vars
<1>3. \A r \in Requests : r \in Int
  BY DEF Requests
<1> QED
  BY <1>1, <1>2, <1>3 DEF TasksOfRequests

(* Fetches that do not overlap store their answers in the order they read  *)
(* the item, so answered only grows.                                       *)
LEMMA InOrderKept ==
    ASSUME TypeOK, TasksOfRequests, InOrder, [Next]_vars
    PROVE  InOrder'
<1> USE DEF FetchLeaves
<1>1. /\ made \in Nat /\ made' \in Nat /\ made <= made' /\ answered \in 0 .. made
  <2>1. made \in Nat /\ answered \in 0 .. made
    BY Bounds DEF TypeOK
  <2>2. made' = made \/ made' = made + 1
    BY OperatorFrame, FetchFrame DEF Next, Request, Drain, ConsumerDies, vars
  <2> QED
    BY <2>1, <2>2
<1>2. CASE UNCHANGED <<worker, answered, overlapped>>
  <2> SUFFICES ASSUME NEW w \in Workers, worker[w].pc # "idle"
               PROVE  worker[w].seen <= made'
    BY <1>2 DEF InOrder
  <2>1. worker[w].seen \in Nat /\ worker[w].seen <= made
    BY WorkerFields, Bounds DEF InOrder
  <2> QED
    BY <1>1, <2>1
<1>3. ASSUME NEW w \in Workers, Fetch(w)
      PROVE  InOrder'
  <2>1. PICK x \in Worker :
           /\ worker' = [worker EXCEPT ![w] = x]
           /\ FetchLeaves(w, x)
    BY <1>3, FetchMoves
  <2>2. worker'[w] = x /\ \A v \in Workers \ {w} : worker'[v] = worker[v]
    BY <2>1, WorkerMoves
  <2>3. UNCHANGED made
    BY <1>3, FetchFrame
  <2>4. ~overlapped' =>
          /\ ~overlapped
          /\ FetchStart(w) => \A v \in Workers \ {w} : worker[v].pc = "idle"
    BY <1>3, FetchFrame DEF FetchStart, TypeOK
  <2>5. x.pc # "idle" =>
          /\ x.req \in 1 .. x.seen /\ x.seen <= made
          /\ ~overlapped' =>
                /\ \A v \in Workers \ {w} : worker[v].pc = "idle"
                /\ answered' <= x.seen /\ (x.pc = "finish" => answered' = x.seen)
    <3>1. CASE FetchStart(w)
      <4>1. x.pc = "read" /\ x.seen = made /\ x.req \in Requests /\ copies[x.req] > 0
        BY <2>1, <3>1 DEF FetchStart, FetchRead, FetchSave, Finish
      <4>2. x.req \in 1 .. made
        BY <1>1, <4>1, Bounds DEF TasksOfRequests, Requests
      <4>3. answered' = answered
        BY <3>1 DEF FetchStart
      <4> QED
        BY <1>1, <2>4, <3>1, <4>1, <4>2, <4>3
    <3>2. CASE FetchRead(w)
      BY <2>1, <2>4, <3>2 DEF FetchStart, FetchRead, FetchSave, Finish, InOrder
    <3>3. CASE FetchSave(w)
      <4>1. answered' = worker[w].seen /\ worker[w].seen \in Int
        BY <3>3, WorkerFields, Bounds DEF FetchSave
      <4> QED
        BY <2>1, <2>4, <3>3, <4>1 DEF FetchStart, FetchRead, FetchSave, Finish, InOrder
    <3>4. CASE Finish(w)
      BY <2>1, <3>4 DEF FetchStart, FetchRead, FetchSave, Finish, IdleWorker
    <3> QED
      BY <2>1, <3>1, <3>2, <3>3, <3>4
  <2>6. ~overlapped' => \A v \in Workers \ {w} : worker[v].pc = "idle"
    BY <1>3, <2>4 DEF Fetch, FetchRead, FetchSave, Finish, InOrder
  <2>7. ASSUME NEW v \in Workers \ {w}, worker[v].pc # "idle"
        PROVE  worker[v].req \in 1 .. worker[v].seen /\ worker[v].seen <= made /\ overlapped'
    BY <2>6, <2>7 DEF InOrder
  <2> QED
    BY <2>2, <2>3, <2>5, <2>6, <2>7 DEF InOrder
<1>4. CASE ConsumerDies
  BY <1>4 DEF ConsumerDies, InOrder, IdleWorker
<1> QED
  BY <1>2, <1>3, <1>4, OperatorFrame DEF Next, Drain, vars

LEMMA AnswersKept ==
    ASSUME TypeOK, InOrder, AnswersEveryRequest, [Next]_vars
    PROVE  AnswersEveryRequest'
<1> SUFFICES ASSUME ~overlapped'
             PROVE  \A r \in done' : answered' >= r
  BY DEF AnswersEveryRequest
<1>0. ~overlapped
  BY OperatorFrame, FetchFrame DEF Next, FetchStart, Drain, ConsumerDies, vars
<1>1. /\ answered \in Nat /\ \A r \in done : r \in Int /\ answered >= r
  BY <1>0, Bounds DEF TypeOK, AnswersEveryRequest
<1>2. CASE UNCHANGED <<done, answered>>
  BY <1>1, <1>2
<1>3. ASSUME NEW w \in Workers, Fetch(w)
      PROVE  \A r \in done' : answered' >= r
  <2>1. worker[w].seen \in Nat
    BY WorkerFields, Bounds
  <2>2. CASE FetchSave(w)
    <3>1. done' = done /\ answered' = worker[w].seen /\ answered <= worker[w].seen
      BY <1>0, <2>2 DEF FetchSave, InOrder
    <3> QED
      BY <1>1, <2>1, <3>1
  <2>3. CASE Finish(w)
    <3>1. /\ done' = done \cup {worker[w].req} /\ answered' = answered
          /\ answered = worker[w].seen /\ worker[w].req \in 1 .. worker[w].seen
      BY <1>0, <2>3 DEF Finish, InOrder
    <3> QED
      BY <1>1, <2>1, <3>1
  <2> QED
    BY <1>2, <1>3, <2>2, <2>3, FetchFrame
<1> QED
  BY <1>2, <1>3, OperatorFrame DEF Next, Drain, ConsumerDies, vars

(* A lone operator's form still shows the item's provider, unless it        *)
(* changes it.                                                             *)
LEMMA EditsFitKept ==
    ASSUME TypeOK, EditsFit, [Next]_vars
    PROVE  EditsFit'
<1> USE DEF OperatorLeaves
<1>1. CASE UNCHANGED <<editor, provider>>
  BY <1>1 DEF EditsFit
<1>2. ASSUME NEW o \in Editors, Begin(o) \/ Operate(o)
      PROVE  EditsFit'
  <2>1. PICK x \in Editor :
           /\ editor' = [editor EXCEPT ![o] = x]
           /\ OperatorLeaves(o, x)
    BY <1>2, OperatorMoves
  <2>2. editor'[o] = x /\ \A e \in Editors \ {o} : editor'[e] = editor[e]
    BY <2>1, EditorMoves
  <2>3. Cardinality(Editors) = 1 => \A e \in Editors : e = o
    BY OnlyOne, ConstantsOK
  <2>4. x.pc = "select" => x.id # None
    BY <2>1
  <2>5. \/ x.pc \notin {"save", "reset"}
        \/ x.pc = "save" /\ x.keyChanged
        \/ x.key = provider'
    <3>1. CASE EditSave(o)
      <4>1. provider' = editor[o].key
        BY <3>1 DEF EditSave
      <4>2. editor[o].pc = "save"
        BY <3>1 DEF EditSave
      <4>3. x.pc \in {"check", "idle"} \/ x.key = editor[o].key
        BY <2>1, <4>2 DEF Request, EditLoad, EditReset, EditCheckPin, Retry, SetExternalId,
                          SelectLoad, SelectSave, Begins
      <4> QED
        BY <4>1, <4>3
    <3>2. CASE EditLoad(o)
      <4>1. provider' = provider
        BY <3>2 DEF EditLoad
      <4>2. editor[o].pc = "idle"
        BY <3>2 DEF EditLoad, Begins
      <4>3. \/ x.pc \notin {"save", "reset"}
            \/ x.pc = "save" /\ x.keyChanged = (x.key # provider)
        BY <2>1, <4>2 DEF EditSave
      <4>4. x.keyChanged \in BOOLEAN
        BY DEF Editor
      <4> QED
        BY <4>1, <4>3, <4>4
    <3> QED
      BY <2>1, <3>1, <3>2
  <2> QED
    BY <2>2, <2>3, <2>4, <2>5 DEF EditsFit
<1> QED
  BY <1>1, <1>2, FetchFrame DEF Next, Drain, ConsumerDies, vars
-----------------------------------------------------------------------------
(* A lone operator who changes the provider goes on until it is asked, or  *)
(* there is none.                                                          *)
LEMMA OperatorRenews ==
    ASSUME TypeOK, EditsFit, Cardinality(Editors) = 1,
           NEW o \in Editors, Begin(o) \/ Operate(o), NEW n \in 0 .. made
    PROVE  ToBeAsked(n)' \/ (provider' = provider /\ ~ToBeAsked(n))
<1> USE DEF OperatorLeaves
<1>1. /\ made \in Nat
      /\ \A e \in Editors : e = o
  BY OnlyOne, ConstantsOK, Bounds DEF TypeOK
<1>2. PICK x \in Editor :
           /\ editor' = [editor EXCEPT ![o] = x]
           /\ OperatorLeaves(o, x)
  BY OperatorMoves
<1>3. editor'[o] = x
  BY <1>2, EditorMoves
<1>4. x.pc \in {"reset", "request"} => ToBeAsked(n)'
  BY <1>3 DEF ToBeAsked
<1>5. CASE Request(o)
  BY <1>1, <1>5 DEF Request, ToBeAsked
<1>6. CASE EditReset(o)
  <2>1. editor[o].key = provider /\ provider' = provider /\ editor[o].pc = "reset"
    BY <1>6 DEF EditReset, EditsFit
  <2>2. x.pc = "request" \/ editor[o].key = None
    BY <1>2, <2>1 DEF Request, EditLoad, EditSave, EditCheckPin, Retry, SetExternalId,
                      SelectLoad, SelectSave, Begins
  <2> QED
    BY <1>4, <2>1, <2>2 DEF ToBeAsked
<1>7. CASE editor[o].pc \notin {"reset", "request"} /\ provider' = provider /\ made' = made
  BY <1>1, <1>7 DEF ToBeAsked
<1>8. CASE EditSave(o)
  <2>1. /\ editor[o].pc = "save" /\ provider' = editor[o].key /\ made' = made
        /\ editor[o].keyChanged \/ editor[o].key = provider
    BY <1>8 DEF EditSave, EditsFit
  <2>2. editor[o].keyChanged => x.pc = "reset"
    BY <1>2, <2>1 DEF Request, EditLoad, EditReset, EditCheckPin, Retry, SetExternalId,
                      SelectLoad, SelectSave, Begins
  <2> QED
    BY <1>4, <1>7, <2>1, <2>2
<1> QED
  BY <1>2, <1>5, <1>6, <1>7, <1>8
     DEF EditLoad, EditCheckPin, Retry, SetExternalId, SelectLoad, SelectSave, Begins

(* Nothing an operator writes is shown as an answer. *)
LEMMA OperatorShows ==
    ASSUME TypeOK, EditsFit, NEW o \in Editors, Begin(o) \/ Operate(o), Shown'
    PROVE  meta' = meta
<1>1. ~EditReset(o)
  BY DEF EditReset, Unfetched, Shown
<1>2. ~SetExternalId(o)
  BY MetaFields, Bounds DEF SetExternalId, Shown, Meta
<1>3. ~SelectSave(o)
  BY DEF SelectSave, Shown, EditsFit
<1> QED
  BY <1>1, <1>2, <1>3, OperatorFrame

LEMMA RenewedKept ==
    ASSUME TypeOK, InOrder, EditsFit, Renewed, [Next]_vars
    PROVE  Renewed'
<1> USE DEF FetchLeaves
<1> SUFFICES ASSUME ~overlapped', Cardinality(Editors) = 1
             PROVE  /\ (Shown /\ meta.by # provider => ToBeAsked(answered))'
                    /\ \A w \in Workers :
                          (worker[w].pc \in {"read", "save"} /\ worker[w].key # provider
                              => ToBeAsked(worker[w].seen))'
  BY DEF Renewed
<1>0. ~overlapped
  BY OperatorFrame, FetchFrame DEF Next, FetchStart, Drain, ConsumerDies, vars
<1>1. /\ Shown /\ meta.by # provider => ToBeAsked(answered)
      /\ \A w \in Workers : worker[w].pc \in {"read", "save"} /\ worker[w].key # provider
            => ToBeAsked(worker[w].seen)
  BY <1>0 DEF Renewed
<1>2. ASSUME NEW o \in Editors, Begin(o) \/ Operate(o)
      PROVE  Renewed'
  <2>1. UNCHANGED <<worker, answered>>
    BY <1>2, OperatorFrame
  <2>2. ASSUME NEW n \in 0 .. made
        PROVE  ToBeAsked(n)' \/ (provider' = provider /\ ~ToBeAsked(n))
    BY <1>2, OperatorRenews
  <2>3. Shown' => meta' = meta
    BY <1>2, OperatorShows
  <2>4. (Shown /\ meta.by # provider => ToBeAsked(answered))'
    <3>1. answered \in 0 .. made
      BY DEF TypeOK
    <3> QED
      BY <1>1, <2>1, <2>2, <2>3, <3>1 DEF ToBeAsked, Shown
  <2>5. ASSUME NEW w \in Workers
        PROVE  (worker[w].pc \in {"read", "save"} /\ worker[w].key # provider
                  => ToBeAsked(worker[w].seen))'
    <3>1. worker[w].pc # "idle" => worker[w].seen \in 0 .. made
      BY WorkerFields, Bounds DEF InOrder
    <3> QED
      BY <1>1, <2>1, <2>2, <3>1 DEF ToBeAsked
  <2> QED
    BY <2>4, <2>5 DEF Renewed
<1>3. ASSUME NEW w \in Workers, Fetch(w)
      PROVE  Renewed'
  <2>1. PICK x \in Worker :
           /\ worker' = [worker EXCEPT ![w] = x]
           /\ FetchLeaves(w, x)
    BY <1>3, FetchMoves
  <2>2. worker'[w] = x /\ \A v \in Workers \ {w} : worker'[v] = worker[v]
    BY <2>1, WorkerMoves
  <2>3. UNCHANGED <<provider, made, editor>>
    BY <1>3, FetchFrame
  <2>4. x.pc \in {"read", "save"} /\ x.key # provider
          => worker[w].pc = "read" /\ worker[w].key = x.key /\ worker[w].seen = x.seen
    BY <2>1 DEF FetchRead, IdleWorker
  <2>5. ASSUME NEW v \in Workers
        PROVE  (worker[v].pc \in {"read", "save"} /\ worker[v].key # provider
                  => ToBeAsked(worker[v].seen))'
    BY <1>1, <2>2, <2>3, <2>4 DEF ToBeAsked
  <2>6. (Shown /\ meta.by # provider => ToBeAsked(answered))'
    <3>1. CASE FetchSave(w)
      <4>1. /\ meta' \in Answers(meta, worker[w].key, worker[w].pin)
            /\ worker[w].pc = "save" /\ answered' = worker[w].seen
        BY <3>1 DEF FetchSave
      <4>2. meta'.status \in {"matched", "needs_review"} => meta'.by = worker[w].key
        BY <4>1, AnswerIs, MetaFields, WorkerFields
      <4> QED
        BY <1>1, <2>3, <4>1, <4>2 DEF ToBeAsked, Shown
    <3>2. CASE UNCHANGED <<meta, answered>>
      BY <1>1, <2>3, <3>2 DEF ToBeAsked, Shown
    <3> QED
      BY <1>3, <3>1, <3>2, FetchFrame
  <2> QED
    BY <2>5, <2>6 DEF Renewed
<1>4. CASE ConsumerDies
  BY <1>1, <1>4 DEF ConsumerDies, IdleWorker, ToBeAsked, Shown
<1>5. CASE Drain \/ UNCHANGED vars
  BY <1>1, <1>5 DEF Drain, vars, ToBeAsked, Shown
<1> QED
  BY <1>2, <1>3, <1>4, <1>5 DEF Next, Renewed
-----------------------------------------------------------------------------
LEMMA Initially == Init => IInv
<1> SUFFICES ASSUME Init PROVE IInv
  OBVIOUS
<1>1. TypeOK
  BY TypeOKInitially
<1>2. RowIsWhole
  BY DEF Init, Unfetched, RowIsWhole
<1>3. TasksOfRequests /\ InOrder /\ AnswersEveryRequest
  BY DEF Init, TasksOfRequests, InOrder, IdleWorker, AnswersEveryRequest
<1>4. EditsFit
  BY DEF Init, EditsFit, IdleEditor
<1>5. Renewed
  BY DEF Init, Renewed, Shown, Unfetched, IdleWorker
<1> QED
  BY <1>1, <1>2, <1>3, <1>4, <1>5 DEF IInv

LEMMA Kept == IInv /\ [Next]_vars => IInv'
BY TypeOKKept, RowKept, TasksKept, InOrderKept, AnswersKept, EditsFitKept, RenewedKept
   DEF IInv

(* The inductive invariant holds in every state: the columns of the row    *)
(* agree (fetch_metadata, MetadataSelectCandidateView) and the requests    *)
(* are answered in order (the finally clause, the drain).                  *)
THEOREM AlwaysSound == Spec => []IInv
BY Initially, Kept, PTL DEF Spec

(* Whoever wrote the row last, status, identifier and payload agree.       *)
THEOREM RowsWhole == Spec => []RowIsWhole
<1>1. IInv => RowIsWhole
  BY DEF IInv
<1> QED
  BY <1>1, AlwaysSound, PTL

(* Until two fetches overlap, a request marked done by the finally clause  *)
(* of fetch_metadata was made before the item was read for the last answer *)
(* stored.                                                                 *)
THEOREM LastQuestionAnswered == Spec => []AnswersEveryRequest
<1>1. IInv => AnswersEveryRequest
  BY DEF IInv
<1> QED
  BY <1>1, AlwaysSound, PTL

(* A changed provider is asked: sync_item_metadata_after_save requests a   *)
(* fetch after the reset, and its answer replaces one of the old provider. *)
THEOREM PresentProviderShown == Spec => []ShowsPresentProvider
<1>1. IInv => ShowsPresentProvider
  <2> SUFFICES ASSUME IInv, ~overlapped, Cardinality(Editors) = 1, Quiet,
                      provider # None, Shown, meta.by # provider
               PROVE  FALSE
    BY DEF ShowsPresentProvider, Shown
  <2>1. ToBeAsked(answered)
    BY DEF IInv, Renewed
  <2>2. made > answered
    BY <2>1 DEF Quiet, ToBeAsked
  <2>3. made \in Nat /\ answered \in Nat
    BY Bounds DEF IInv, TypeOK
  <2>4. made \in done
    BY <2>2, <2>3 DEF Quiet, Pending
  <2>5. answered >= made
    BY <2>4 DEF IInv, AnswersEveryRequest
  <2> QED
    BY <2>2, <2>3, <2>5
<1> QED
  BY <1>1, AlwaysSound, PTL

(* fetch_metadata saves the columns it lists, and user_pinned_external_id  *)
(* is not among them; a crash and the drain write no row.                  *)
THEOREM PinKept == Spec => FetchKeepsPin
<1>1. IInv /\ [Next]_vars => [\A w \in Workers : worker'[w] # worker[w] => meta'.pin = meta.pin]_vars
  <2> SUFFICES ASSUME IInv, Next, NEW v \in Workers, worker'[v] # worker[v]
               PROVE  meta'.pin = meta.pin
    OBVIOUS
  <2>1. ASSUME NEW w \in Workers, Fetch(w)
        PROVE  meta'.pin = meta.pin
    BY <2>1, FetchMeta DEF IInv
  <2>2. ~\E o \in Editors : Begin(o) \/ Operate(o)
    BY OperatorFrame
  <2>3. ~Drain
    BY DEF Drain
  <2> QED
    BY <2>1, <2>2, <2>3 DEF Next, ConsumerDies
<1> QED
  BY <1>1, AlwaysSound, PTL DEF Spec, FetchKeepsPin
=============================================================================
