------------------------ MODULE PriceHistory_proofs ------------------------
(***************************************************************************)
(* Proofs about PriceHistory: its variables keep their types, what a unit  *)
(* heard undisturbed is what the newest stored rows say, and Survivors is  *)
(* what the loop of _dedupe_unit_candidates keeps, for any sources,        *)
(* titles, answers and number of runs.  The bounds on runs, answers, edits *)
(* and faults play no part.                                                *)
(***************************************************************************)
EXTENDS PriceHistory, FiniteSetTheorems, WellFoundedInduction, TLAPS

-----------------------------------------------------------------------------
(* Induction over a recursive function of 0 .. N: a set of numbers that has *)
(* 0 and, with a number, the next one is all of them, because a non-empty   *)
(* set of naturals has a least element.                                     *)

NatLess == {p \in Nat \X Nat : p[1] < p[2]}

LEMMA LeastNat ==
    ASSUME NEW T \in SUBSET Nat, T # {}
    PROVE  \E x \in T : \A y \in T : x <= y
  <1>1. IsWellFoundedOn(NatLess, Nat)
    BY NatLessThanWellFounded DEF OpToRel, NatLess
  <1>2. PICK x \in T : \A y \in T : ~(<<y, x>> \in NatLess)
    BY <1>1, WFMin
  <1>3. \A y \in T : y < x => <<y, x>> \in NatLess
    BY DEF NatLess
  <1>4. \A y \in T : y \in Nat /\ ~(y < x)
    BY <1>2, <1>3
  <1> QED
    BY <1>4

\* A set that has 0 and goes on up to N is 0 .. N.
LEMMA UpTo ==
    ASSUME NEW N \in Nat, NEW T \in SUBSET (0 .. N), 0 \in T,
           \A n \in T : n < N => n + 1 \in T
    PROVE  T = 0 .. N
  <1> SUFFICES ASSUME (0 .. N) \ T # {} PROVE FALSE
    OBVIOUS
  <1>1. (0 .. N) \ T \in SUBSET Nat
    OBVIOUS
  <1>2. PICK x \in (0 .. N) \ T : \A y \in (0 .. N) \ T : x <= y
    BY <1>1, LeastNat
  <1>3. x # 0 /\ x - 1 \in 0 .. N /\ x - 1 < x /\ x \in 0 .. N
    BY <1>2
  <1>4. x - 1 \in T
    BY <1>2, <1>3
  <1>5. (x - 1) + 1 \in T
    BY <1>3, <1>4
  <1> QED
    BY <1>2, <1>3, <1>5

\* The values of g are v, and then what the steps F make of the value before.
Steps(N, V) == [1 .. N -> [V -> V]]
Follows(g, N, V, v, F) ==
    /\ g \in [0 .. N -> V]
    /\ g[0] = v
    /\ \A n \in 1 .. N : g[n] = F[n][g[n - 1]]

\* A function defined by recursion over 0 .. N exists.
LEMMA Recursion ==
    ASSUME NEW N \in Nat, NEW V, NEW v \in V, NEW F \in Steps(N, V)
    PROVE  \E g : Follows(g, N, V, v, F)
  <1> USE DEF Steps, Follows
  <1> DEFINE Upto(n, g) == g[0] = v /\ \A k \in 1 .. n : g[k] = F[k][g[k - 1]]
             T == {n \in 0 .. N : \E g \in [0 .. n -> V] : Upto(n, g)}
  <1>1. 0 \in T
    <2> DEFINE h == [k \in 0 .. 0 |-> v]
    <2>1. h \in [0 .. 0 -> V] /\ h[0] = v /\ 0 \in 0 .. N
      OBVIOUS
    <2>2. \A k \in 1 .. 0 : h[k] = F[k][h[k - 1]]
      OBVIOUS
    <2> HIDE DEF h
    <2> QED
      BY <2>1, <2>2
  <1>2. ASSUME NEW n \in T, n < N PROVE n + 1 \in T
    <2>1. n \in 0 .. N /\ n + 1 \in 1 .. N /\ n + 1 \in 0 .. N
      BY <1>2
    <2>2. PICK g \in [0 .. n -> V] : Upto(n, g)
      BY <1>2
    <2>3. g[n] \in V /\ F[n + 1][g[n]] \in V
      BY <2>1, <2>2
    <2> DEFINE h == [k \in 0 .. n + 1 |-> IF k = n + 1 THEN F[n + 1][g[n]] ELSE g[k]]
    <2>4. \A k \in 0 .. n + 1 : k # n + 1 => k \in 0 .. n
      BY <2>1
    <2>5. h \in [0 .. n + 1 -> V]
      BY <2>3, <2>4
    <2>6. h[0] = v
      BY <2>1, <2>2
    <2>7. ASSUME NEW k \in 1 .. n + 1 PROVE h[k] = F[k][h[k - 1]]
      <3>1. CASE k = n + 1
        <4>1. k - 1 = n /\ n \in 0 .. n + 1 /\ n # n + 1
          BY <2>1, <3>1
        <4> QED
          BY <3>1, <4>1
      <3>2. CASE k # n + 1
        <4>1. k \in 1 .. n /\ k - 1 \in 0 .. n /\ k - 1 # n + 1 /\ k - 1 \in 0 .. n + 1
          BY <2>1, <3>2
        <4> QED
          BY <2>2, <3>2, <4>1
      <3> QED
        BY <3>1, <3>2
    <2>8. Upto(n + 1, h)
      BY <2>6, <2>7
    <2> HIDE DEF h
    <2> QED
      BY <2>1, <2>5, <2>8
  <1>3. T \in SUBSET (0 .. N)
    OBVIOUS
  <1> HIDE DEF T
  <1>4. T = 0 .. N
    BY <1>1, <1>2, <1>3, UpTo
  <1> USE DEF T
  <1>5. N \in T
    BY <1>4
  <1> QED
    BY <1>5

-----------------------------------------------------------------------------
(* Pages. *)

LEMMA PageShape ==
    ASSUME NEW p \in Page
    PROVE  /\ DOMAIN p \subseteq Places
           /\ \A i \in DOMAIN p : /\ p[i] \in Candidate /\ p[i].title \in Titles
                                  /\ p[i].price \in Prices /\ p[i].cat \in Cats
  <1>1. PICK I \in SUBSET Places : p \in [I -> Candidate]
    BY DEF Page
  <1>2. \A i \in DOMAIN p : p[i] \in Candidate
    BY <1>1
  <1> QED
    BY <1>1, <1>2 DEF Candidate

LEMMA PagesArePages ==
    ASSUME NEW raw \in Pages
    PROVE  raw \in Page
  <1>1. PICK n \in 0 .. MaxLen : raw \in [1 .. n -> Candidate]
    BY ConstantsOK DEF ConstantsOK
  <1>2. 1 .. n \subseteq Places
    BY <1>1, ConstantsOK DEF ConstantsOK, Places
  <1> QED
    BY <1>1, <1>2 DEF Page

LEMMA AcceptedIsPage ==
    ASSUME NEW p \in Page, NEW s \in Sources
    PROVE  Accepted(s, p) \in Page
  <1> DEFINE I == {j \in DOMAIN p : s \in JSONSources => Matches(p[j])}
  <1>1. I \subseteq Places /\ \A i \in I : p[i] \in Candidate
    BY PageShape
  <1>2. Accepted(s, p) = [i \in I |-> p[i]]
    BY DEF Accepted
  <1>3. [i \in I |-> p[i]] \in [I -> Candidate]
    BY <1>1
  <1> HIDE DEF I
  <1> QED
    BY <1>1, <1>2, <1>3 DEF Page

LEMMA CountOfPage ==
    ASSUME NEW p \in Page
    PROVE  Cardinality(DOMAIN p) \in Nat
  <1>1. IsFiniteSet(Places)
    BY ConstantsOK, FS_Interval DEF ConstantsOK, Places
  <1>2. IsFiniteSet(DOMAIN p)
    BY <1>1, PageShape, FS_Subset
  <1> QED
    BY <1>2, FS_CardinalityType

LEMMA CountOfPlaces ==
    ASSUME NEW K \in SUBSET Places
    PROVE  Cardinality(K) \in Nat
  <1>1. IsFiniteSet(Places)
    BY ConstantsOK, FS_Interval DEF ConstantsOK, Places
  <1> QED
    BY <1>1, FS_Subset, FS_CardinalityType

LEMMA ToldType ==
    ASSUME NEW p \in Page, NEW old \in [Titles -> Seen]
    PROVE  Told(p, old) \in [Titles -> Seen]
  <1> SUFFICES ASSUME NEW t \in Titles, t \in TitlesOf(p)
               PROVE  p[CHOOSE i \in DOMAIN p : p[i].title = t].price \in Seen
    BY DEF Told
  <1>1. \E i \in DOMAIN p : p[i].title = t
    BY DEF TitlesOf
  <1> DEFINE c == CHOOSE i \in DOMAIN p : p[i].title = t
  <1>2. c \in DOMAIN p
    BY <1>1
  <1> HIDE DEF c
  <1>3. p[c].price \in Prices
    BY <1>2, PageShape
  <1> QED
    BY <1>3 DEF Seen, c

\* Of a page that lists no title twice, each candidate is told.
LEMMA PlainIsTold ==
    ASSUME NEW p \in Page, Plain(p), NEW old, NEW i \in DOMAIN p
    PROVE  Told(p, old)[p[i].title] = p[i].price
  <1> DEFINE t == p[i].title
             c == CHOOSE j \in DOMAIN p : p[j].title = t
  <1>1. t \in Titles /\ t \in TitlesOf(p)
    BY PageShape DEF TitlesOf
  <1>2. c \in DOMAIN p /\ p[c].title = p[i].title
    OBVIOUS
  <1>3. c = i
    BY <1>2 DEF Plain
  <1>4. Told(p, old)[t] = p[c].price
    BY <1>1 DEF Told
  <1> QED
    BY <1>3, <1>4

LEMMA UntoldIsKept ==
    ASSUME NEW p \in Page, NEW old, NEW t \in Titles, t \notin TitlesOf(p)
    PROVE  Told(p, old)[t] = old[t]
  BY DEF Told

-----------------------------------------------------------------------------
(* The loop of _dedupe_unit_candidates. *)

\* After place i the loop has kept the survivors up to i, and its dictionary
\* holds the price of the last fresh candidate of each title.
LoopDone(i, page, fresh, state) ==
    /\ state.out = {j \in Survivors(page, fresh) : j <= i}
    /\ \A t \in Titles :
         \/ \E j \in fresh :
              /\ j <= i /\ page[j].title = t /\ state.kept[t] = page[j].price
              /\ \A k \in fresh : page[k].title = t /\ k <= i => k <= j
         \/ state.kept[t] = None /\ \A k \in fresh : k <= i => page[k].title # t

\* One turn of the loop, at a place p with a fresh candidate.
LEMMA TurnOfLoop ==
    ASSUME NEW n \in Nat, NEW I \in SUBSET (1 .. n), NEW page \in [I -> Candidate],
           NEW fresh \in SUBSET I, NEW p \in fresh, NEW state,
           state \in [kept : [Titles -> Seen], out : SUBSET (1 .. n)],
           LoopDone(p - 1, page, fresh, state),
           NEW after,
           after = IF state.kept[page[p].title] = page[p].price THEN state
                   ELSE [kept |-> [state.kept EXCEPT ![page[p].title] = page[p].price],
                         out |-> state.out \cup {p}]
    PROVE  LoopDone(p, page, fresh, after)
  <1>0. /\ \A j \in fresh : j \in Nat /\ page[j].title \in Titles /\ page[j].price \in Prices
        /\ None \notin Prices
    <2>1. ASSUME NEW j \in fresh
          PROVE  j \in Nat /\ page[j].title \in Titles /\ page[j].price \in Prices
      <3>1. j \in 1 .. n /\ page[j] \in Candidate
        OBVIOUS
      <3> QED
        BY <3>1 DEF Candidate
    <2>2. None \notin Prices
      BY ConstantsOK DEF None, Prices, Out, ConstantsOK
    <2> QED
      BY <2>1, <2>2
  <1>1. \A j \in fresh : /\ j <= p <=> j <= p - 1 \/ j = p
                         /\ j < p <=> j <= p - 1
                         /\ ~(p <= p - 1)
    BY <1>0
  <1> DEFINE t == page[p].title
  <1>2. t \in Titles /\ page[p].price \in Prices
    BY <1>0
  \* The candidate repeats the fresh one before it exactly if the dictionary says so.
  <1>3. Repeats(page, fresh, p) <=> state.kept[t] = page[p].price
    <2>1. ASSUME state.kept[t] = page[p].price PROVE Repeats(page, fresh, p)
      <3>1. PICK j \in fresh :
              /\ j <= p - 1 /\ page[j].title = t /\ state.kept[t] = page[j].price
              /\ \A k \in fresh : page[k].title = t /\ k <= p - 1 => k <= j
        BY <1>0, <1>2, <2>1 DEF LoopDone
      <3>2. \A k \in fresh : page[k].title = t => k <= j \/ p <= k
        BY <1>0, <1>1, <3>1
      <3> QED
        BY <1>1, <2>1, <3>1, <3>2 DEF Repeats
    <2>2. ASSUME Repeats(page, fresh, p) PROVE state.kept[t] = page[p].price
      <3>1. PICK j \in fresh :
              /\ j < p /\ page[j].title = t /\ page[j].price = page[p].price
              /\ \A k \in fresh : page[k].title = t => k <= j \/ p <= k
        BY <2>2 DEF Repeats
      <3>2. PICK k \in fresh :
              /\ k <= p - 1 /\ page[k].title = t /\ state.kept[t] = page[k].price
              /\ \A l \in fresh : page[l].title = t /\ l <= p - 1 => l <= k
        BY <1>1, <1>2, <3>1 DEF LoopDone
      <3>3. k <= j /\ j <= k
        BY <1>0, <1>1, <3>1, <3>2
      <3>4. k = j
        BY <1>0, <3>3
      <3> QED
        BY <3>1, <3>2, <3>4
    <2> QED
      BY <2>1, <2>2
  <1>4. after.out = {j \in Survivors(page, fresh) : j <= p}
    <2>1. Survivors(page, fresh) \subseteq fresh
      BY DEF Survivors
    <2>2. p \in Survivors(page, fresh) <=> ~Repeats(page, fresh, p)
      BY DEF Survivors
    <2>3. state.out = {j \in Survivors(page, fresh) : j <= p - 1}
      BY DEF LoopDone
    <2>4. after.out = IF state.kept[t] = page[p].price THEN state.out ELSE state.out \cup {p}
      OBVIOUS
    <2> QED
      BY <1>1, <1>3, <2>1, <2>2, <2>3, <2>4
  <1>5. \A u \in Titles : after.kept[u] = IF u = t THEN page[p].price ELSE state.kept[u]
    <2>1. CASE state.kept[t] = page[p].price
      BY <2>1
    <2>2. CASE state.kept[t] # page[p].price
      <3>1. after.kept = [state.kept EXCEPT ![t] = page[p].price]
        BY <2>2
      <3> QED
        BY <3>1
    <2> QED
      BY <2>1, <2>2
  <1>6. ASSUME NEW u \in Titles
        PROVE  \/ \E j \in fresh :
                    /\ j <= p /\ page[j].title = u /\ after.kept[u] = page[j].price
                    /\ \A k \in fresh : page[k].title = u /\ k <= p => k <= j
               \/ after.kept[u] = None /\ \A k \in fresh : k <= p => page[k].title # u
    <2>1. CASE u = t
      BY <1>0, <1>5, <2>1
    <2>2. CASE u # t
      <3>1. after.kept[u] = state.kept[u]
        BY <1>5, <2>2
      <3>2. \A k \in fresh : page[k].title = u => (k <= p <=> k <= p - 1)
        BY <1>1, <2>2
      <3>3. \/ \E j \in fresh :
                 /\ j <= p - 1 /\ page[j].title = u /\ state.kept[u] = page[j].price
                 /\ \A k \in fresh : page[k].title = u /\ k <= p - 1 => k <= j
            \/ state.kept[u] = None /\ \A k \in fresh : k <= p - 1 => page[k].title # u
        BY DEF LoopDone
      <3> QED
        BY <3>1, <3>2, <3>3
    <2> QED
      BY <2>1, <2>2
  <1> QED
    BY <1>4, <1>6 DEF LoopDone

\* For any page and snapshot the loop keeps exactly the survivors: the fresh
\* candidates that differ from the fresh one just before them of their title.
THEOREM LoopKeepsSurvivors ==
    ASSUME NEW n \in Nat, NEW I \in SUBSET (1 .. n), NEW page \in [I -> Candidate],
           NEW snapshot \in [Titles -> Seen]
    PROVE  LoopSurvivors(n, page, snapshot) =
           Survivors(page, {i \in DOMAIN page : snapshot[page[i].title] # page[i].price})
  <1> DEFINE fresh == {i \in DOMAIN page : snapshot[page[i].title] # page[i].price}
             V == [kept : [Titles -> Seen], out : SUBSET (1 .. n)]
             v == [kept |-> [t \in Titles |-> None], out |-> {}]
             Turn(i, before) ==
                 IF \/ i \notin DOMAIN page
                    \/ snapshot[page[i].title] = page[i].price
                    \/ before.kept[page[i].title] = page[i].price
                 THEN before
                 ELSE [kept |-> [before.kept EXCEPT ![page[i].title] = page[i].price],
                       out |-> before.out \cup {i}]
             F == [i \in 1 .. n |-> [before \in V |-> Turn(i, before)]]
             Body(loop, i) == IF i = 0 THEN v ELSE Turn(i, loop[i - 1])
  <1>1. fresh \in SUBSET I /\ DOMAIN page = I
    OBVIOUS
  <1>2. v \in V
    BY DEF Seen
  <1>3. ASSUME NEW i \in 1 .. n, NEW before \in V PROVE Turn(i, before) \in V
    <2>1. CASE Turn(i, before) = before
      BY <2>1
    <2>2. CASE i \in DOMAIN page /\ Turn(i, before) =
                 [kept |-> [before.kept EXCEPT ![page[i].title] = page[i].price],
                  out |-> before.out \cup {i}]
      <3>1. page[i].title \in Titles /\ page[i].price \in Seen
        BY <2>2 DEF Candidate, Seen
      <3>2. [before.kept EXCEPT ![page[i].title] = page[i].price] \in [Titles -> Seen]
        BY <3>1
      <3>3. before.out \cup {i} \in SUBSET (1 .. n)
        OBVIOUS
      <3> QED
        BY <2>2, <3>2, <3>3
    <2> QED
      BY <2>1, <2>2
  <1> HIDE DEF V, v, Turn
  <1>4. F \in Steps(n, V)
    BY <1>3 DEF Steps
  <1>5. ASSUME NEW i \in 1 .. n, NEW before \in V PROVE F[i][before] = Turn(i, before)
    OBVIOUS
  <1> HIDE DEF F
  <1>6. PICK g : Follows(g, n, V, v, F)
    BY <1>2, <1>4, Recursion
  <1>7. g \in [0 .. n -> V] /\ g[0] = v
    BY <1>6 DEF Follows
  <1>8. ASSUME NEW i \in 1 .. n PROVE g[i] = Turn(i, g[i - 1]) /\ i - 1 \in 0 .. n /\ g[i - 1] \in V
    <2>1. i - 1 \in 0 .. n
      OBVIOUS
    <2>2. g[i - 1] \in V /\ g[i] = F[i][g[i - 1]]
      BY <1>6, <1>7, <2>1 DEF Follows
    <2> QED
      BY <1>5, <2>1, <2>2
  <1>9. \A i \in 0 .. n : g[i] = Body(g, i)
    BY <1>7, <1>8
  <1>10. g = [i \in 0 .. n |-> Body(g, i)]
    <2>1. g = [i \in 0 .. n |-> g[i]]
      BY <1>7
    <2> HIDE DEF Body
    <2> QED
      BY <1>9, <2>1
  <1> DEFINE f == CHOOSE loop : loop = [i \in 0 .. n |-> Body(loop, i)]
  <1>11. LoopSurvivors(n, page, snapshot) = f[n].out
    BY DEF LoopSurvivors, v, Turn
  <1>12. f = [i \in 0 .. n |-> Body(f, i)]
    BY <1>10
  <1> HIDE DEF f, fresh
  \* The loop computes g, and g keeps LoopDone.
  <1> DEFINE T == {i \in 0 .. n : f[i] = g[i] /\ LoopDone(i, page, fresh, g[i])}
  <1>13. 0 \in T
    <2>1. 0 \in 0 .. n /\ f[0] = v
      BY <1>12
    <2>2. \A j \in fresh : ~(j <= 0)
      BY <1>1
    <2>3. LoopDone(0, page, fresh, v)
      BY <2>2 DEF LoopDone, v, Survivors
    <2> QED
      BY <1>7, <2>1, <2>3
  <1>14. ASSUME NEW q \in T, q < n PROVE q + 1 \in T
    <2>1. PICK p \in 1 .. n : p = q + 1 /\ p - 1 = q /\ p \in 0 .. n /\ p # 0
      BY <1>14
    <2>2. g[p] = Turn(p, g[q]) /\ g[q] \in V
      BY <1>8, <2>1
    <2>3. f[p] = g[p]
      <3>1. f[p] = Body(f, p)
        BY <1>12, <2>1
      <3>2. f[p - 1] = g[p - 1]
        BY <2>1
      <3> QED
        BY <1>8, <2>1, <3>1, <3>2
    <2>4. LoopDone(p - 1, page, fresh, g[q])
      BY <2>1
    <2>5. CASE p \notin fresh
      <3>1. g[p] = g[q]
        BY <2>2, <2>5 DEF Turn, fresh
      <3>2. \A j \in fresh : j <= p <=> j <= p - 1
        BY <1>1, <2>5
      <3>3. LoopDone(p, page, fresh, g[q])
        BY <2>4, <3>2 DEF LoopDone, Survivors
      <3> QED
        BY <2>1, <2>3, <3>1, <3>3
    <2>6. CASE p \in fresh
      <3>1. g[p] = IF g[q].kept[page[p].title] = page[p].price THEN g[q]
                   ELSE [kept |-> [g[q].kept EXCEPT ![page[p].title] = page[p].price],
                         out |-> g[q].out \cup {p}]
        BY <2>2, <2>6 DEF Turn, fresh
      <3>2. g[q] \in [kept : [Titles -> Seen], out : SUBSET (1 .. n)]
        BY <2>2 DEF V
      <3>3. LoopDone(p, page, fresh, g[p])
        BY <1>1, <2>4, <2>6, <3>1, <3>2, TurnOfLoop
      <3> QED
        BY <2>1, <2>3, <3>3
    <2> QED
      BY <2>5, <2>6
  <1>15. T \in SUBSET (0 .. n)
    OBVIOUS
  <1> HIDE DEF T
  <1>16. T = 0 .. n
    BY <1>13, <1>14, <1>15, UpTo
  <1>17. f[n] = g[n] /\ LoopDone(n, page, fresh, g[n])
    BY <1>16 DEF T
  <1>18. \A j \in Survivors(page, fresh) : j <= n
    BY <1>1 DEF Survivors
  <1> QED
    BY <1>11, <1>17, <1>18 DEF LoopDone, fresh

-----------------------------------------------------------------------------
(* A unit moves. *)

\* Only the unit of run r and source s moves, to u.
Moves(r, s, u) ==
    \A q \in Runs, o \in Sources : unit'[q][o] = IF q = r /\ o = s THEN u ELSE unit[q][o]

LEMMA GoesMoves ==
    ASSUME unit \in [Runs -> [Sources -> Unit]], NEW r \in Runs, NEW s \in Sources,
           NEW u \in Unit, Goes(r, s, u)
    PROVE  /\ unit' \in [Runs -> [Sources -> Unit]]
           /\ Moves(r, s, u)
  BY DEF Goes, Moves

LEMMA UnitShape ==
    ASSUME unit \in [Runs -> [Sources -> Unit]], NEW r \in Runs, NEW s \in Sources
    PROVE  /\ unit[r][s] \in Unit /\ unit[r][s].at \in Stage
           /\ unit[r][s].page \in Page /\ unit[r][s].keep \subseteq DOMAIN unit[r][s].page
  BY DEF Unit

LEMMA IdleIsUnit == Idle \in Unit /\ [Idle EXCEPT !.at = "queued"] \in Unit
  <1>1. << >> \in [{} -> Candidate]
    OBVIOUS
  <1>2. << >> \in Page
    BY <1>1 DEF Page
  <1> QED
    BY <1>2 DEF Idle, Unit, Stage

LEMMA AtIsUnit ==
    ASSUME NEW u \in Unit, NEW a \in Stage
    PROVE  /\ [u EXCEPT !.at = a] \in Unit /\ [u EXCEPT !.at = a].at = a
           /\ [u EXCEPT !.at = a].page = u.page /\ [u EXCEPT !.at = a].keep = u.keep
  BY DEF Unit

\* The units of a new run were idle and are idle or queued.
LEMMA StartMoves ==
    ASSUME TypeOK, StartRun
    PROVE  /\ made' \in 0 .. MaxRuns /\ made' = made + 1 /\ made' \in Runs
           /\ unit' \in [Runs -> [Sources -> Unit]]
           /\ \A q \in Runs, s \in Sources :
                 IF q = made + 1 THEN unit'[q][s].at \in {"none", "queued"}
                 ELSE unit'[q][s] = unit[q][s]
  <1>1. made' = made + 1 /\ made' \in 0 .. MaxRuns /\ made' \in Runs
    BY ConstantsOK DEF ConstantsOK, TypeOK, StartRun, Runs
  <1> DEFINE begun == [s \in Sources |->
                 IF s \in linked THEN [Idle EXCEPT !.at = "queued"] ELSE Idle]
  <1>2. begun \in [Sources -> Unit] /\ \A s \in Sources : begun[s].at \in {"none", "queued"}
    BY IdleIsUnit DEF Idle
  <1>3. unit' = [unit EXCEPT ![made + 1] = begun]
    BY DEF StartRun
  <1> HIDE DEF begun
  <1> QED
    BY <1>1, <1>2, <1>3 DEF TypeOK

\* The steps of a unit that neither hear the vendor nor touch the rows.
Quiet(r, s, u) ==
    /\ u \in Unit /\ Moves(r, s, u)
    /\ u.page = unit[r][s].page /\ u.keep = unit[r][s].keep
    /\ UNCHANGED <<made, rows, seen, seenAt, tracked, clean>>
    /\ \/ unit[r][s].at = "queued" /\ u.at = "failed"
       \/ unit[r][s].at = "deduped" /\ u.at = "jobbed"
       \/ unit[r][s].at = "stored" /\ u.at = "done"
       \/ unit[r][s].at \in {"fetched", "deduped", "jobbed", "stored"} /\ u.at = "lost"

LEMMA QuietSteps ==
    ASSUME TypeOK, NEW r \in Runs, NEW s \in Sources,
           FetchNothing(r, s) \/ InsertJob(r, s) \/ CountStored(r, s) \/ Lose(r, s)
    PROVE  \E u \in Unit : Quiet(r, s, u) /\ unit' \in [Runs -> [Sources -> Unit]]
  <1> USE DEF TypeOK
  <1>1. unit \in [Runs -> [Sources -> Unit]] /\ unit[r][s] \in Unit
    BY UnitShape
  <1>2. "failed" \in Stage /\ "jobbed" \in Stage /\ "done" \in Stage /\ "lost" \in Stage
    BY DEF Stage
  <1>3. CASE FetchNothing(r, s)
    <2> DEFINE u == [unit[r][s] EXCEPT !.at = "failed"]
    <2>1. u \in Unit /\ u.at = "failed" /\ u.page = unit[r][s].page /\ u.keep = unit[r][s].keep
      BY <1>1, <1>2, AtIsUnit
    <2>2. Goes(r, s, u) /\ unit[r][s].at = "queued"
          /\ UNCHANGED <<made, rows, seen, seenAt, tracked, clean>>
      BY <1>3 DEF FetchNothing, history
    <2> HIDE DEF u
    <2> QED
      BY <2>1, <2>2, <1>1, GoesMoves DEF Quiet
  <1>4. CASE InsertJob(r, s)
    <2> DEFINE u == [unit[r][s] EXCEPT !.at = "jobbed"]
    <2>1. u \in Unit /\ u.at = "jobbed" /\ u.page = unit[r][s].page /\ u.keep = unit[r][s].keep
      BY <1>1, <1>2, AtIsUnit
    <2>2. Goes(r, s, u) /\ unit[r][s].at = "deduped"
          /\ UNCHANGED <<made, rows, seen, seenAt, tracked, clean>>
      BY <1>4 DEF InsertJob, history
    <2> HIDE DEF u
    <2> QED
      BY <2>1, <2>2, <1>1, GoesMoves DEF Quiet
  <1>5. CASE CountStored(r, s)
    <2> DEFINE u == [unit[r][s] EXCEPT !.at = "done"]
    <2>1. u \in Unit /\ u.at = "done" /\ u.page = unit[r][s].page /\ u.keep = unit[r][s].keep
      BY <1>1, <1>2, AtIsUnit
    <2>2. Goes(r, s, u) /\ unit[r][s].at = "stored"
          /\ UNCHANGED <<made, rows, seen, seenAt, tracked, clean>>
      BY <1>5 DEF CountStored, history
    <2> HIDE DEF u
    <2> QED
      BY <2>1, <2>2, <1>1, GoesMoves DEF Quiet
  <1>6. CASE Lose(r, s)
    <2> DEFINE u == [unit[r][s] EXCEPT !.at = "lost"]
    <2>1. u \in Unit /\ u.at = "lost" /\ u.page = unit[r][s].page /\ u.keep = unit[r][s].keep
      BY <1>1, <1>2, AtIsUnit
    <2>2. Goes(r, s, u) /\ unit[r][s].at \in {"fetched", "deduped", "jobbed", "stored"}
          /\ UNCHANGED <<made, rows, seen, seenAt, tracked, clean>>
      BY <1>6 DEF Lose, history, shown
    <2> HIDE DEF u
    <2> QED
      BY <2>1, <2>2, <1>1, GoesMoves DEF Quiet
  <1> QED
    BY <1>3, <1>4, <1>5, <1>6

\* What Fetch does, with the accepted page named.
Hears(r, s, u) ==
    /\ u \in Unit /\ Moves(r, s, u)
    /\ unit[r][s].at = "queued" /\ u.at = "fetched" /\ u.keep = {}
    /\ seen' = [seen EXCEPT ![s] = Told(u.page, seen[s])]
    /\ tracked' = [tracked EXCEPT ![s] = tracked[s] \ TitlesOf(u.page)]
    /\ \A c \in clean' : c = <<r, s>> \/ (c \in clean /\ c \notin {<<q, s>> : q \in InFlight(s)})
    /\ <<r, s>> \in clean' =>
         \/ <<r, s>> \in clean
         \/ /\ Plain(u.page) /\ InFlight(s) = {}
            /\ \A q \in Runs : q > r => ~Answered(q, s)
    /\ \E raw \in Pages : u.page = Accepted(s, raw)
    /\ UNCHANGED <<made, rows, seenAt>>

LEMMA FetchHears ==
    ASSUME TypeOK, NEW r \in Runs, NEW s \in Sources, Fetch(r, s)
    PROVE  \E u \in Unit : Hears(r, s, u) /\ unit' \in [Runs -> [Sources -> Unit]]
                           /\ clean' \subseteq Runs \X Sources
  <1>1. PICK raw \in Pages :
          LET page == Accepted(s, raw)
              alone == InFlight(s) = {} /\ \A q \in Runs : q > r => ~Answered(q, s)
          IN /\ Goes(r, s, [at |-> "fetched", page |-> page, keep |-> {}])
             /\ seen' = [seen EXCEPT ![s] = Told(page, seen[s])]
             /\ tracked' = [tracked EXCEPT ![s] = tracked[s] \ TitlesOf(page)]
             /\ clean' = (clean \ {<<q, s>> : q \in InFlight(s)})
                           \cup (IF alone /\ Plain(page) THEN {<<r, s>>} ELSE {})
    BY DEF Fetch
  <1> DEFINE page == Accepted(s, raw)
             u == [at |-> "fetched", page |-> page, keep |-> {}]
  <1>2. page \in Page
    BY PagesArePages, AcceptedIsPage
  <1>3. u \in Unit /\ u.at = "fetched" /\ u.page = page /\ u.keep = {}
    BY <1>2 DEF Unit, Stage
  <1>4. unit[r][s].at = "queued" /\ UNCHANGED <<made, rows, seenAt>>
    BY DEF Fetch, shown
  <1>5. unit' \in [Runs -> [Sources -> Unit]] /\ Moves(r, s, u)
    BY <1>1, <1>3, GoesMoves DEF TypeOK
  <1>6. /\ \A c \in clean' : c = <<r, s>> \/ (c \in clean /\ c \notin {<<q, s>> : q \in InFlight(s)})
        /\ <<r, s>> \in clean' =>
             \/ <<r, s>> \in clean
             \/ /\ Plain(page) /\ InFlight(s) = {}
                /\ \A q \in Runs : q > r => ~Answered(q, s)
        /\ clean' \subseteq Runs \X Sources
    BY <1>1 DEF TypeOK
  <1> HIDE DEF u
  <1> QED
    BY <1>1, <1>3, <1>4, <1>5, <1>6 DEF Hears

\* What Dedupe does, with its unit named.
Filters(r, s, u) ==
    /\ u \in Unit /\ Moves(r, s, u)
    /\ unit[r][s].at = "fetched" /\ u.at = "deduped"
    /\ u.page = unit[r][s].page
    /\ u.keep = Survivors(u.page, Fresh(s, r, u.page))
    /\ UNCHANGED <<made, rows, seen, seenAt, tracked, clean>>

LEMMA DedupeFilters ==
    ASSUME TypeOK, NEW r \in Runs, NEW s \in Sources, Dedupe(r, s)
    PROVE  \E u \in Unit : Filters(r, s, u) /\ unit' \in [Runs -> [Sources -> Unit]]
  <1> DEFINE page == unit[r][s].page
             kept == Survivors(page, Fresh(s, r, page))
             u == [at |-> "deduped", page |-> page, keep |-> kept]
  <1>1. page \in Page
    BY UnitShape DEF TypeOK
  <1>2. kept \subseteq DOMAIN page /\ kept \subseteq Places
    BY <1>1, PageShape DEF Survivors, Fresh
  <1>3. u \in Unit /\ u.at = "deduped" /\ u.page = page /\ u.keep = kept
    BY <1>1, <1>2 DEF Unit, Stage
  <1>4. Goes(r, s, u) /\ unit[r][s].at = "fetched" /\ UNCHANGED <<made, rows, seen, seenAt, tracked, clean>>
    BY DEF Dedupe, shown, history
  <1>5. unit' \in [Runs -> [Sources -> Unit]] /\ Moves(r, s, u)
    BY <1>3, <1>4, GoesMoves DEF TypeOK
  <1> HIDE DEF u
  <1> QED
    BY <1>3, <1>4, <1>5 DEF Filters

\* What Store does, with its unit named.
Stores(r, s, u) ==
    /\ u \in Unit /\ Moves(r, s, u)
    /\ unit[r][s].at = "jobbed" /\ u.at \in {"done", "stored"}
    /\ u.page = unit[r][s].page /\ u.keep = unit[r][s].keep
    /\ rows' = rows \cup NewRows(r, s)
    /\ tracked' = [tracked EXCEPT ![s] =
                      IF <<r, s>> \in clean THEN tracked[s] \cup TitlesOf(unit[r][s].page)
                      ELSE tracked[s]]
    /\ seenAt' = [seenAt EXCEPT ![r][s] = seen[s]]
    /\ UNCHANGED <<made, seen, clean>>

LEMMA StoreStores ==
    ASSUME TypeOK, NEW r \in Runs, NEW s \in Sources, Store(r, s)
    PROVE  \E u \in Unit : Stores(r, s, u) /\ unit' \in [Runs -> [Sources -> Unit]]
  <1> DEFINE a == IF unit[r][s].keep = {} THEN "done" ELSE "stored"
             u == [unit[r][s] EXCEPT !.at = a]
  <1>1. a \in Stage /\ a \in {"done", "stored"}
    BY DEF Stage
  <1>2. unit[r][s] \in Unit
    BY UnitShape DEF TypeOK
  <1>3. Goes(r, s, u) /\ unit[r][s].at = "jobbed" /\ UNCHANGED <<made, seen, clean>>
    BY DEF Store
  <1> HIDE DEF a
  <1>4. u \in Unit /\ u.at = a /\ u.page = unit[r][s].page /\ u.keep = unit[r][s].keep
    BY <1>1, <1>2, AtIsUnit
  <1>5. unit' \in [Runs -> [Sources -> Unit]] /\ Moves(r, s, u)
    BY <1>3, <1>4, GoesMoves DEF TypeOK
  <1> HIDE DEF u
  <1> QED
    BY <1>1, <1>3, <1>4, <1>5 DEF Stores, Store

-----------------------------------------------------------------------------
(* Types. *)

LEMMA NewRowsType ==
    ASSUME TypeOK, NEW r \in Runs, NEW s \in Sources
    PROVE  NewRows(r, s) \subseteq Row
  <1>1. unit[r][s].page \in Page /\ unit[r][s].keep \subseteq DOMAIN unit[r][s].page
    BY UnitShape DEF TypeOK
  <1>2. \A i \in unit[r][s].keep :
          /\ i \in Places /\ unit[r][s].page[i].title \in Titles
          /\ unit[r][s].page[i].price \in Prices /\ unit[r][s].page[i].cat \in Cats
    BY <1>1, PageShape
  <1> QED
    BY <1>2 DEF NewRows, Row

LEMMA JobsKept ==
    ASSUME TypeOK, NEW r \in Runs, NEW s \in Sources,
           FetchNothing(r, s) \/ InsertJob(r, s) \/ CountStored(r, s)
    PROVE  job' \in [Runs -> [Sources -> Job]]
  <1> DEFINE page == unit[r][s].page
             n == Cardinality(DOMAIN page)
             k == Cardinality(unit[r][s].keep)
  <1>1. n \in Nat /\ k \in Nat
    <2>1. page \in Page /\ unit[r][s].keep \subseteq Places
      BY UnitShape, PageShape DEF TypeOK
    <2> QED
      BY <2>1, CountOfPage, CountOfPlaces
  <1>2. job \in [Runs -> [Sources -> Job]]
    BY DEF TypeOK
  <1> HIDE DEF n, k
  <1>3. CASE FetchNothing(r, s)
    <2> DEFINE j == [status |-> "failed", parsed |-> 0, stored |-> 0]
    <2>1. job' = [job EXCEPT ![r][s] = j]
      BY <1>3 DEF FetchNothing
    <2>2. j \in Job
      BY DEF Job
    <2> HIDE DEF j
    <2> QED
      BY <1>2, <2>1, <2>2
  <1>4. CASE InsertJob(r, s)
    <2> DEFINE j == [status |-> "success", parsed |-> n, stored |-> 0]
    <2>1. job' = [job EXCEPT ![r][s] = j]
      BY <1>4 DEF InsertJob, n
    <2>2. j \in Job
      BY <1>1 DEF Job
    <2> HIDE DEF j
    <2> QED
      BY <1>2, <2>1, <2>2
  <1>5. CASE CountStored(r, s)
    <2> DEFINE j == [job[r][s] EXCEPT !.stored = k]
    <2>1. job' = [job EXCEPT ![r][s] = j]
      BY <1>5 DEF CountStored, k
    <2>2. j \in Job
      BY <1>1, <1>2 DEF Job
    <2> HIDE DEF j
    <2> QED
      BY <1>2, <2>1, <2>2
  <1> QED
    BY <1>3, <1>4, <1>5

\* Every step keeps the types.
LEMMA TypeKept ==
    ASSUME TypeOK, [Next]_vars
    PROVE  TypeOK'
  <1> USE DEF shown, history
  <1>1. CASE StartRun
    BY <1>1, StartMoves DEF StartRun, TypeOK
  <1>2. ASSUME NEW r \in Runs, NEW s \in Sources, Fetch(r, s)
        PROVE  TypeOK'
    <2>1. PICK u \in Unit : Hears(r, s, u) /\ unit' \in [Runs -> [Sources -> Unit]]
                            /\ clean' \subseteq Runs \X Sources
      BY <1>2, FetchHears
    <2>2. u.page \in Page
      BY DEF Unit
    <2>3. Told(u.page, seen[s]) \in [Titles -> Seen]
      BY <2>2, ToldType DEF TypeOK
    <2>4. seen' \in [Sources -> [Titles -> Seen]]
      BY <2>1, <2>3 DEF Hears, TypeOK
    <2>5. tracked' \in [Sources -> SUBSET Titles]
      BY <2>1 DEF Hears, TypeOK
    <2>6. UNCHANGED <<made, shown, seenAt, edits, faults>>
      BY <1>2 DEF Fetch
    <2> QED
      BY <2>1, <2>4, <2>5, <2>6 DEF TypeOK
  <1>3. ASSUME NEW r \in Runs, NEW s \in Sources, FetchNothing(r, s)
        PROVE  TypeOK'
    <2>1. unit' \in [Runs -> [Sources -> Unit]]
      BY <1>3, QuietSteps
    <2>2. job' \in [Runs -> [Sources -> Job]]
      BY <1>3, JobsKept
    <2> QED
      BY <1>3, <2>1, <2>2 DEF FetchNothing, TypeOK
  <1>4. ASSUME NEW r \in Runs, NEW s \in Sources, Dedupe(r, s)
        PROVE  TypeOK'
    <2>1. unit' \in [Runs -> [Sources -> Unit]]
      BY <1>4, DedupeFilters
    <2> QED
      BY <1>4, <2>1 DEF Dedupe, TypeOK
  <1>5. ASSUME NEW r \in Runs, NEW s \in Sources, InsertJob(r, s)
        PROVE  TypeOK'
    <2>1. unit' \in [Runs -> [Sources -> Unit]]
      BY <1>5, QuietSteps
    <2>2. job' \in [Runs -> [Sources -> Job]]
      BY <1>5, JobsKept
    <2> QED
      BY <1>5, <2>1, <2>2 DEF InsertJob, TypeOK
  <1>6. ASSUME NEW r \in Runs, NEW s \in Sources, Store(r, s)
        PROVE  TypeOK'
    <2>1. PICK u \in Unit : Stores(r, s, u) /\ unit' \in [Runs -> [Sources -> Unit]]
      BY <1>6, StoreStores
    <2>2. rows' \subseteq Row
      BY <2>1, NewRowsType DEF Stores, TypeOK
    <2>3. TitlesOf(unit[r][s].page) \subseteq Titles
      BY UnitShape, PageShape DEF TitlesOf, TypeOK
    <2>4. tracked' \in [Sources -> SUBSET Titles]
      BY <2>1, <2>3 DEF Stores, TypeOK
    <2>5. seenAt' \in [Runs -> [Sources -> [Titles -> Seen]]]
      BY <1>6 DEF Store, TypeOK
    <2>6. UNCHANGED <<made, job, criteria, linked, seen, clean, edits, faults>>
      BY <1>6 DEF Store
    <2> QED
      BY <2>1, <2>2, <2>4, <2>5, <2>6 DEF TypeOK
  <1>7. ASSUME NEW r \in Runs, NEW s \in Sources, CountStored(r, s)
        PROVE  TypeOK'
    <2>1. unit' \in [Runs -> [Sources -> Unit]]
      BY <1>7, QuietSteps
    <2>2. job' \in [Runs -> [Sources -> Job]]
      BY <1>7, JobsKept
    <2> QED
      BY <1>7, <2>1, <2>2 DEF CountStored, TypeOK
  <1>8. ASSUME NEW r \in Runs, NEW s \in Sources, Lose(r, s)
        PROVE  TypeOK'
    <2>1. unit' \in [Runs -> [Sources -> Unit]]
      BY <1>8, QuietSteps
    <2> QED
      BY <1>8, <2>1 DEF Lose, TypeOK
  <1>9. CASE EditCriteria
    BY <1>9 DEF EditCriteria, TypeOK
  <1>10. ASSUME NEW s \in Sources, Relink(s)
         PROVE  TypeOK'
    BY <1>10 DEF Relink, TypeOK
  <1>11. CASE UNCHANGED vars
    BY <1>11 DEF vars, TypeOK
  <1> QED
    BY <1>1, <1>2, <1>3, <1>4, <1>5, <1>6, <1>7, <1>8, <1>9, <1>10, <1>11 DEF Next, UnitStep

LEMMA TypeInitially == Init => TypeOK
  <1> SUFFICES ASSUME Init PROVE TypeOK
    OBVIOUS
  <1>1. unit \in [Runs -> [Sources -> Unit]]
    BY IdleIsUnit DEF Init
  <1>2. job \in [Runs -> [Sources -> Job]]
    BY DEF Init, NoJob, Job
  <1>3. made \in 0 .. MaxRuns
    BY ConstantsOK DEF Init, ConstantsOK
  <1> QED
    BY <1>1, <1>2, <1>3 DEF Init, TypeOK, Seen

\* Every variable keeps its type: a unit keeps only places of its own page, a
\* stored row is one of a candidate, and the counts of a job are numbers.
THEOREM TypeCorrect == Spec => []TypeOK
  <1>1. Init => TypeOK
    BY TypeInitially
  <1>2. TypeOK /\ [Next]_vars => TypeOK'
    BY TypeKept
  <1> QED
    BY <1>1, <1>2, PTL DEF Spec

-----------------------------------------------------------------------------
(* What the newest rows say. *)

\* A unit that has not stored has no rows.
LEMMA NoRowsYet ==
    ASSUME TypeOK, RowsAreStored, NEW r \in Runs, NEW s \in Sources,
           unit[r][s].at \notin {"stored", "done", "lost"}
    PROVE  \A x \in rows : ~(x.run = r /\ x.src = s)
  BY DEF RowsAreStored

\* What is not kept of a page without repetitions is said by the newest rows.
LEMMA NotKeptIsSaid ==
    ASSUME TypeOK, RowsAreStored, NEW r \in Runs, NEW s \in Sources,
           unit[r][s].at = "fetched", NEW page \in Page, Plain(page),
           NEW i \in DOMAIN page, i \notin Survivors(page, Fresh(s, r, page))
    PROVE  Says(s, page[i].title, page[i].price)
  <1>1. \A x \in rows : ~(x.run = r /\ x.src = s)
    BY NoRowsYet
  <1>2. i \in Fresh(s, r, page) => ~Repeats(page, Fresh(s, r, page), i)
    <2> SUFFICES ASSUME NEW j \in Fresh(s, r, page), j < i, page[j].title = page[i].title
                 PROVE  FALSE
      BY DEF Repeats
    <2>1. j \in DOMAIN page
      BY DEF Fresh
    <2>2. j = i
      BY <2>1 DEF Plain
    <2>3. i \in Nat
      BY PageShape, ConstantsOK DEF Places, ConstantsOK
    <2> QED
      BY <2>2, <2>3
  <1>3. i \notin Fresh(s, r, page)
    BY <1>2 DEF Survivors
  <1>4. PICK x \in Snapshot(s, page[i].title, r) : x.price = page[i].price
    BY <1>3 DEF Fresh
  <1>5. x \in RowsOf(s, page[i].title)
    BY <1>4 DEF Snapshot
  <1>6. \A y \in RowsOf(s, page[i].title) : Before(y, x)
    BY <1>1, <1>4 DEF Snapshot, RowsOf
  <1> QED
    BY <1>4, <1>5, <1>6 DEF Says

\* After a clean unit stores, the newest row of each of its titles says its price.
LEMMA StoredIsSaid ==
    ASSUME TypeOK, RowsAreStored, CleanIsAlone, SkippedIsSaid,
           NEW r \in Runs, NEW s \in Sources, NEW u, Stores(r, s, u), <<r, s>> \in clean,
           NEW i \in DOMAIN unit[r][s].page, NEW t, t = unit[r][s].page[i].title,
           NEW p, p = unit[r][s].page[i].price
    PROVE  Says(s, t, p)'
  <1> DEFINE page == unit[r][s].page
             keep == unit[r][s].keep
  <1>1. page \in Page /\ keep \subseteq DOMAIN page
    BY UnitShape DEF TypeOK
  <1>2. Plain(page) /\ \A q \in Runs : q > r => ~Answered(q, s)
    BY DEF CleanIsAlone, InFlight, Stores
  <1>3. \A y \in rows : ~(y.run = r /\ y.src = s)
    BY NoRowsYet DEF Stores
  <1>4. rows' = rows \cup NewRows(r, s)
    BY DEF Stores
  <1>5. \A y \in NewRows(r, s) : y.src = s /\ y.run = r /\ y.id \in keep
                               /\ y.title = page[y.id].title /\ y.price = page[y.id].price
    BY DEF NewRows
  <1>6. \A y \in NewRows(r, s) : y.title = t => y.id = i
    BY <1>1, <1>2, <1>5 DEF Plain
  <1>7. \A y \in rows : y.src = s => y.run \in Runs /\ y.run < r
    <2> SUFFICES ASSUME NEW y \in rows, y.src = s
                 PROVE  y.run \in Runs /\ y.run < r
      OBVIOUS
    <2>1. y.run \in Runs
      BY DEF TypeOK, Row
    <2>2. Answered(y.run, s)
      BY DEF RowsAreStored, Answered
    <2>3. ~(y.run > r) /\ y.run # r
      BY <1>2, <1>3, <2>1, <2>2
    <2> QED
      BY <2>1, <2>3, ConstantsOK DEF Runs, ConstantsOK
  <1>8. i \in Nat
    BY <1>1, PageShape, ConstantsOK DEF Places, ConstantsOK
  <1>9. CASE i \in keep
    <2>1. PICK x : x \in NewRows(r, s) /\ x.id = i
      <3> DEFINE z == [src |-> s, run |-> r, id |-> i, title |-> page[i].title,
                       price |-> page[i].price, cat |-> page[i].cat]
      <3>1. z \in NewRows(r, s)
        BY <1>9 DEF NewRows
      <3>2. z.id = i
        OBVIOUS
      <3> QED
        BY <3>1, <3>2
    <2>2. x.src = s /\ x.run = r /\ x.title = t /\ x.price = p
      BY <1>5, <2>1
    <2>3. x \in RowsOf(s, t)'
      BY <1>4, <2>1, <2>2 DEF RowsOf
    <2>4. \A y \in RowsOf(s, t)' : Before(y, x)
      <3> SUFFICES ASSUME NEW y \in RowsOf(s, t)' PROVE Before(y, x)
        OBVIOUS
      <3>1. CASE y \in rows
        <4>1. y.run < r
          BY <3>1, <1>7 DEF RowsOf
        <4> QED
          BY <4>1, <2>2 DEF Before
      <3>2. CASE y \in NewRows(r, s)
        <4>1. y.title = t
          BY DEF RowsOf
        <4>2. y.id = i /\ y.run = r
          BY <1>5, <1>6, <3>2, <4>1
        <4> QED
          BY <4>2, <2>1, <2>2, <1>8 DEF Before
      <3> QED
        BY <1>4, <3>1, <3>2 DEF RowsOf
    <2> QED
      BY <2>2, <2>3, <2>4 DEF Says, Before
  <1>10. CASE i \notin keep
    <2>1. Says(s, t, p)
      BY <1>10 DEF SkippedIsSaid, Stores
    <2>2. \A y \in NewRows(r, s) : y.title # t
      BY <1>5, <1>6, <1>10
    <2>3. RowsOf(s, t)' = RowsOf(s, t)
      BY <1>4, <2>2 DEF RowsOf
    <2> QED
      BY <2>1, <2>3 DEF Says, Before
  <1> QED
    BY <1>9, <1>10

\* The rows of other titles, and of other sources, are left alone by a Store.
LEMMA OtherRowsStay ==
    ASSUME NEW r \in Runs, NEW s \in Sources, NEW u, Stores(r, s, u), TypeOK,
           NEW o \in Sources, NEW t, o # s \/ t \notin TitlesOf(unit[r][s].page), NEW p
    PROVE  Says(o, t, p)' <=> Says(o, t, p)
  <1>1. unit[r][s].keep \subseteq DOMAIN unit[r][s].page
    BY UnitShape DEF TypeOK
  <1>2. \A y \in NewRows(r, s) : y.src = s /\ y.title \in TitlesOf(unit[r][s].page)
    BY <1>1 DEF NewRows, TitlesOf
  <1>3. RowsOf(o, t)' = RowsOf(o, t)
    BY <1>2 DEF RowsOf, Stores
  <1> QED
    BY <1>3 DEF Says, Before

-----------------------------------------------------------------------------
(* The conjuncts of the invariant other than the types. *)

Safe ==
    /\ RowsAreStored
    /\ CleanIsAlone
    /\ InFlightUntracked
    /\ SkippedIsSaid
    /\ TracksVendor

\* A step that leaves rows and history alone, and moves no unit into flight.
Calm ==
    /\ UNCHANGED <<rows, seen, tracked, clean>>
    /\ \A q \in Runs, o \in Sources :
         /\ q > made' => unit'[q][o].at = "none"
         /\ unit[q][o].at \in {"stored", "done", "lost"} =>
               unit'[q][o].at \in {"stored", "done", "lost"}
         /\ Answered(q, o)' <=> Answered(q, o)
         /\ q \in InFlight(o)' =>
               /\ q \in InFlight(o)
               /\ unit'[q][o].page = unit[q][o].page
               /\ unit'[q][o].keep = unit[q][o].keep
         /\ unit'[q][o].at \in {"deduped", "jobbed"} => unit[q][o].at \in {"deduped", "jobbed"}

LEMMA CalmKeepsSafe ==
    ASSUME TypeOK, Safe, Calm
    PROVE  Safe'
  <1>1. RowsAreStored'
    BY DEF Safe, RowsAreStored, Calm, TypeOK, Row
  <1>2. CleanIsAlone'
    <2> SUFFICES ASSUME NEW r \in Runs, NEW s \in Sources, <<r, s>> \in clean'
                 PROVE  /\ Answered(r, s)'
                        /\ r \in InFlight(s)' =>
                             /\ InFlight(s)' = {r}
                             /\ \A q \in Runs : q > r => ~Answered(q, s)'
                             /\ Plain(unit[r][s].page)'
                             /\ \A i \in DOMAIN unit'[r][s].page :
                                  seen'[s][unit'[r][s].page[i].title] = unit'[r][s].page[i].price
      BY DEF CleanIsAlone
    <2>1. <<r, s>> \in clean /\ Answered(r, s)'
      BY DEF Safe, CleanIsAlone, Calm
    <2> SUFFICES ASSUME r \in InFlight(s)'
                 PROVE  /\ InFlight(s)' = {r}
                        /\ \A q \in Runs : q > r => ~Answered(q, s)'
                        /\ Plain(unit[r][s].page)'
                        /\ \A i \in DOMAIN unit'[r][s].page :
                             seen'[s][unit'[r][s].page[i].title] = unit'[r][s].page[i].price
      BY <2>1
    <2>2. r \in InFlight(s) /\ unit'[r][s].page = unit[r][s].page
      BY DEF Calm
    <2>3. InFlight(s) = {r} /\ (\A q \in Runs : q > r => ~Answered(q, s))
          /\ Plain(unit[r][s].page)
          /\ \A i \in DOMAIN unit[r][s].page :
               seen[s][unit[r][s].page[i].title] = unit[r][s].page[i].price
      BY <2>1, <2>2 DEF Safe, CleanIsAlone
    <2>4. InFlight(s)' \subseteq InFlight(s)
      BY DEF Calm, InFlight
    <2>5. InFlight(s)' = {r}
      BY <2>3, <2>4
    <2>6. \A q \in Runs : q > r => ~Answered(q, s)'
      BY <2>3 DEF Calm
    <2>7. Plain(unit[r][s].page)'
      BY <2>2, <2>3 DEF Plain
    <2>8. seen' = seen
      BY DEF Calm
    <2> QED
      BY <2>2, <2>3, <2>5, <2>6, <2>7, <2>8
  <1>3. InFlightUntracked'
    BY DEF Safe, InFlightUntracked, Calm, TitlesOf, InFlight
  <1>4. SkippedIsSaid'
    <2> SUFFICES ASSUME NEW r \in Runs, NEW s \in Sources, <<r, s>> \in clean',
                        unit'[r][s].at \in {"deduped", "jobbed"},
                        NEW i \in DOMAIN unit'[r][s].page \ unit'[r][s].keep
                 PROVE  Says(s, unit[r][s].page[i].title, unit[r][s].page[i].price)'
      BY DEF SkippedIsSaid
    <2>1. r \in InFlight(s)'
      BY DEF InFlight
    <2>2. /\ unit'[r][s].page = unit[r][s].page /\ unit'[r][s].keep = unit[r][s].keep
          /\ unit[r][s].at \in {"deduped", "jobbed"} /\ <<r, s>> \in clean
      BY <2>1 DEF Calm
    <2>3. Says(s, unit[r][s].page[i].title, unit[r][s].page[i].price)
      BY <2>2 DEF Safe, SkippedIsSaid
    <2> QED
      BY <2>2, <2>3 DEF Says, RowsOf, Before, Calm
  <1>5. TracksVendor'
    BY DEF Safe, TracksVendor, Calm, Says, RowsOf, Before
  <1> QED
    BY <1>1, <1>2, <1>3, <1>4, <1>5 DEF Safe

LEMMA QuietIsCalm ==
    ASSUME TypeOK, RowsAreStored, NEW r \in Runs, NEW s \in Sources, NEW u \in Unit,
           Quiet(r, s, u)
    PROVE  Calm
  BY DEF Calm, Quiet, Moves, RowsAreStored, Answered, InFlight

LEMMA StartIsCalm ==
    ASSUME TypeOK, RowsAreStored, StartRun
    PROVE  Calm
  <1>1. /\ made' = made + 1
        /\ \A q \in Runs, s \in Sources :
             IF q = made + 1 THEN unit'[q][s].at \in {"none", "queued"}
             ELSE unit'[q][s] = unit[q][s]
    BY StartMoves
  <1>2. \A s \in Sources, q \in Runs : q > made => unit[q][s].at = "none"
    BY DEF RowsAreStored
  <1>3. UNCHANGED <<rows, seen, tracked, clean>>
    BY DEF StartRun, shown, history
  <1>4. made \in Nat /\ Runs \subseteq Nat
    BY ConstantsOK DEF TypeOK, Runs, ConstantsOK
  <1>5. \A q \in Runs : /\ q > made' => q > made /\ q # made + 1
                        /\ q = made + 1 => q > made
    BY <1>1, <1>4
  <1> QED
    BY <1>1, <1>2, <1>3, <1>5 DEF Calm, Answered, InFlight

LEMMA HearsKeepsSafe ==
    ASSUME TypeOK, Safe, NEW r \in Runs, NEW s \in Sources, NEW u \in Unit, Hears(r, s, u)
    PROVE  Safe'
  <1> USE DEF Safe
  <1>1. u.page \in Page
    BY DEF Unit
  <1>2. \A q \in Runs, o \in Sources :
          unit'[q][o] = IF q = r /\ o = s THEN u ELSE unit[q][o]
    BY DEF Hears, Moves
  <1>3. \A o \in Sources : o # s => InFlight(o)' = InFlight(o)
    BY <1>2 DEF InFlight
  <1>4. InFlight(s)' = InFlight(s) \cup {r} /\ r \notin InFlight(s)
    BY <1>2 DEF InFlight, Hears
  <1>5. \A o \in Sources, t \in Titles :
          o # s \/ t \notin TitlesOf(u.page) => seen'[o][t] = seen[o][t]
    BY <1>1, UntoldIsKept DEF Hears, TypeOK
  <1>6. ~Answered(r, s) /\ rows' = rows /\ made' = made
    BY DEF Answered, Hears
  <1>7. <<r, s>> \notin clean
    BY <1>6 DEF CleanIsAlone
  <1>8. RowsAreStored'
    <2>0. /\ \A q \in Runs, o \in Sources : q > made => unit[q][o].at = "none"
          /\ \A x \in rows : /\ x.run \in Runs /\ x.src \in Sources
                             /\ unit[x.run][x.src].at \in {"stored", "done", "lost"}
      BY DEF RowsAreStored, TypeOK, Row
    <2>1. \A q \in Runs, o \in Sources : q > made' => unit'[q][o].at = "none"
      BY <2>0, <1>2, <1>6 DEF Hears
    <2>2. \A x \in rows' : unit'[x.run][x.src].at \in {"stored", "done", "lost"}
      BY <2>0, <1>2, <1>6 DEF Hears
    <2> QED
      BY <2>1, <2>2 DEF RowsAreStored
  <1>9. CleanIsAlone'
    <2> SUFFICES ASSUME NEW q \in Runs, NEW o \in Sources, <<q, o>> \in clean'
                 PROVE  /\ Answered(q, o)'
                        /\ q \in InFlight(o)' =>
                             /\ InFlight(o)' = {q}
                             /\ \A k \in Runs : k > q => ~Answered(k, o)'
                             /\ Plain(unit[q][o].page)'
                             /\ \A i \in DOMAIN unit'[q][o].page :
                                  seen'[o][unit'[q][o].page[i].title] = unit'[q][o].page[i].price
      BY DEF CleanIsAlone
    <2>1. CASE q = r /\ o = s
      <3>1. Plain(u.page) /\ InFlight(s) = {} /\ \A k \in Runs : k > r => ~Answered(k, s)
        BY <1>7, <2>1 DEF Hears
      <3>2. unit'[q][o] = u /\ u.at = "fetched"
        BY <1>2, <2>1 DEF Hears
      <3>3. InFlight(o)' = {q}
        BY <1>4, <2>1, <3>1
      <3>4. \A k \in Runs : k > q => ~Answered(k, o)'
        <4> SUFFICES ASSUME NEW k \in Runs, k > r PROVE ~Answered(k, s)'
          BY <2>1
        <4>1. k # r
          BY ConstantsOK DEF Runs, ConstantsOK
        <4> QED
          BY <3>1, <4>1, <1>2 DEF Answered
      <3>5. \A i \in DOMAIN u.page : seen'[s][u.page[i].title] = u.page[i].price
        <4>1. seen'[s] = Told(u.page, seen[s])
          BY DEF Hears, TypeOK
        <4> QED
          BY <1>1, <3>1, <4>1, PlainIsTold
      <3>6. Answered(q, o)'
        BY <3>2 DEF Answered
      <3>7. Plain(unit[q][o].page)'
        BY <3>1, <3>2 DEF Plain
      <3> QED
        BY <2>1, <3>2, <3>3, <3>4, <3>5, <3>6, <3>7
    <2>2. CASE q # r \/ o # s
      <3>1. <<q, o>> \in clean /\ (o = s => q \notin InFlight(s))
        BY <2>2 DEF Hears
      <3>2. unit'[q][o] = unit[q][o]
        BY <1>2, <2>2
      <3>3. Answered(q, o)'
        BY <3>1, <3>2 DEF CleanIsAlone, Answered
      <3> SUFFICES ASSUME q \in InFlight(o)'
                   PROVE  /\ InFlight(o)' = {q}
                          /\ \A k \in Runs : k > q => ~Answered(k, o)'
                          /\ Plain(unit[q][o].page)'
                          /\ \A i \in DOMAIN unit'[q][o].page :
                               seen'[o][unit'[q][o].page[i].title] = unit'[q][o].page[i].price
        BY <3>3
      <3>4. o # s /\ q \in InFlight(o)
        BY <1>3, <1>4, <2>2, <3>1
      <3>5. /\ InFlight(o) = {q} /\ Plain(unit[q][o].page)
            /\ \A k \in Runs : k > q => ~Answered(k, o)
            /\ \A i \in DOMAIN unit[q][o].page :
                 seen[o][unit[q][o].page[i].title] = unit[q][o].page[i].price
        BY <3>1, <3>4 DEF CleanIsAlone
      <3>6. \A k \in Runs : k > q => ~Answered(k, o)'
        BY <1>2, <3>4, <3>5 DEF Answered
      <3>7. Plain(unit[q][o].page)'
        BY <3>2, <3>5 DEF Plain
      <3>8. seen'[o] = seen[o]
        BY <3>4 DEF Hears, TypeOK
      <3> QED
        BY <1>3, <3>2, <3>4, <3>5, <3>6, <3>7, <3>8
    <2> QED
      BY <2>1, <2>2
  <1>10. InFlightUntracked'
    <2>1. \A o \in Sources : tracked'[o] \subseteq tracked[o]
      BY DEF Hears, TypeOK
    <2>2. tracked'[s] \cap TitlesOf(u.page) = {}
      BY DEF Hears, TypeOK
    <2> SUFFICES ASSUME NEW o \in Sources, NEW q \in InFlight(o)'
                 PROVE  TitlesOf(unit'[q][o].page) \cap tracked'[o] = {}
      BY DEF InFlightUntracked, TitlesOf
    <2>3. CASE q = r /\ o = s
      BY <1>2, <2>2, <2>3
    <2>4. CASE q # r \/ o # s
      <3>1. q \in InFlight(o) /\ q \in Runs
        BY <1>3, <1>4, <2>4 DEF InFlight
      <3>2. unit'[q][o] = unit[q][o]
        BY <1>2, <2>4, <3>1
      <3> QED
        BY <2>1, <3>1, <3>2 DEF InFlightUntracked
    <2> QED
      BY <2>3, <2>4
  <1>11. SkippedIsSaid'
    <2> SUFFICES ASSUME NEW q \in Runs, NEW o \in Sources, <<q, o>> \in clean',
                        unit'[q][o].at \in {"deduped", "jobbed"},
                        NEW i \in DOMAIN unit'[q][o].page \ unit'[q][o].keep
                 PROVE  Says(o, unit[q][o].page[i].title, unit[q][o].page[i].price)'
      BY DEF SkippedIsSaid
    <2>1. q # r \/ o # s
      BY <1>2 DEF Hears
    <2>2. unit'[q][o] = unit[q][o] /\ <<q, o>> \in clean
      BY <1>2, <2>1 DEF Hears
    <2>3. Says(o, unit[q][o].page[i].title, unit[q][o].page[i].price)
      BY <2>2 DEF SkippedIsSaid
    <2> QED
      BY <1>6, <2>2, <2>3 DEF Says, RowsOf, Before
  <1>12. TracksVendor'
    <2> SUFFICES ASSUME NEW o \in Sources, NEW t \in tracked'[o]
                 PROVE  Says(o, t, seen[o][t])'
      BY DEF TracksVendor
    <2>1. t \in tracked[o] /\ t \in Titles /\ (o = s => t \notin TitlesOf(u.page))
      BY DEF Hears, TypeOK
    <2>2. Says(o, t, seen[o][t]) /\ seen'[o][t] = seen[o][t]
      BY <1>5, <2>1 DEF TracksVendor
    <2> QED
      BY <1>6, <2>2 DEF Says, RowsOf, Before
  <1> QED
    BY <1>8, <1>9, <1>10, <1>11, <1>12

\* A unit that has deduplicated stays in flight, with the same page.
LEMMA FiltersKeepsSafe ==
    ASSUME TypeOK, Safe, NEW r \in Runs, NEW s \in Sources, NEW u \in Unit, Filters(r, s, u)
    PROVE  Safe'
  <1> USE DEF Safe
  <1>1. \A q \in Runs, o \in Sources :
          unit'[q][o] = IF q = r /\ o = s THEN u ELSE unit[q][o]
    BY DEF Filters, Moves
  <1>2. /\ UNCHANGED <<made, rows, seen, tracked, clean>>
        /\ unit[r][s].at = "fetched" /\ u.at = "deduped" /\ u.page = unit[r][s].page
        /\ u.keep = Survivors(u.page, Fresh(s, r, u.page))
    BY DEF Filters
  <1>3. \A o \in Sources : InFlight(o)' = InFlight(o)
    BY <1>1, <1>2 DEF InFlight
  <1>4. \A q \in Runs, o \in Sources :
          /\ Answered(q, o)' <=> Answered(q, o)
          /\ unit'[q][o].page = unit[q][o].page
    BY <1>1, <1>2 DEF Answered
  <1>5. RowsAreStored'
    <2>0. /\ \A q \in Runs, o \in Sources : q > made => unit[q][o].at = "none"
          /\ \A x \in rows : /\ x.run \in Runs /\ x.src \in Sources
                             /\ unit[x.run][x.src].at \in {"stored", "done", "lost"}
      BY DEF RowsAreStored, TypeOK, Row
    <2>1. \A q \in Runs, o \in Sources : q > made' => unit'[q][o].at = "none"
      BY <2>0, <1>1, <1>2
    <2>2. \A x \in rows' : unit'[x.run][x.src].at \in {"stored", "done", "lost"}
      BY <2>0, <1>1, <1>2
    <2> QED
      BY <2>1, <2>2 DEF RowsAreStored
  <1>6. CleanIsAlone'
    <2> SUFFICES ASSUME NEW q \in Runs, NEW o \in Sources, <<q, o>> \in clean'
                 PROVE  /\ Answered(q, o)'
                        /\ q \in InFlight(o)' =>
                             /\ InFlight(o)' = {q}
                             /\ \A k \in Runs : k > q => ~Answered(k, o)'
                             /\ Plain(unit[q][o].page)'
                             /\ \A i \in DOMAIN unit'[q][o].page :
                                  seen'[o][unit'[q][o].page[i].title] = unit'[q][o].page[i].price
      BY DEF CleanIsAlone
    <2>1. /\ Answered(q, o)
          /\ q \in InFlight(o) =>
               /\ InFlight(o) = {q} /\ Plain(unit[q][o].page)
               /\ \A k \in Runs : k > q => ~Answered(k, o)
               /\ \A i \in DOMAIN unit[q][o].page :
                    seen[o][unit[q][o].page[i].title] = unit[q][o].page[i].price
      BY <1>2 DEF CleanIsAlone
    <2>2. Plain(unit[q][o].page)' <=> Plain(unit[q][o].page)
      BY <1>4 DEF Plain
    <2> QED
      BY <1>2, <1>3, <1>4, <2>1, <2>2
  <1>7. InFlightUntracked'
    BY <1>2, <1>3, <1>4 DEF InFlightUntracked, InFlight, TitlesOf
  <1>8. SkippedIsSaid'
    <2> SUFFICES ASSUME NEW q \in Runs, NEW o \in Sources, <<q, o>> \in clean',
                        unit'[q][o].at \in {"deduped", "jobbed"},
                        NEW i \in DOMAIN unit'[q][o].page \ unit'[q][o].keep
                 PROVE  Says(o, unit[q][o].page[i].title, unit[q][o].page[i].price)'
      BY DEF SkippedIsSaid
    <2>1. Says(o, unit[q][o].page[i].title, unit[q][o].page[i].price)
      <3>1. CASE q = r /\ o = s
        <4>1. r \in InFlight(s)
          BY <1>2 DEF InFlight
        <4>2. Plain(u.page) /\ u.page \in Page
          BY <1>2, <3>1, <4>1, UnitShape DEF CleanIsAlone, TypeOK
        <4>3. i \in DOMAIN u.page /\ i \notin Survivors(u.page, Fresh(s, r, u.page))
          BY <1>1, <1>2, <3>1
        <4> QED
          BY <1>2, <3>1, <4>2, <4>3, NotKeptIsSaid
      <3>2. CASE q # r \/ o # s
        BY <1>1, <1>2, <3>2 DEF SkippedIsSaid
      <3> QED
        BY <3>1, <3>2
    <2> QED
      BY <1>2, <1>4, <2>1 DEF Says, RowsOf, Before
  <1>9. TracksVendor'
    BY <1>2 DEF TracksVendor, Says, RowsOf, Before
  <1> QED
    BY <1>5, <1>6, <1>7, <1>8, <1>9

LEMMA StoresKeepsSafe ==
    ASSUME TypeOK, Safe, NEW r \in Runs, NEW s \in Sources, NEW u \in Unit, Stores(r, s, u)
    PROVE  Safe'
  <1> USE DEF Safe
  <1>1. \A q \in Runs, o \in Sources :
          unit'[q][o] = IF q = r /\ o = s THEN u ELSE unit[q][o]
    BY DEF Stores, Moves
  <1>2. /\ UNCHANGED <<made, seen, clean>>
        /\ unit[r][s].at = "jobbed" /\ u.at \in {"done", "stored"} /\ u.page = unit[r][s].page
        /\ rows' = rows \cup NewRows(r, s)
    BY DEF Stores
  <1>3. /\ \A o \in Sources : o # s => InFlight(o)' = InFlight(o)
        /\ InFlight(s)' = InFlight(s) \ {r} /\ r \in InFlight(s)
    BY <1>1, <1>2 DEF InFlight
  <1>4. \A q \in Runs, o \in Sources : Answered(q, o)' <=> Answered(q, o)
    BY <1>1, <1>2 DEF Answered
  \* No clean unit of s is left in flight.
  <1>5. \A q \in Runs : <<q, s>> \in clean => q \notin InFlight(s)'
    BY <1>3 DEF CleanIsAlone
  <1>6. RowsAreStored'
    <2>0. /\ \A q \in Runs, o \in Sources : q > made => unit[q][o].at = "none"
          /\ \A x \in rows : /\ x.run \in Runs /\ x.src \in Sources
                             /\ unit[x.run][x.src].at \in {"stored", "done", "lost"}
      BY DEF RowsAreStored, TypeOK, Row
    <2>1. \A q \in Runs, o \in Sources : q > made' => unit'[q][o].at = "none"
      BY <2>0, <1>1, <1>2
    <2>2. \A x \in rows' : unit'[x.run][x.src].at \in {"stored", "done", "lost"}
      <3>1. \A x \in NewRows(r, s) : x.run = r /\ x.src = s
        BY DEF NewRows
      <3>2. unit'[r][s].at \in {"stored", "done", "lost"}
        BY <1>1, <1>2
      <3> QED
        BY <2>0, <3>1, <3>2, <1>1, <1>2
    <2> QED
      BY <2>1, <2>2 DEF RowsAreStored
  <1>7. CleanIsAlone'
    <2> SUFFICES ASSUME NEW q \in Runs, NEW o \in Sources, <<q, o>> \in clean'
                 PROVE  /\ Answered(q, o)'
                        /\ q \in InFlight(o)' =>
                             /\ InFlight(o)' = {q}
                             /\ \A k \in Runs : k > q => ~Answered(k, o)'
                             /\ Plain(unit[q][o].page)'
                             /\ \A i \in DOMAIN unit'[q][o].page :
                                  seen'[o][unit'[q][o].page[i].title] = unit'[q][o].page[i].price
      BY DEF CleanIsAlone
    <2>1. /\ Answered(q, o)
          /\ q \in InFlight(o) =>
               /\ InFlight(o) = {q} /\ Plain(unit[q][o].page)
               /\ \A k \in Runs : k > q => ~Answered(k, o)
               /\ \A i \in DOMAIN unit[q][o].page :
                    seen[o][unit[q][o].page[i].title] = unit[q][o].page[i].price
      BY <1>2 DEF CleanIsAlone
    <2>2. CASE o = s
      BY <1>2, <1>4, <1>5, <2>1, <2>2
    <2>3. CASE o # s
      <3>1. unit'[q][o] = unit[q][o]
        BY <1>1, <2>3
      <3>2. Plain(unit[q][o].page)' <=> Plain(unit[q][o].page)
        BY <3>1 DEF Plain
      <3> QED
        BY <1>2, <1>3, <1>4, <2>1, <2>3, <3>1, <3>2
    <2> QED
      BY <2>2, <2>3
  <1>8. InFlightUntracked'
    <2> SUFFICES ASSUME NEW o \in Sources, NEW q \in InFlight(o)'
                 PROVE  TitlesOf(unit'[q][o].page) \cap tracked'[o] = {}
      BY DEF InFlightUntracked, TitlesOf
    <2>1. q \in InFlight(o) /\ q \in Runs /\ (q # r \/ o # s)
      BY <1>3 DEF InFlight
    <2>2. unit'[q][o] = unit[q][o]
      BY <1>1, <2>1
    <2>3. tracked'[o] = tracked[o]
      <3>1. CASE o # s
        BY <3>1 DEF Stores, TypeOK
      <3>2. CASE o = s
        <4>1. InFlight(s) # {r}
          BY <2>1, <3>2
        <4>2. <<r, s>> \notin clean
          BY <1>3, <4>1 DEF CleanIsAlone
        <4> QED
          BY <3>2, <4>2 DEF Stores, TypeOK
      <3> QED
        BY <3>1, <3>2
    <2> QED
      BY <2>1, <2>2, <2>3 DEF InFlightUntracked
  <1>9. SkippedIsSaid'
    <2> SUFFICES ASSUME NEW q \in Runs, NEW o \in Sources, <<q, o>> \in clean',
                        unit'[q][o].at \in {"deduped", "jobbed"},
                        NEW i \in DOMAIN unit'[q][o].page \ unit'[q][o].keep,
                        NEW t, t = unit'[q][o].page[i].title,
                        NEW p, p = unit'[q][o].page[i].price
                 PROVE  Says(o, t, p)'
      BY DEF SkippedIsSaid
    <2>1. o # s
      BY <1>2, <1>5 DEF InFlight
    <2>2. unit'[q][o] = unit[q][o]
      BY <1>1, <2>1
    <2>3. Says(o, t, p)
      BY <1>2, <2>2 DEF SkippedIsSaid
    <2> QED
      BY <2>1, <2>3, OtherRowsStay
  <1>10. TracksVendor'
    <2> SUFFICES ASSUME NEW o \in Sources, NEW t \in tracked'[o], NEW p, p = seen'[o][t]
                 PROVE  Says(o, t, p)'
      BY DEF TracksVendor
    <2>1. p = seen[o][t]
      BY <1>2
    <2>2. CASE o = s /\ t \in TitlesOf(unit[r][s].page)
      <3>1. t \notin tracked[s]
        BY <1>3, <2>2 DEF InFlightUntracked
      <3>2. <<r, s>> \in clean
        BY <2>2, <3>1 DEF Stores, TypeOK
      <3>3. PICK i \in DOMAIN unit[r][s].page : t = unit[r][s].page[i].title
        BY <2>2 DEF TitlesOf
      <3>4. p = unit[r][s].page[i].price
        BY <1>3, <2>1, <2>2, <3>2, <3>3 DEF CleanIsAlone
      <3> QED
        BY <2>2, <3>2, <3>3, <3>4, StoredIsSaid
    <2>3. CASE ~(o = s /\ t \in TitlesOf(unit[r][s].page))
      <3>1. t \in tracked[o]
        BY <2>3 DEF Stores, TypeOK
      <3>2. Says(o, t, p)
        BY <2>1, <3>1 DEF TracksVendor
      <3> QED
        BY <2>3, <3>2, OtherRowsStay
    <2> QED
      BY <2>2, <2>3
  <1> QED
    BY <1>6, <1>7, <1>8, <1>9, <1>10

-----------------------------------------------------------------------------
(* The theorems. *)

LEMMA SafeKept ==
    ASSUME TypeOK, Safe, [Next]_vars
    PROVE  Safe'
  <1>1. CASE StartRun
    BY <1>1, StartIsCalm, CalmKeepsSafe DEF Safe
  <1>2. ASSUME NEW r \in Runs, NEW s \in Sources, Fetch(r, s)
        PROVE  Safe'
    BY <1>2, FetchHears, HearsKeepsSafe
  <1>3. ASSUME NEW r \in Runs, NEW s \in Sources,
               FetchNothing(r, s) \/ InsertJob(r, s) \/ CountStored(r, s) \/ Lose(r, s)
        PROVE  Safe'
    <2>1. PICK u \in Unit : Quiet(r, s, u)
      BY <1>3, QuietSteps
    <2> QED
      BY <2>1, QuietIsCalm, CalmKeepsSafe DEF Safe
  <1>4. ASSUME NEW r \in Runs, NEW s \in Sources, Dedupe(r, s)
        PROVE  Safe'
    BY <1>4, DedupeFilters, FiltersKeepsSafe
  <1>5. ASSUME NEW r \in Runs, NEW s \in Sources, Store(r, s)
        PROVE  Safe'
    BY <1>5, StoreStores, StoresKeepsSafe
  <1>6. CASE EditCriteria \/ (\E s \in Sources : Relink(s)) \/ UNCHANGED vars
    <2>1. UNCHANGED <<made, unit, rows, seen, tracked, clean>>
      BY <1>6 DEF EditCriteria, Relink, vars, history
    <2>2. Calm
      BY <2>1 DEF Calm, Answered, InFlight, Safe, RowsAreStored
    <2> QED
      BY <2>2, CalmKeepsSafe
  <1> QED
    BY <1>1, <1>2, <1>3, <1>4, <1>5, <1>6 DEF Next, UnitStep

LEMMA SafeInitially == Init => Safe
  <1> SUFFICES ASSUME Init PROVE Safe
    OBVIOUS
  <1>1. RowsAreStored /\ CleanIsAlone /\ InFlightUntracked /\ SkippedIsSaid
    BY DEF Init, RowsAreStored, CleanIsAlone, InFlightUntracked, SkippedIsSaid, InFlight, Idle
  <1>2. TracksVendor
    BY DEF Init, TracksVendor
  <1> QED
    BY <1>1, <1>2 DEF Safe

\* The inductive invariant holds in every reachable state.
THEOREM InvariantHolds == Spec => []IInv
  <1>1. Init => IInv
    BY TypeInitially, SafeInitially DEF IInv, Safe
  <1>2. IInv /\ [Next]_vars => IInv'
    BY TypeKept, SafeKept DEF IInv, Safe
  <1> QED
    BY <1>1, <1>2, PTL DEF Spec

\* Where a vendor was heard undisturbed, the newest stored rows say what it said,
\* although only changes are stored, and whatever ran, failed or died before.
THEOREM VendorIsTracked == Spec => []TracksVendor
  <1>1. IInv => TracksVendor
    BY DEF IInv
  <1> QED
    BY <1>1, InvariantHolds, PTL

-----------------------------------------------------------------------------
(* The deduplication of a unit is the loop, over the newest row of each title. *)

\* The rows of a source are told apart by run and place.
RowsIdentified ==
    \A x, y \in rows : x.src = y.src /\ x.run = y.run /\ x.id = y.id => x = y

LEMMA RowsIdentifiedAlways == Spec => []RowsIdentified
  <1>1. Init => RowsIdentified
    BY DEF Init, RowsIdentified
  <1>2. IInv /\ RowsIdentified /\ [Next]_vars => RowsIdentified'
    <2> SUFFICES ASSUME TypeOK, RowsAreStored, RowsIdentified, [Next]_vars
                 PROVE  RowsIdentified'
      BY DEF IInv
    <2>1. CASE rows' = rows
      BY <2>1 DEF RowsIdentified
    <2>2. ASSUME NEW r \in Runs, NEW s \in Sources, NEW u \in Unit, Stores(r, s, u)
          PROVE  RowsIdentified'
      <3>1. rows' = rows \cup NewRows(r, s)
        BY <2>2 DEF Stores
      <3>2. \A x \in rows : ~(x.run = r /\ x.src = s)
        BY <2>2, NoRowsYet DEF Stores
      <3>3. \A x \in NewRows(r, s) :
              /\ x.run = r /\ x.src = s
              /\ x = [src |-> s, run |-> r, id |-> x.id, title |-> unit[r][s].page[x.id].title,
                      price |-> unit[r][s].page[x.id].price, cat |-> unit[r][s].page[x.id].cat]
        BY DEF NewRows
      <3>4. \A x, y \in NewRows(r, s) : x.id = y.id => x = y
        BY <3>3
      <3> QED
        BY <3>1, <3>2, <3>3, <3>4 DEF RowsIdentified
    <2>3. rows' = rows \/ \E r \in Runs, s \in Sources, u \in Unit : Stores(r, s, u)
      <3>1. ASSUME NEW r \in Runs, NEW s \in Sources, UnitStep(r, s)
            PROVE  rows' = rows \/ \E u \in Unit : Stores(r, s, u)
        BY <3>1, StoreStores
           DEF UnitStep, Fetch, FetchNothing, Dedupe, InsertJob, CountStored, Lose, shown
      <3> QED
        BY <3>1 DEF Next, StartRun, EditCriteria, Relink, vars, shown
    <2> QED
      BY <2>1, <2>2, <2>3
  <1> QED
    BY <1>1, <1>2, InvariantHolds, PTL DEF Spec

\* What _build_unit_snapshot_map returns.
SnapshotMap(s, r) ==
    [t \in Titles |->
       IF Snapshot(s, t, r) = {} THEN None ELSE (CHOOSE x \in Snapshot(s, t, r) : TRUE).price]

LEMMA SnapshotIsOne ==
    ASSUME TypeOK, RowsIdentified, NEW s \in Sources, NEW t, NEW r,
           NEW x \in Snapshot(s, t, r), NEW y \in Snapshot(s, t, r)
    PROVE  x = y
  <1>1. /\ x \in rows /\ y \in rows /\ x.src = s /\ y.src = s
        /\ x.run \in Nat /\ y.run \in Nat /\ x.id \in Nat /\ y.id \in Nat
    BY ConstantsOK DEF Snapshot, RowsOf, TypeOK, Row, Runs, Places, ConstantsOK
  <1>2. Before(x, y) /\ Before(y, x)
    BY DEF Snapshot
  <1>3. x.run = y.run /\ x.id = y.id
    BY <1>1, <1>2 DEF Before
  <1> QED
    BY <1>1, <1>3 DEF RowsIdentified

DedupeIsLoop ==
    \A r \in Runs, s \in Sources :
        LET page == unit[r][s].page
        IN Survivors(page, Fresh(s, r, page)) = LoopSurvivors(MaxLen, page, SnapshotMap(s, r))

\* What Dedupe keeps of a unit's page is what the loop of _dedupe_unit_candidates
\* keeps of it, run on the map of the newest rows other runs have stored.
THEOREM DedupeRunsTheLoop == Spec => []DedupeIsLoop
  <1>1. TypeOK /\ RowsIdentified => DedupeIsLoop
    <2> SUFFICES ASSUME TypeOK, RowsIdentified, NEW r \in Runs, NEW s \in Sources,
                        NEW page, page = unit[r][s].page
                 PROVE  Survivors(page, Fresh(s, r, page)) =
                        LoopSurvivors(MaxLen, page, SnapshotMap(s, r))
      BY DEF DedupeIsLoop
    <2> DEFINE snapshot == SnapshotMap(s, r)
    <2>1. page \in Page
      BY UnitShape DEF TypeOK
    <2>2. PICK I \in SUBSET (1 .. MaxLen) : page \in [I -> Candidate]
      BY <2>1 DEF Page, Places
    <2>3. ASSUME NEW t \in Titles, NEW x \in Snapshot(s, t, r)
          PROVE  snapshot[t] = x.price
      <3>1. (CHOOSE y \in Snapshot(s, t, r) : TRUE) \in Snapshot(s, t, r)
        OBVIOUS
      <3>2. (CHOOSE y \in Snapshot(s, t, r) : TRUE) = x
        BY <3>1, SnapshotIsOne
      <3> QED
        BY <3>2 DEF SnapshotMap
    <2>4. ASSUME NEW t \in Titles, Snapshot(s, t, r) = {}
          PROVE  snapshot[t] = None
      BY <2>4 DEF SnapshotMap
    <2>5. \A t \in Titles : \A x \in Snapshot(s, t, r) : x.price \in Prices
      BY DEF Snapshot, RowsOf, TypeOK, Row
    <2>6. snapshot \in [Titles -> Seen]
      <3>1. \A t \in Titles : snapshot[t] \in Seen
        BY <2>3, <2>4, <2>5 DEF Seen
      <3>2. snapshot = [t \in Titles |-> snapshot[t]]
        BY DEF SnapshotMap
      <3> QED
        BY <3>1, <3>2
    <2> HIDE DEF snapshot
    <2>7. ASSUME NEW i \in DOMAIN page
          PROVE  (\A x \in Snapshot(s, page[i].title, r) : x.price # page[i].price)
                 <=> snapshot[page[i].title] # page[i].price
      <3>1. page[i].title \in Titles /\ page[i].price \in Prices
        BY <2>1, PageShape
      <3>2. None \notin Prices
        BY ConstantsOK DEF None, Prices, Out, ConstantsOK
      <3>3. CASE Snapshot(s, page[i].title, r) = {}
        BY <2>4, <3>1, <3>2, <3>3
      <3>4. CASE Snapshot(s, page[i].title, r) # {}
        BY <2>3, <3>1, <3>4
      <3> QED
        BY <3>3, <3>4
    <2>8. Fresh(s, r, page) = {i \in DOMAIN page : snapshot[page[i].title] # page[i].price}
      BY <2>7 DEF Fresh
    <2>9. MaxLen \in Nat
      BY ConstantsOK DEF ConstantsOK
    <2>10. LoopSurvivors(MaxLen, page, snapshot) =
           Survivors(page, {i \in DOMAIN page : snapshot[page[i].title] # page[i].price})
      BY <2>2, <2>6, <2>9, LoopKeepsSurvivors
    <2> QED
      BY <2>8, <2>10 DEF snapshot
  <1> QED
    BY <1>1, TypeCorrect, RowsIdentifiedAlways, PTL
=============================================================================
