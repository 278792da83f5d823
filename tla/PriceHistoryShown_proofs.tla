--------------------- MODULE PriceHistoryShown_proofs ---------------------
(***************************************************************************)
(* What is shown of the stored prices, for any sources, titles, answers    *)
(* and number of runs: the sparkline ends at the Latest price, the item's  *)
(* status follows the rows of its newest run, and the chart gives back     *)
(* what the vendor had told, although only changes are stored.             *)
(*                                                                         *)
(* The replay of views.py is a recursion over the runs; what it computes   *)
(* is proved by the induction of PriceHistory_proofs (UpTo, Recursion).    *)
(***************************************************************************)
EXTENDS PriceHistory_proofs

-----------------------------------------------------------------------------
(* The choices of the views are well-defined. *)

LEMMA LowestIsLeast ==
    ASSUME NEW P \in SUBSET Nat, P # {}
    PROVE  LowestOf(P) \in P /\ \A q \in P : LowestOf(P) <= q
  BY LeastNat DEF LowestOf

LEMMA LowestType ==
    ASSUME NEW P \in SUBSET Prices
    PROVE  LowestOf(P) \in Seen /\ (LowestOf(P) = None <=> P = {})
  <1>1. Prices \subseteq Nat /\ None \notin Prices
    BY ConstantsOK DEF ConstantsOK, Prices, None, Out
  <1> QED
    BY <1>1, LowestIsLeast DEF LowestOf, Seen

\* Of the rows a run stored of a title there is a best one.
LEMMA BestIsOne ==
    ASSUME NEW X \in SUBSET Row, X # {}
    PROVE  /\ Best(X) \in X
           /\ \A y \in X :
                IF InStock(Best(X)) THEN InStock(y) => Best(X).price < y.price
                                         \/ (Best(X).price = y.price /\ Best(X).id <= y.id)
                ELSE ~InStock(y) /\ Best(X).id <= y.id
  <1> DEFINE Better(x) == \A y \in X :
                IF InStock(x) THEN InStock(y) => x.price < y.price \/ (x.price = y.price /\ x.id <= y.id)
                ELSE ~InStock(y) /\ x.id <= y.id
  <1>1. \A y \in X : y.price \in Nat /\ y.id \in Nat
    BY ConstantsOK DEF ConstantsOK, Row, Prices, Places, Out
  <1>2. ASSUME NEW Y \in SUBSET X, Y # {} PROVE \E x \in Y : \A y \in Y : x.id <= y.id
    <2> DEFINE I == {y.id : y \in Y}
    <2>1. I \in SUBSET Nat /\ I # {}
      BY <1>1, <1>2
    <2> HIDE DEF I
    <2>2. PICK i \in I : \A j \in I : i <= j
      BY <2>1, LeastNat
    <2> USE DEF I
    <2>3. PICK x \in Y : x.id = i
      BY <2>2
    <2> QED
      BY <2>2, <2>3
  <1>3. \E x \in X : Better(x)
    <2>1. CASE \E y \in X : InStock(y)
      <3> DEFINE P == {y.price : y \in {z \in X : InStock(z)}}
      <3>1. P \in SUBSET Nat /\ P # {}
        BY <1>1, <2>1
      <3> HIDE DEF P
      <3>2. PICK p \in P : \A q \in P : p <= q
        BY <3>1, LeastNat
      <3> USE DEF P
      <3> DEFINE Y == {z \in X : InStock(z) /\ z.price = p}
      <3>3. Y \in SUBSET X /\ Y # {}
        BY <3>2
      <3> HIDE DEF Y
      <3>4. PICK x \in Y : \A y \in Y : x.id <= y.id
        BY <1>2, <3>3
      <3> USE DEF Y
      <3>5. \A y \in X : InStock(y) => p <= y.price /\ (y.price = p => x.id <= y.id)
        BY <3>2, <3>4
      <3>6. InStock(x) /\ x.price = p /\ x \in X
        BY <3>4
      <3> QED
        BY <1>1, <3>5, <3>6
    <2>2. CASE ~\E y \in X : InStock(y)
      <3>1. PICK x \in X : \A y \in X : x.id <= y.id
        BY <1>2
      <3> QED
        BY <2>2, <3>1
    <2> QED
      BY <2>1, <2>2
  <1> QED
    BY <1>3 DEF Best

-----------------------------------------------------------------------------
(* The replay of a source. *)

State == [Titles -> SUBSET Row]

LEMMA ReplayStep ==
    ASSUME TypeOK, NEW s \in Sources
    PROVE  /\ Replay(s) \in [0 .. MaxRuns -> State]
           /\ \A t \in Titles : Replay(s)[0][t] = {}
           /\ \A r \in Runs, t \in Titles :
                Replay(s)[r][t] = IF Matching(s, r, t) # {} THEN {Best(Matching(s, r, t))}
                                  ELSE Replay(s)[r - 1][t]
  <1> DEFINE F == [r \in 1 .. MaxRuns |-> [state \in State |->
                    [t \in Titles |-> IF Matching(s, r, t) # {} THEN {Best(Matching(s, r, t))}
                                      ELSE state[t]]]]
             v == [t \in Titles |-> {}]
             Body(state, r) == [t \in Titles |->
                 IF r = 0 THEN {}
                 ELSE IF Matching(s, r, t) # {} THEN {Best(Matching(s, r, t))}
                 ELSE state[r - 1][t]]
  <1>1. \A r \in Runs, t \in Titles : Matching(s, r, t) # {} => {Best(Matching(s, r, t))} \subseteq Row
    <2>1. \A r \in Runs, t \in Titles : Matching(s, r, t) \in SUBSET Row
      BY DEF Matching, RowsOf, TypeOK
    <2> QED
      BY <2>1, BestIsOne
  <1>2. v \in State
    BY DEF State
  <1>3. F \in Steps(MaxRuns, State)
    BY <1>1 DEF Steps, State, Runs
  <1>4. ASSUME NEW n \in Runs, NEW state \in State, NEW t \in Titles
        PROVE  F[n][state][t] = IF Matching(s, n, t) # {} THEN {Best(Matching(s, n, t))}
                                ELSE state[t]
    BY DEF Runs
  <1>5. MaxRuns \in Nat
    BY ConstantsOK DEF ConstantsOK
  <1> HIDE DEF F
  <1>5a. \E g : Follows(g, MaxRuns, State, v, F)
    <2> HIDE DEF v
    <2> QED
      BY <1>2, <1>3, <1>5, Recursion
  <1>6. PICK g \in [0 .. MaxRuns -> State] :
          g[0] = v /\ \A n \in 1 .. MaxRuns : g[n] = F[n][g[n - 1]]
    BY <1>5a DEF Follows
  <1>7. g = [r \in 0 .. MaxRuns |-> Body(g, r)]
    <2> SUFFICES ASSUME NEW r \in 0 .. MaxRuns PROVE g[r] = Body(g, r)
      OBVIOUS
    <2>1. CASE r = 0
      BY <1>6, <2>1
    <2>2. CASE r # 0
      <3>1. r \in 1 .. MaxRuns /\ r - 1 \in 0 .. MaxRuns
        BY <1>5, <2>2
      <3>2. g[r] = F[r][g[r - 1]] /\ g[r - 1] \in State /\ g[r] \in State
        BY <1>6, <3>1
      <3>3. ASSUME NEW t \in Titles PROVE g[r][t] = Body(g, r)[t]
        <4>1. r \in Runs
          BY <3>1 DEF Runs
        <4>2. F[r][g[r - 1]][t] = IF Matching(s, r, t) # {} THEN {Best(Matching(s, r, t))}
                                  ELSE g[r - 1][t]
          BY <1>4, <3>2, <4>1
        <4> QED
          BY <2>2, <3>2, <4>2
      <3>4. g[r] = [t \in Titles |-> g[r][t]]
        BY <3>2 DEF State
      <3> QED
        BY <3>3, <3>4
    <2> QED
      BY <2>1, <2>2
  <1> HIDE DEF F, v
  <1>8. Replay(s) = CHOOSE state : state = [r \in 0 .. MaxRuns |-> Body(state, r)]
    BY DEF Replay
  <1>9. Replay(s) = [r \in 0 .. MaxRuns |-> Body(Replay(s), r)]
    BY <1>7, <1>8
  <1>10. Replay(s) = g
    <2> DEFINE T == {r \in 0 .. MaxRuns : Replay(s)[r] = g[r]}
    <2>1. 0 \in T
      BY <1>5, <1>7, <1>9
    <2>2. ASSUME NEW r \in T, r < MaxRuns PROVE r + 1 \in T
      <3>1. r + 1 \in 0 .. MaxRuns /\ r + 1 # 0 /\ (r + 1) - 1 = r /\ r \in 0 .. MaxRuns
        BY <1>5, <2>2
      <3>2. Replay(s)[(r + 1) - 1] = g[(r + 1) - 1]
        BY <2>2, <3>1
      <3>3. Body(Replay(s), r + 1) = Body(g, r + 1)
        BY <3>2
      <3>4. Replay(s)[r + 1] = Body(Replay(s), r + 1) /\ g[r + 1] = Body(g, r + 1)
        BY <1>7, <1>9, <3>1
      <3> QED
        BY <3>1, <3>3, <3>4
    <2>3. T \in SUBSET (0 .. MaxRuns)
      OBVIOUS
    <2> HIDE DEF T
    <2>4. T = 0 .. MaxRuns
      BY <1>5, <2>1, <2>2, <2>3, UpTo
    <2>5. \A r \in 0 .. MaxRuns : Replay(s)[r] = g[r]
      BY <2>4 DEF T
    <2>6. Replay(s) = [r \in 0 .. MaxRuns |-> Replay(s)[r]]
      <3> HIDE DEF Body
      <3> QED
        BY <1>9
    <2>7. g = [r \in 0 .. MaxRuns |-> g[r]]
      BY <1>6
    <2> QED
      BY <2>5, <2>6, <2>7
  <1>11. \A r \in Runs, t \in Titles :
           g[r][t] = IF Matching(s, r, t) # {} THEN {Best(Matching(s, r, t))} ELSE g[r - 1][t]
    <2>1. \A r \in Runs : r - 1 \in 0 .. MaxRuns /\ r \in 1 .. MaxRuns
      BY <1>5 DEF Runs
    <2>2. \A r \in Runs : g[r] = F[r][g[r - 1]] /\ g[r - 1] \in State
      BY <1>6, <2>1
    <2> SUFFICES ASSUME NEW r \in Runs, NEW t \in Titles
                 PROVE  g[r][t] = IF Matching(s, r, t) # {} THEN {Best(Matching(s, r, t))}
                                  ELSE g[r - 1][t]
      OBVIOUS
    <2>3. F[r][g[r - 1]][t] = IF Matching(s, r, t) # {} THEN {Best(Matching(s, r, t))}
                              ELSE g[r - 1][t]
      BY <1>4, <2>1, <2>2
    <2> QED
      BY <2>2, <2>3
  <1>12. \A t \in Titles : g[0][t] = {}
    BY <1>6 DEF v
  <1> QED
    BY <1>6, <1>10, <1>11, <1>12

LEMMA LowestInType ==
    ASSUME NEW state \in State
    PROVE  LowestIn(state) \in Seen
  <1> DEFINE P == {x.price : x \in {y \in UNION {state[t] : t \in Titles} : InStock(y)}}
  <1>1. P \in SUBSET Prices
    BY DEF State, Row
  <1> HIDE DEF P
  <1>2. LowestOf(P) \in Seen
    BY <1>1, LowestType
  <1> QED
    BY <1>2 DEF LowestIn, P

LEMMA EntryType ==
    ASSUME TypeOK, NEW s \in Sources, NEW r \in 0 .. MaxRuns
    PROVE  EntryAt(s, r) \in Seen
  <1>1. Replay(s)[r] \in State
    BY ReplayStep
  <1> QED
    BY <1>1, LowestInType DEF EntryAt

\* Before the first run there is no entry.
LEMMA NoEntryAtFirst ==
    ASSUME TypeOK, NEW s \in Sources
    PROVE  EntryAt(s, 0) = None
  <1>1. \A t \in Titles : Replay(s)[0][t] = {}
    BY ReplayStep
  <1>2. {x.price : x \in {y \in UNION {Replay(s)[0][t] : t \in Titles} : InStock(y)}} = {}
    BY <1>1
  <1> QED
    BY <1>2 DEF EntryAt, LowestIn, LowestOf

\* A run that stored nothing that counts leaves the entry as it was.
LEMMA EntryStays ==
    ASSUME TypeOK, NEW s \in Sources, NEW r \in Runs, \A t \in Titles : Matching(s, r, t) = {}
    PROVE  EntryAt(s, r) = EntryAt(s, r - 1)
  <1>1. \A t \in Titles : Replay(s)[r][t] = Replay(s)[r - 1][t]
    BY ReplayStep
  <1>2. {Replay(s)[r][t] : t \in Titles} = {Replay(s)[r - 1][t] : t \in Titles}
    BY <1>1
  <1> QED
    BY <1>2 DEF EntryAt, LowestIn

-----------------------------------------------------------------------------
(* The points of a chart. *)

Point == [run : Runs, price : Seen, kind : {"gap", "hollow", "solid"}]

EndOf(line) == IF line = << >> THEN None ELSE line[Len(line)].price

\* The points when run r is added to those so far.
After(s, r, sofar) ==
    LET price == EntryAt(s, r)
        kind == IF price = None THEN "gap" ELSE IF price = EndOf(sofar) THEN "hollow" ELSE "solid"
    IN IF ~Evaluated(s, r) \/ (price = None /\ sofar = << >>) THEN sofar
       ELSE Append(sofar, [run |-> r, price |-> price, kind |-> kind])

\* The points up to each run.
Series(s, pts) ==
    /\ pts \in [0 .. MaxRuns -> Seq(Point)]
    /\ pts[0] = << >>
    /\ \A r \in Runs : pts[r] = After(s, r, pts[r - 1])
    /\ Points(s) = pts[MaxRuns]

LEMMA AfterType ==
    ASSUME TypeOK, NEW s \in Sources, NEW r \in Runs, NEW sofar \in Seq(Point)
    PROVE  After(s, r, sofar) \in Seq(Point)
  <1>1. r \in 0 .. MaxRuns
    BY ConstantsOK DEF ConstantsOK, Runs
  <1>2. EntryAt(s, r) \in Seen
    BY <1>1, EntryType
  <1> DEFINE kind == IF EntryAt(s, r) = None THEN "gap"
                     ELSE IF EntryAt(s, r) = EndOf(sofar) THEN "hollow" ELSE "solid"
             p == [run |-> r, price |-> EntryAt(s, r), kind |-> kind]
  <1>3. p \in Point
    BY <1>2 DEF Point
  <1>4. After(s, r, sofar) \in {sofar, Append(sofar, p)}
    BY DEF After
  <1> HIDE DEF p
  <1> QED
    BY <1>3, <1>4

LEMMA PointsStep ==
    ASSUME TypeOK, NEW s \in Sources
    PROVE  \E pts : Series(s, pts)
  <1> DEFINE V == Seq(Point)
             F == [r \in 1 .. MaxRuns |-> [sofar \in V |-> After(s, r, sofar)]]
             Body(pts, r) == IF r = 0 THEN << >> ELSE After(s, r, pts[r - 1])
  <1>1. MaxRuns \in Nat /\ Runs = 1 .. MaxRuns
    BY ConstantsOK DEF ConstantsOK, Runs
  <1>2. << >> \in V
    OBVIOUS
  <1>3. \A r \in Runs, sofar \in V : After(s, r, sofar) \in V
    BY AfterType
  <1> HIDE DEF V
  <1>4. F \in Steps(MaxRuns, V)
    BY <1>1, <1>3 DEF Steps
  <1>5. \A r \in Runs, sofar \in V : F[r][sofar] = After(s, r, sofar)
    BY <1>1
  <1> HIDE DEF F
  <1>6. PICK g : Follows(g, MaxRuns, V, << >>, F)
    BY <1>1, <1>2, <1>4, Recursion
  <1>7. g \in [0 .. MaxRuns -> V] /\ g[0] = << >> /\ \A r \in Runs : g[r] = F[r][g[r - 1]]
    BY <1>1, <1>6 DEF Follows
  <1>8. \A r \in 0 .. MaxRuns : r # 0 => r \in Runs /\ r - 1 \in 0 .. MaxRuns
    BY <1>1
  <1>9. \A r \in Runs : r \in 0 .. MaxRuns /\ r # 0 /\ r - 1 \in 0 .. MaxRuns
    BY <1>1
  <1>10. \A r \in Runs : g[r] = After(s, r, g[r - 1])
    BY <1>5, <1>7, <1>9
  <1>11. \A r \in 0 .. MaxRuns : g[r] = Body(g, r)
    BY <1>7, <1>8, <1>10
  <1>12. g = [r \in 0 .. MaxRuns |-> Body(g, r)]
    <2>1. g = [r \in 0 .. MaxRuns |-> g[r]]
      BY <1>7
    <2> HIDE DEF Body
    <2> QED
      BY <1>11, <2>1
  <1> DEFINE p == CHOOSE pts : pts = [r \in 0 .. MaxRuns |-> Body(pts, r)]
  <1>13. Points(s) = p[MaxRuns]
    BY DEF Points, After, EndOf
  <1>14. p = [r \in 0 .. MaxRuns |-> Body(p, r)]
    BY <1>12
  <1> HIDE DEF p
  <1>15. p = g
    <2> DEFINE T == {r \in 0 .. MaxRuns : p[r] = g[r]}
    <2>1. 0 \in T
      BY <1>1, <1>7, <1>14
    <2>2. ASSUME NEW r \in T, r < MaxRuns PROVE r + 1 \in T
      <3>1. r + 1 \in 0 .. MaxRuns /\ r + 1 # 0 /\ (r + 1) - 1 = r /\ r + 1 \in Runs
        BY <1>1, <2>2
      <3>2. p[r + 1] = Body(p, r + 1) /\ g[r + 1] = Body(g, r + 1)
        BY <1>11, <1>14, <3>1
      <3>3. p[(r + 1) - 1] = g[(r + 1) - 1]
        BY <2>2, <3>1
      <3>4. Body(p, r + 1) = Body(g, r + 1)
        BY <3>3
      <3> QED
        BY <3>1, <3>2, <3>4
    <2>3. T \in SUBSET (0 .. MaxRuns)
      OBVIOUS
    <2> HIDE DEF T
    <2>4. T = 0 .. MaxRuns
      BY <1>1, <2>1, <2>2, <2>3, UpTo
    <2>5. \A r \in 0 .. MaxRuns : p[r] = g[r]
      BY <2>4 DEF T
    <2>6. p = [r \in 0 .. MaxRuns |-> p[r]]
      <3> HIDE DEF Body
      <3> QED
        BY <1>14
    <2>7. g = [r \in 0 .. MaxRuns |-> g[r]]
      BY <1>7
    <2> QED
      BY <2>5, <2>6, <2>7
  <1>16. Series(s, g)
    BY <1>7, <1>10, <1>13, <1>15 DEF Series, V
  <1> QED
    BY <1>16

\* The last point so far has the price of the entry of the run.
LEMMA LastIsEntry ==
    ASSUME TypeOK, NEW s \in Sources, NEW pts, Series(s, pts)
    PROVE  \A r \in 0 .. MaxRuns : EndOf(pts[r]) = EntryAt(s, r)
  <1> DEFINE T == {r \in 0 .. MaxRuns : EndOf(pts[r]) = EntryAt(s, r)}
  <1>1. MaxRuns \in Nat /\ Runs = 1 .. MaxRuns
    BY ConstantsOK DEF ConstantsOK, Runs
  <1>2. 0 \in T
    BY <1>1, NoEntryAtFirst DEF Series, EndOf
  <1>3. ASSUME NEW q \in T, q < MaxRuns PROVE q + 1 \in T
    <2>1. q \in 0 .. MaxRuns /\ q + 1 \in 0 .. MaxRuns /\ q + 1 \in Runs /\ (q + 1) - 1 = q
      BY <1>1, <1>3
    <2>2. PICK r \in Runs : r = q + 1
      BY <2>1
    <2>3. r \in 0 .. MaxRuns /\ r - 1 \in 0 .. MaxRuns /\ r - 1 = q
      BY <2>1, <2>2
    <2>4. EndOf(pts[r - 1]) = EntryAt(s, r - 1)
      BY <2>3
    <2>5. pts[r] = After(s, r, pts[r - 1]) /\ pts[r - 1] \in Seq(Point)
      BY <2>3 DEF Series
    <2>6. CASE ~Evaluated(s, r)
      <3>1. EntryAt(s, r) = EntryAt(s, r - 1)
        BY <2>6, EntryStays DEF Evaluated
      <3>2. pts[r] = pts[r - 1]
        BY <2>5, <2>6 DEF After
      <3> QED
        BY <2>2, <2>3, <2>4, <3>1, <3>2
    <2>7. CASE Evaluated(s, r) /\ EntryAt(s, r) = None /\ pts[r - 1] = << >>
      <3>1. pts[r] = << >>
        BY <2>5, <2>7 DEF After
      <3> QED
        BY <2>2, <2>3, <2>7, <3>1 DEF EndOf
    <2>8. CASE Evaluated(s, r) /\ ~(EntryAt(s, r) = None /\ pts[r - 1] = << >>)
      <3>1. \E p : pts[r] = Append(pts[r - 1], p) /\ p.price = EntryAt(s, r)
        BY <2>5, <2>8 DEF After
      <3>2. PICK p : pts[r] = Append(pts[r - 1], p) /\ p.price = EntryAt(s, r)
        BY <3>1
      <3>3. pts[r] # << >> /\ pts[r][Len(pts[r])] = p
        BY <2>5, <3>2
      <3> QED
        BY <2>2, <2>3, <3>2, <3>3 DEF EndOf
    <2> QED
      BY <2>6, <2>7, <2>8
  <1>4. T \in SUBSET (0 .. MaxRuns)
    OBVIOUS
  <1> HIDE DEF T
  <1>5. T = 0 .. MaxRuns
    BY <1>1, <1>2, <1>3, <1>4, UpTo
  <1> QED
    BY <1>5 DEF T

\* The series of a source ends at what the source contributes to Latest price.
LEMMA PointsEnd ==
    ASSUME TypeOK, NEW s \in Sources
    PROVE  EndOf(Points(s)) = Contribution(s) /\ Contribution(s) \in Seen
  <1>1. MaxRuns \in 0 .. MaxRuns
    BY ConstantsOK DEF ConstantsOK
  <1>2. PICK pts : Series(s, pts)
    BY PointsStep
  <1>3. EndOf(pts[MaxRuns]) = EntryAt(s, MaxRuns)
    BY <1>1, <1>2, LastIsEntry
  <1> QED
    BY <1>1, <1>2, <1>3, EntryType DEF Series, EntryAt, Contribution

-----------------------------------------------------------------------------
(* The sparkline and the Latest price. *)

LEMMA LatestIsLeast ==
    ASSUME TypeOK
    PROVE  /\ LatestPrice \in Seen
           /\ LatestPrice # None => \E s \in linked : Contribution(s) = LatestPrice
           /\ \A s \in linked : LatestPrice <= Contribution(s)
  <1> DEFINE P == {Contribution(s) : s \in linked} \ {None}
  <1>1. linked \subseteq Sources
    BY DEF TypeOK
  <1>2. \A s \in linked : Contribution(s) \in Seen
    BY <1>1, PointsEnd
  <1>3. P \in SUBSET Prices /\ Prices \subseteq Nat
    BY <1>2, ConstantsOK DEF Seen, ConstantsOK, Prices, Out
  <1>4. \A s \in linked : Contribution(s) \in P \/ Contribution(s) = None
    OBVIOUS
  <1>5. \A p \in P : \E s \in linked : Contribution(s) = p
    OBVIOUS
  <1>6. \A p \in Seen : p \in Nat /\ p <= None
    BY ConstantsOK DEF Seen, None, Prices, Out, ConstantsOK
  <1> HIDE DEF P
  <1>7. LowestOf(P) \in Seen /\ (LowestOf(P) = None <=> P = {})
    BY <1>3, LowestType
  <1>8. P # {} => LowestOf(P) \in P /\ \A q \in P : LowestOf(P) <= q
    BY <1>3, LowestIsLeast
  <1>9. LatestPrice = LowestOf(P)
    BY DEF LatestPrice, P
  <1> QED
    BY <1>4, <1>5, <1>6, <1>7, <1>8, <1>9

LEMMA WinnerWins ==
    ASSUME TypeOK, LatestPrice # None
    PROVE  Winner \in linked /\ Contribution(Winner) = LatestPrice
  <1> DEFINE W == {s \in linked : Contribution(s) = LatestPrice}
  <1>1. W \in SUBSET Nat /\ W # {}
    BY LatestIsLeast, ConstantsOK DEF TypeOK, ConstantsOK
  <1> HIDE DEF W
  <1>2. PICK s \in W : \A o \in W : s <= o
    BY <1>1, LeastNat
  <1> USE DEF W
  <1>3. s \in linked /\ Contribution(s) = LatestPrice
    BY <1>2
  <1>4. ASSUME NEW o \in linked, o < s PROVE Contribution(o) # LatestPrice
    <2> SUFFICES ASSUME o \in W PROVE FALSE
      OBVIOUS
    <2> HIDE DEF W
    <2> QED
      BY <1>1, <1>2, <1>4
  <1> QED
    BY <1>3, <1>4 DEF Winner

LEMMA SparklineOfTypes ==
    ASSUME TypeOK
    PROVE  SparklineEndsAtLatest
  <1>1. EndOf(Sparkline) = LatestPrice
    <2>1. CASE LatestPrice = None
      BY <2>1 DEF Sparkline, EndOf
    <2>2. CASE LatestPrice # None
      <3>1. Winner \in Sources /\ Contribution(Winner) = LatestPrice
        BY <2>2, WinnerWins DEF TypeOK
      <3> QED
        BY <2>2, <3>1, PointsEnd DEF Sparkline
    <2> QED
      BY <2>1, <2>2
  <1>2. ASSUME NEW s \in linked PROVE EndOf(Points(s)) >= LatestPrice
    <2>1. s \in Sources
      BY DEF TypeOK
    <2>2. EndOf(Points(s)) = Contribution(s) /\ Contribution(s) \in Nat
      BY <2>1, PointsEnd, ConstantsOK DEF Seen, None, Prices, Out, ConstantsOK
    <2>3. LatestPrice \in Nat /\ LatestPrice <= Contribution(s)
      BY LatestIsLeast, ConstantsOK DEF Seen, None, Prices, Out, ConstantsOK
    <2> QED
      BY <2>2, <2>3
  <1> QED
    BY <1>1, <1>2 DEF SparklineEndsAtLatest, EndOf

\* The item's sparkline ends at its Latest price and no linked source's series
\* ends lower: the points walk the entries of the replay, skip only runs whose
\* entry is the one before, and so end where the replay does.
THEOREM SparklineEnds == Spec => []SparklineEndsAtLatest
  <1>1. TypeOK => SparklineEndsAtLatest
    BY SparklineOfTypes
  <1> QED
    BY <1>1, TypeCorrect, PTL

-----------------------------------------------------------------------------
(* The rows of a unit that has stored are the ones it kept. *)

RowsAreKept ==
    \A r \in Runs, s \in Sources :
        HasStored(r, s) => {x \in rows : x.run = r /\ x.src = s} = NewRows(r, s)

\* A step that leaves the rows alone, and lets no unit have stored.
RowsCalm ==
    /\ rows' = rows
    /\ \A q \in Runs, o \in Sources :
         HasStored(q, o)' =>
           /\ HasStored(q, o)
           /\ unit'[q][o].page = unit[q][o].page /\ unit'[q][o].keep = unit[q][o].keep

\* Every step is one of the four kinds PriceHistory_proofs names, or leaves the units.
LEMMA KindsOfSteps ==
    ASSUME TypeOK, [Next]_vars
    PROVE  \/ StartRun
           \/ \E r \in Runs, s \in Sources, u \in Unit :
                Quiet(r, s, u) \/ Hears(r, s, u) \/ Filters(r, s, u) \/ Stores(r, s, u)
           \/ UNCHANGED <<made, unit, rows, seen, seenAt, tracked, clean>>
  <1>1. ASSUME NEW r \in Runs, NEW s \in Sources, UnitStep(r, s)
        PROVE  \E u \in Unit : Quiet(r, s, u) \/ Hears(r, s, u) \/ Filters(r, s, u) \/ Stores(r, s, u)
    BY <1>1, QuietSteps, FetchHears, DedupeFilters, StoreStores DEF UnitStep
  <1>2. EditCriteria \/ (\E s \in Sources : Relink(s)) \/ UNCHANGED vars
        => UNCHANGED <<made, unit, rows, seen, seenAt, tracked, clean>>
    BY DEF EditCriteria, Relink, vars, history
  <1> QED
    BY <1>1, <1>2 DEF Next

LEMMA RowsAreKeptKept ==
    ASSUME TypeOK, RowsAreStored, RowsAreKept, [Next]_vars
    PROVE  RowsAreKept'
  <1>1. RowsCalm => RowsAreKept'
    <2> SUFFICES ASSUME RowsCalm, NEW r \in Runs, NEW s \in Sources, HasStored(r, s)'
                 PROVE  {x \in rows' : x.run = r /\ x.src = s} = NewRows(r, s)'
      BY DEF RowsAreKept
    <2>1. /\ HasStored(r, s) /\ rows' = rows
          /\ unit'[r][s].page = unit[r][s].page /\ unit'[r][s].keep = unit[r][s].keep
      BY DEF RowsCalm
    <2>2. NewRows(r, s)' = NewRows(r, s)
      BY <2>1 DEF NewRows
    <2> QED
      BY <2>1, <2>2 DEF RowsAreKept
  <1>2. CASE StartRun
    <2>1. rows' = rows
      BY <1>2 DEF StartRun, shown
    <2>2. \A q \in Runs, o \in Sources :
            unit'[q][o].at \in {"none", "queued"} \/ unit'[q][o] = unit[q][o]
      BY <1>2, StartMoves
    <2>3. RowsCalm
      BY <2>1, <2>2 DEF RowsCalm, HasStored
    <2> QED
      BY <1>1, <2>3
  <1>3. ASSUME NEW r \in Runs, NEW s \in Sources, NEW u \in Unit,
               Quiet(r, s, u) \/ Hears(r, s, u) \/ Filters(r, s, u)
        PROVE  RowsAreKept'
    <2>1. RowsCalm
      BY <1>3 DEF RowsCalm, HasStored, Quiet, Hears, Filters, Moves
    <2> QED
      BY <1>1, <2>1
  <1>4. ASSUME NEW r \in Runs, NEW s \in Sources, NEW u \in Unit, Stores(r, s, u)
        PROVE  RowsAreKept'
    <2>1. /\ rows' = rows \cup NewRows(r, s) /\ unit[r][s].at = "jobbed"
          /\ u.page = unit[r][s].page /\ u.keep = unit[r][s].keep
          /\ \A q \in Runs, o \in Sources : unit'[q][o] = IF q = r /\ o = s THEN u ELSE unit[q][o]
      BY <1>4 DEF Stores, Moves
    <2>2. \A x \in NewRows(r, s) : x.run = r /\ x.src = s
      BY DEF NewRows
    <2> SUFFICES ASSUME NEW q \in Runs, NEW o \in Sources, HasStored(q, o)'
                 PROVE  {x \in rows' : x.run = q /\ x.src = o} = NewRows(q, o)'
      BY DEF RowsAreKept
    <2>3. NewRows(q, o)' = NewRows(q, o)
      <3>1. unit'[q][o].page = unit[q][o].page /\ unit'[q][o].keep = unit[q][o].keep
        BY <2>1
      <3> QED
        BY <3>1 DEF NewRows
    <2>4. CASE q = r /\ o = s
      <3>1. \A x \in rows : ~(x.run = r /\ x.src = s)
        BY <2>1, NoRowsYet
      <3> QED
        BY <2>1, <2>2, <2>3, <2>4, <3>1
    <2>5. CASE ~(q = r /\ o = s)
      <3>1. HasStored(q, o)
        BY <2>1, <2>5 DEF HasStored
      <3>2. {x \in rows' : x.run = q /\ x.src = o} = {x \in rows : x.run = q /\ x.src = o}
        BY <2>1, <2>2, <2>5
      <3> QED
        BY <2>3, <3>1, <3>2 DEF RowsAreKept
    <2> QED
      BY <2>4, <2>5
  <1>5. CASE UNCHANGED <<made, unit, rows, seen, seenAt, tracked, clean>>
    BY <1>1, <1>5 DEF RowsCalm, HasStored
  <1> QED
    BY <1>2, <1>3, <1>4, <1>5, KindsOfSteps

-----------------------------------------------------------------------------
(* The counts of a job follow its unit. *)

Success(u, n) == [status |-> "success", parsed |-> Cardinality(DOMAIN u.page), stored |-> n]

JobFollows(u, j) ==
    /\ u.at \in {"none", "queued"} => j = NoJob /\ u.page = << >>
    /\ u.at \in {"fetched", "deduped"} => j = NoJob
    /\ u.at \in {"jobbed", "stored"} => j = Success(u, 0)
    /\ u.at = "done" => j = Success(u, Cardinality(u.keep))
    /\ u.at = "failed" => j.status = "failed" /\ j.stored = 0 /\ u.page = << >>

JobsFollow == \A r \in Runs, s \in Sources : JobFollows(unit[r][s], job[r][s])

\* A step of one unit need only be looked at there.
LEMMA OneJobMoves ==
    ASSUME TypeOK, JobsFollow, NEW r \in Runs, NEW s \in Sources, NEW u \in Unit, NEW j,
           Goes(r, s, u), job' = [job EXCEPT ![r][s] = j], JobFollows(u, j)
    PROVE  JobsFollow'
  <1>1. Moves(r, s, u)
    BY GoesMoves DEF TypeOK
  <1>2. \A q \in Runs, o \in Sources : job'[q][o] = IF q = r /\ o = s THEN j ELSE job[q][o]
    BY DEF TypeOK
  <1>3. \A q \in Runs, o \in Sources : JobFollows(unit'[q][o], job'[q][o])
    BY <1>1, <1>2 DEF Moves, JobsFollow
  <1> QED
    BY <1>3 DEF JobsFollow

LEMMA JobsFollowKept ==
    ASSUME TypeOK, RowsAreStored, JobsFollow, [Next]_vars
    PROVE  JobsFollow'
  <1>1. CASE StartRun
    <2> DEFINE begun == [s \in Sources |->
                   IF s \in linked THEN [Idle EXCEPT !.at = "queued"] ELSE Idle]
    <2>1. unit' = [unit EXCEPT ![made + 1] = begun] /\ job' = job
      BY <1>1 DEF StartRun, shown
    <2>2. \A s \in Sources : begun[s].at \in {"none", "queued"} /\ begun[s].page = << >>
      BY DEF Idle
    <2>3. \A s \in Sources, r \in Runs : r = made + 1 => unit[r][s].at = "none"
      <3>1. \A r \in Runs : r = made + 1 => r > made
        BY ConstantsOK DEF TypeOK, Runs, ConstantsOK
      <3> QED
        BY <3>1 DEF RowsAreStored
    <2> HIDE DEF begun
    <2>4. \A r \in Runs, s \in Sources :
            unit'[r][s] = IF r = made + 1 THEN begun[s] ELSE unit[r][s]
      BY <2>1 DEF TypeOK
    <2>5. ASSUME NEW r \in Runs, NEW s \in Sources PROVE JobFollows(unit'[r][s], job'[r][s])
      <3>1. JobFollows(unit[r][s], job[r][s])
        BY DEF JobsFollow
      <3>2. CASE r = made + 1
        <4>1. job'[r][s] = NoJob
          BY <2>1, <2>3, <3>1, <3>2 DEF JobFollows
        <4> QED
          BY <2>2, <2>4, <3>2, <4>1 DEF JobFollows
      <3>3. CASE r # made + 1
        BY <2>1, <2>4, <3>1, <3>3
      <3> QED
        BY <3>2, <3>3
    <2> QED
      BY <2>5 DEF JobsFollow
  <1>2. ASSUME NEW r \in Runs, NEW s \in Sources, UnitStep(r, s)
        PROVE  JobsFollow'
    <2>1. JobFollows(unit[r][s], job[r][s]) /\ unit[r][s] \in Unit
      BY UnitShape DEF JobsFollow, TypeOK
    <2>2. job = [job EXCEPT ![r][s] = job[r][s]]
      BY DEF TypeOK
    \* The new unit u and its job j, for each step.
    <2>3. \E u \in Unit : \E j : /\ Goes(r, s, u) /\ job' = [job EXCEPT ![r][s] = j]
                                  /\ JobFollows(u, j)
      <3>1. CASE Fetch(r, s)
        <4>1. PICK raw \in Pages : Goes(r, s, [at |-> "fetched", page |-> Accepted(s, raw), keep |-> {}])
          BY <3>1 DEF Fetch
        <4> DEFINE u == [at |-> "fetched", page |-> Accepted(s, raw), keep |-> {}]
        <4>2. u \in Unit /\ u.at = "fetched"
          BY PagesArePages, AcceptedIsPage DEF Unit, Stage
        <4>3. job' = job /\ job[r][s] = NoJob
          BY <2>1, <3>1 DEF Fetch, shown, JobFollows
        <4>4. JobFollows(u, job[r][s])
          BY <4>3 DEF JobFollows
        <4> HIDE DEF u
        <4>5. Goes(r, s, u)
          BY <4>1 DEF u
        <4> QED
          BY <2>2, <4>2, <4>3, <4>4, <4>5
      <3>2. CASE FetchNothing(r, s)
        <4> DEFINE u == [unit[r][s] EXCEPT !.at = "failed"]
                   j == [status |-> "failed", parsed |-> 0, stored |-> 0]
        <4>1. Goes(r, s, u) /\ job' = [job EXCEPT ![r][s] = j] /\ unit[r][s].at = "queued"
          BY <3>2 DEF FetchNothing
        <4>2. u \in Unit /\ u.at = "failed" /\ u.page = unit[r][s].page
          BY <2>1, AtIsUnit DEF Stage
        <4>3. JobFollows(u, j)
          BY <2>1, <4>1, <4>2 DEF JobFollows
        <4> HIDE DEF u, j
        <4> QED
          BY <4>1, <4>2, <4>3
      <3>3. CASE Dedupe(r, s)
        <4>1. PICK u \in Unit : Goes(r, s, u) /\ u.at = "deduped"
          <5> DEFINE page == unit[r][s].page
                     u == [at |-> "deduped", page |-> page,
                           keep |-> Survivors(page, Fresh(s, r, page))]
          <5>1. page \in Page
            BY <2>1 DEF Unit
          <5>2. u \in Unit
            BY <5>1, PageShape DEF Survivors, Fresh, Unit, Stage
          <5> QED
            BY <3>3, <5>2 DEF Dedupe
        <4>2. job' = job /\ job[r][s] = NoJob
          BY <2>1, <3>3 DEF Dedupe, shown, JobFollows
        <4>3. JobFollows(u, job[r][s])
          BY <4>1, <4>2 DEF JobFollows
        <4> QED
          BY <2>2, <4>1, <4>2, <4>3
      <3>4. CASE InsertJob(r, s)
        <4> DEFINE u == [unit[r][s] EXCEPT !.at = "jobbed"]
                   j == Success(unit[r][s], 0)
        <4>1. Goes(r, s, u) /\ job' = [job EXCEPT ![r][s] = j]
          BY <3>4 DEF InsertJob, Success
        <4>2. u \in Unit /\ u.at = "jobbed" /\ u.page = unit[r][s].page
          BY <2>1, AtIsUnit DEF Stage
        <4>3. JobFollows(u, j)
          BY <4>2 DEF JobFollows, Success
        <4> HIDE DEF u, j
        <4> QED
          BY <4>1, <4>2, <4>3
      <3>5. CASE Store(r, s)
        <4> DEFINE a == IF unit[r][s].keep = {} THEN "done" ELSE "stored"
                   u == [unit[r][s] EXCEPT !.at = a]
        <4>1. Goes(r, s, u) /\ job' = job /\ unit[r][s].at = "jobbed"
          BY <3>5 DEF Store
        <4>2. a \in Stage
          BY DEF Stage
        <4>3. a = "stored" \/ (a = "done" /\ unit[r][s].keep = {})
          OBVIOUS
        <4> HIDE DEF a
        <4>4. u \in Unit /\ u.at = a /\ u.page = unit[r][s].page /\ u.keep = unit[r][s].keep
          BY <2>1, <4>2, AtIsUnit
        <4>5. job[r][s] = Success(u, 0)
          BY <2>1, <4>1, <4>4 DEF JobFollows, Success
        <4> HIDE DEF u
        <4>6. JobFollows(u, job[r][s])
          BY <4>3, <4>4, <4>5, FS_EmptySet DEF JobFollows
        <4> QED
          BY <2>2, <4>1, <4>4, <4>6
      <3>6. CASE CountStored(r, s)
        <4> DEFINE u == [unit[r][s] EXCEPT !.at = "done"]
                   n == Cardinality(unit[r][s].keep)
                   j == [job[r][s] EXCEPT !.stored = n]
        <4>1. Goes(r, s, u) /\ job' = [job EXCEPT ![r][s].stored = n] /\ unit[r][s].at = "stored"
          BY <3>6 DEF CountStored
        <4>2. u \in Unit /\ u.at = "done" /\ u.page = unit[r][s].page /\ u.keep = unit[r][s].keep
          BY <2>1, AtIsUnit DEF Stage
        <4> HIDE DEF n
        <4>3. j = Success(u, n)
          BY <2>1, <4>1, <4>2 DEF JobFollows, Success
        <4>4. job' = [job EXCEPT ![r][s] = j]
          BY <4>1 DEF TypeOK
        <4>5. JobFollows(u, j)
          BY <4>2, <4>3 DEF JobFollows, n
        <4> HIDE DEF u, j
        <4> QED
          BY <4>1, <4>2, <4>4, <4>5
      <3>7. CASE Lose(r, s)
        <4> DEFINE u == [unit[r][s] EXCEPT !.at = "lost"]
        <4>1. Goes(r, s, u) /\ job' = job
          BY <3>7 DEF Lose, shown
        <4>2. u \in Unit /\ u.at = "lost"
          BY <2>1, AtIsUnit DEF Stage
        <4>3. JobFollows(u, job[r][s])
          BY <4>2 DEF JobFollows
        <4> HIDE DEF u
        <4> QED
          BY <2>2, <4>1, <4>2, <4>3
      <3> QED
        BY <1>2, <3>1, <3>2, <3>3, <3>4, <3>5, <3>6, <3>7 DEF UnitStep
    <2> QED
      BY <2>3, OneJobMoves
  <1>3. CASE EditCriteria \/ (\E s \in Sources : Relink(s)) \/ UNCHANGED vars
    BY <1>3 DEF EditCriteria, Relink, vars, JobsFollow
  <1> QED
    BY <1>1, <1>2, <1>3 DEF Next

-----------------------------------------------------------------------------
(* The status of the item. *)

\* The newest run with a job is one of the runs, if there is any.
LEMMA LatestRunIsRun ==
    ASSUME TypeOK, LatestRun # 0
    PROVE  LatestRun \in Runs
  <1> DEFINE R == {r \in Runs : \E s \in Sources : job[r][s].status # "none"}
  <1>1. R # {}
    BY DEF LatestRun
  <1>2. MaxRuns \in Nat /\ Runs = 1 .. MaxRuns
    BY ConstantsOK DEF ConstantsOK, Runs
  <1> DEFINE Below == {MaxRuns - q : q \in R}
  <1>3. R \subseteq Runs
    OBVIOUS
  <1> HIDE DEF R
  <1>4. Below \in SUBSET Nat /\ Below # {}
    <2>1. \A q \in R : MaxRuns - q \in Nat
      BY <1>2, <1>3
    <2>2. \E q : q \in R
      BY <1>1
    <2>3. \A b \in Below : b \in Nat
      BY <2>1
    <2> QED
      BY <2>2, <2>3
  <1> HIDE DEF Below
  <1>5. PICK b \in Below : \A c \in Below : b <= c
    BY <1>4, LeastNat
  <1>6. PICK r \in R : b = MaxRuns - r
    BY DEF Below
  <1>7. \A q \in R : MaxRuns - r <= MaxRuns - q
    BY <1>5, <1>6 DEF Below
  <1>8. \A q \in R : q <= r
    BY <1>2, <1>3, <1>7
  <1>9. (CHOOSE z \in R : \A q \in R : q <= z) \in R
    BY <1>8
  <1> QED
    BY <1>1, <1>3, <1>9 DEF LatestRun, R

LEMMA CountOfKept ==
    ASSUME TypeOK, NEW r \in Runs, NEW s \in Sources
    PROVE  /\ Cardinality(unit[r][s].keep) \in Nat
           /\ Cardinality(unit[r][s].keep) = 0 <=> unit[r][s].keep = {}
           /\ Cardinality(DOMAIN unit[r][s].page) = 0 <=> DOMAIN unit[r][s].page = {}
  <1>1. IsFiniteSet(Places)
    BY ConstantsOK, FS_Interval DEF ConstantsOK, Places
  <1>2. unit[r][s].keep \subseteq Places /\ DOMAIN unit[r][s].page \subseteq Places
    BY UnitShape, PageShape DEF TypeOK
  <1>3. IsFiniteSet(unit[r][s].keep) /\ IsFiniteSet(DOMAIN unit[r][s].page)
    BY <1>1, <1>2, FS_Subset
  <1> QED
    BY <1>3, FS_EmptySet, FS_CardinalityType

LEMMA StatusOfState ==
    ASSUME TypeOK, RowsAreStored, RowsAreKept, JobsFollow
    PROVE  StatusFollowsRows
  <1> DEFINE r == LatestRun
             S == {s \in Sources : r # 0 /\ job[r][s].status # "none"}
  <1> SUFFICES ASSUME r # 0, \A s \in Sources : unit[r][s].at \in {"none", "done", "failed"}
               PROVE  /\ ListStatus = "updated" => \E x \in rows : x.run = r
                      /\ ListStatus = "unchanged" => ~\E x \in rows : x.run = r
                      /\ ListStatus = "no_matches" => \A s \in Sources : DOMAIN unit[r][s].page = {}
    BY DEF StatusFollowsRows
  <1>1. r \in Runs
    BY LatestRunIsRun
  <1>2. /\ ListStatus = "updated" => \E s \in S : job[r][s].stored > 0
        /\ ListStatus = "unchanged" => \A s \in S : ~(job[r][s].stored > 0)
        /\ ListStatus = "no_matches" => \A s \in S : job[r][s].parsed = 0
    BY DEF ListStatus
  <1> HIDE DEF r
  <1>3. \A s \in Sources : JobFollows(unit[r][s], job[r][s])
    BY <1>1 DEF JobsFollow
  <1>4. ASSUME NEW s \in Sources
        PROVE  /\ s \in S /\ job[r][s].stored > 0 => \E x \in rows : x.run = r
               /\ s \in S /\ job[r][s].parsed = 0 => DOMAIN unit[r][s].page = {}
               /\ s \notin S => DOMAIN unit[r][s].page = {} /\ unit[r][s].at = "none"
               /\ s \in S /\ ~(job[r][s].stored > 0) => \A x \in rows : ~(x.run = r /\ x.src = s)
    <2>1. CASE unit[r][s].at = "none"
      <3>1. job[r][s] = NoJob /\ unit[r][s].page = << >>
        BY <1>3, <2>1 DEF JobFollows
      <3>2. s \notin S
        BY <3>1 DEF NoJob
      <3> QED
        BY <2>1, <3>1, <3>2
    <2>2. CASE unit[r][s].at = "failed"
      <3>1. job[r][s].status = "failed" /\ job[r][s].stored = 0 /\ unit[r][s].page = << >>
        BY <1>3, <2>2 DEF JobFollows
      <3>2. s \in S /\ DOMAIN unit[r][s].page = {}
        BY <3>1
      <3>3. \A x \in rows : ~(x.run = r /\ x.src = s)
        BY <1>1, <2>2, NoRowsYet
      <3> QED
        BY <3>1, <3>2, <3>3
    <2>3. CASE unit[r][s].at = "done"
      <3>1. job[r][s] = Success(unit[r][s], Cardinality(unit[r][s].keep))
        BY <1>3, <2>3 DEF JobFollows
      <3>2. /\ job[r][s].status = "success" /\ job[r][s].stored = Cardinality(unit[r][s].keep)
            /\ job[r][s].parsed = Cardinality(DOMAIN unit[r][s].page)
        BY <3>1 DEF Success
      <3>3. {x \in rows : x.run = r /\ x.src = s} = NewRows(r, s)
        BY <1>1, <2>3 DEF RowsAreKept, HasStored
      <3>4. NewRows(r, s) = {} <=> unit[r][s].keep = {}
        BY DEF NewRows
      <3>5. s \in S
        BY <3>2
      <3>6. job[r][s].stored > 0 <=> unit[r][s].keep # {}
        BY <1>1, <3>2, CountOfKept
      <3>7. job[r][s].parsed = 0 <=> DOMAIN unit[r][s].page = {}
        BY <1>1, <3>2, CountOfKept
      <3> QED
        BY <3>3, <3>4, <3>5, <3>6, <3>7
    <2> QED
      BY <2>1, <2>2, <2>3
  <1>5. \A x \in rows : x.run = r => x.src \in S
    <2> SUFFICES ASSUME NEW x \in rows, x.run = r PROVE x.src \in S
      OBVIOUS
    <2>1. x.src \in Sources /\ unit[r][x.src].at # "none"
      BY DEF TypeOK, Row, RowsAreStored
    <2> QED
      BY <1>4, <2>1
  <1>6. S \subseteq Sources
    OBVIOUS
  <1> HIDE DEF S
  <1> QED
    BY <1>2, <1>4, <1>5, <1>6

\* Rows and counts are written by different statements; each unit's job and
\* rows follow from how far the unit has come.
Written == RowsAreKept /\ JobsFollow

LEMMA WrittenAlways == Spec => []Written
  <1>1. Init => Written
    <2> SUFFICES ASSUME Init PROVE Written
      OBVIOUS
    <2>1. \A r \in Runs, s \in Sources : unit[r][s] = Idle /\ job[r][s] = NoJob
      BY DEF Init
    <2> QED
      BY <2>1 DEF Written, RowsAreKept, HasStored, JobsFollow, JobFollows, Idle
  <1>2. IInv /\ Written /\ [Next]_vars => Written'
    BY RowsAreKeptKept, JobsFollowKept DEF IInv, Written
  <1> QED
    BY <1>1, <1>2, InvariantHolds, PTL DEF Spec

\* Once the newest checked run's units have ended and none died between its
\* statements, the list calls the item updated exactly when that run stored a row.
THEOREM StatusIsRight == Spec => []StatusFollowsRows
  <1>1. IInv /\ Written => StatusFollowsRows
    BY StatusOfState DEF IInv, Written
  <1> QED
    BY <1>1, InvariantHolds, WrittenAlways, PTL

-----------------------------------------------------------------------------
(* What was seen when, for a source whose answers were all stored in order. *)

\* Only titles that were told have rows, or are about to have.
RowsWereSeen ==
    /\ \A x \in rows : seen[x.src][x.title] # None
    /\ \A s \in Sources : \A r \in InFlight(s) : \A t \in TitlesOf(unit[r][s].page) : seen[s][t] # None

CleanIsPlain ==
    \A r \in Runs, s \in Sources : <<r, s>> \in clean => Plain(unit[r][s].page)

OnPage(c) == \E p \in Pages : \E i \in DOMAIN p : p[i].title = c.title /\ p[i].cat = c.cat

\* Titles and categories of rows are those of the vendor's answers.
FromPages ==
    /\ \A r \in Runs, s \in Sources :
         Answered(r, s) => \A i \in DOMAIN unit[r][s].page : OnPage(unit[r][s].page[i])
    /\ \A x \in rows : OnPage(x)

SeenIsTracked ==
    \A s \in Sources : Orderly(s) => \A t \in Titles : seen[s][t] # None =>
        t \in tracked[s] \/ \E r \in InFlight(s) : t \in TitlesOf(unit[r][s].page)

\* A newest row of title t of a run up to r says price p.
SaidBy(s, t, r, p) ==
    \E x \in RowsOf(s, t) :
        x.price = p /\ x.run <= r /\ \A y \in RowsOf(s, t) : y.run <= r => Before(y, x)

\* The rows up to run r still say what was seen when r stored.
SeenAtIsSaid ==
    \A r \in Runs, s \in Sources : Orderly(s) /\ HasStored(r, s) => \A t \in Titles :
        IF seenAt[r][s][t] = None THEN \A x \in RowsOf(s, t) : ~(x.run <= r)
        ELSE SaidBy(s, t, r, seenAt[r][s][t])

LEMMA AcceptedIsRaw ==
    ASSUME NEW s \in Sources, NEW raw \in Pages
    PROVE  \A i \in DOMAIN Accepted(s, raw) : OnPage(Accepted(s, raw)[i])
  <1>1. DOMAIN Accepted(s, raw) \subseteq DOMAIN raw
        /\ \A i \in DOMAIN Accepted(s, raw) : Accepted(s, raw)[i] = raw[i]
    BY DEF Accepted
  <1> QED
    BY <1>1 DEF OnPage

LEMMA ToldIsSeen ==
    ASSUME NEW p \in Page, NEW old, NEW t \in TitlesOf(p)
    PROVE  Told(p, old)[t] \in Prices /\ t \in Titles
  <1> DEFINE c == CHOOSE i \in DOMAIN p : p[i].title = t
  <1>1. c \in DOMAIN p /\ t \in Titles
    BY PageShape DEF TitlesOf
  <1> HIDE DEF c
  <1>2. p[c].price \in Prices
    BY <1>1, PageShape
  <1>3. Told(p, old)[t] = p[c].price
    BY <1>1 DEF Told, c
  <1> QED
    BY <1>1, <1>2, <1>3

\* A new row is one of a candidate of its unit's page.
LEMMA NewRowsShape ==
    ASSUME TypeOK, NEW r \in Runs, NEW s \in Sources
    PROVE  \A x \in NewRows(r, s) :
             /\ x.run = r /\ x.src = s /\ x.id \in DOMAIN unit[r][s].page
             /\ x.title = unit[r][s].page[x.id].title /\ x.price = unit[r][s].page[x.id].price
             /\ x.cat = unit[r][s].page[x.id].cat
             /\ x.title \in TitlesOf(unit[r][s].page)
  <1>1. unit[r][s].keep \subseteq DOMAIN unit[r][s].page
    BY UnitShape DEF TypeOK
  <1> QED
    BY <1>1 DEF NewRows, TitlesOf

LEMMA RowsWereSeenKept ==
    ASSUME TypeOK, RowsAreStored, RowsWereSeen, [Next]_vars
    PROVE  RowsWereSeen'
  <1>0. /\ \A x \in rows : x.src \in Sources /\ x.title \in Titles
        /\ None \notin Prices
    BY ConstantsOK DEF TypeOK, Row, ConstantsOK, Prices, None, Out
  \* The units in flight were in flight before with the same page, or it was told.
  <1>1. ASSUME \A x \in rows' : seen'[x.src][x.title] # None,
               \A o \in Sources, q \in Runs : q \in InFlight(o)' =>
                   \A t \in TitlesOf(unit'[q][o].page) : seen'[o][t] # None
        PROVE  RowsWereSeen'
    BY <1>1 DEF RowsWereSeen, InFlight, TitlesOf
  <1>2. ASSUME rows' = rows, seen' = seen,
               \A o \in Sources, q \in Runs : q \in InFlight(o)' =>
                   q \in InFlight(o) /\ unit'[q][o].page = unit[q][o].page
        PROVE  RowsWereSeen'
    BY <1>1, <1>2 DEF RowsWereSeen
  <1>3. CASE StartRun
    <2>1. rows' = rows /\ seen' = seen
      BY <1>3 DEF StartRun, shown, history
    <2>2. \A q \in Runs, o \in Sources :
            unit'[q][o].at \in {"none", "queued"} \/ unit'[q][o] = unit[q][o]
      BY <1>3, StartMoves
    <2> QED
      BY <1>2, <2>1, <2>2 DEF InFlight
  <1>4. ASSUME NEW r \in Runs, NEW s \in Sources, NEW u \in Unit,
               Quiet(r, s, u) \/ Filters(r, s, u)
        PROVE  RowsWereSeen'
    <2>1. rows' = rows /\ seen' = seen
      BY <1>4 DEF Quiet, Filters
    <2>2. \A o \in Sources, q \in Runs : q \in InFlight(o)' =>
             q \in InFlight(o) /\ unit'[q][o].page = unit[q][o].page
      BY <1>4 DEF Quiet, Filters, Moves, InFlight
    <2> QED
      BY <1>2, <2>1, <2>2
  <1>5. ASSUME NEW r \in Runs, NEW s \in Sources, NEW u \in Unit, Hears(r, s, u)
        PROVE  RowsWereSeen'
    <2>1. /\ rows' = rows /\ seen' = [seen EXCEPT ![s] = Told(u.page, seen[s])]
          /\ u.page \in Page
          /\ \A q \in Runs, o \in Sources : unit'[q][o] = IF q = r /\ o = s THEN u ELSE unit[q][o]
      BY <1>5 DEF Hears, Moves, Unit
    <2>2. \A t \in TitlesOf(u.page) : seen'[s][t] # None
      BY <1>0, <2>1, ToldIsSeen DEF TypeOK
    <2>3. \A o \in Sources, t \in Titles : seen[o][t] # None => seen'[o][t] # None
      <3>1. \A o \in Sources, t \in Titles :
              o # s \/ t \notin TitlesOf(u.page) => seen'[o][t] = seen[o][t]
        BY <2>1, UntoldIsKept DEF TypeOK
      <3> QED
        BY <2>2, <3>1
    <2>4. \A x \in rows' : seen'[x.src][x.title] # None
      BY <1>0, <2>1, <2>3 DEF RowsWereSeen
    <2>5. ASSUME NEW o \in Sources, NEW q \in Runs, q \in InFlight(o)',
                 NEW t \in TitlesOf(unit'[q][o].page)
          PROVE  seen'[o][t] # None
      <3>1. CASE q = r /\ o = s
        BY <2>1, <2>2, <2>5, <3>1
      <3>2. CASE ~(q = r /\ o = s)
        <4>1. unit'[q][o] = unit[q][o] /\ q \in InFlight(o)
          BY <2>1, <2>5, <3>2 DEF InFlight
        <4>2. t \in Titles
          BY <2>5, <4>1, UnitShape, PageShape DEF TitlesOf, TypeOK
        <4> QED
          BY <2>3, <2>5, <4>1, <4>2 DEF RowsWereSeen
      <3> QED
        BY <3>1, <3>2
    <2> QED
      BY <1>1, <2>4, <2>5
  <1>6. ASSUME NEW r \in Runs, NEW s \in Sources, NEW u \in Unit, Stores(r, s, u)
        PROVE  RowsWereSeen'
    <2>1. /\ rows' = rows \cup NewRows(r, s) /\ seen' = seen
          /\ unit[r][s].at = "jobbed" /\ u.at \in {"done", "stored"}
          /\ \A q \in Runs, o \in Sources : unit'[q][o] = IF q = r /\ o = s THEN u ELSE unit[q][o]
      BY <1>6 DEF Stores, Moves
    <2>2. r \in InFlight(s)
      BY <2>1 DEF InFlight
    <2>3. \A x \in NewRows(r, s) : seen[x.src][x.title] # None
      BY <2>2, NewRowsShape DEF RowsWereSeen
    <2>4. \A o \in Sources, q \in Runs : q \in InFlight(o)' =>
             q \in InFlight(o) /\ unit'[q][o] = unit[q][o]
      BY <2>1 DEF InFlight
    <2>5. \A x \in rows' : seen'[x.src][x.title] # None
      BY <2>1, <2>3 DEF RowsWereSeen
    <2> QED
      BY <1>1, <2>1, <2>4, <2>5 DEF RowsWereSeen
  <1>7. CASE UNCHANGED <<made, unit, rows, seen, seenAt, tracked, clean>>
    BY <1>2, <1>7 DEF InFlight
  <1> QED
    BY <1>3, <1>4, <1>5, <1>6, <1>7, KindsOfSteps

LEMMA CleanIsPlainKept ==
    ASSUME TypeOK, RowsAreStored, CleanIsAlone, CleanIsPlain, [Next]_vars
    PROVE  CleanIsPlain'
  <1>1. ASSUME \A r \in Runs, s \in Sources : <<r, s>> \in clean' =>
                  <<r, s>> \in clean /\ unit'[r][s].page = unit[r][s].page
        PROVE  CleanIsPlain'
    BY <1>1 DEF CleanIsPlain, Plain
  <1>2. CASE StartRun
    <2>1. clean' = clean
      BY <1>2 DEF StartRun, history
    <2>2. ASSUME NEW r \in Runs, NEW s \in Sources, <<r, s>> \in clean
          PROVE  unit'[r][s] = unit[r][s]
      <3>1. unit[r][s].at # "none"
        BY <2>2 DEF CleanIsAlone, Answered
      <3>2. ~(r > made)
        BY <3>1 DEF RowsAreStored
      <3>3. r # made + 1
        BY <3>2, ConstantsOK DEF TypeOK, Runs, ConstantsOK
      <3> QED
        BY <1>2, <3>3, StartMoves
    <2> QED
      BY <1>1, <2>1, <2>2
  <1>3. ASSUME NEW r \in Runs, NEW s \in Sources, NEW u \in Unit,
               Quiet(r, s, u) \/ Filters(r, s, u) \/ Stores(r, s, u)
        PROVE  CleanIsPlain'
    <2>1. /\ clean' = clean /\ u.page = unit[r][s].page
          /\ \A q \in Runs, o \in Sources : unit'[q][o] = IF q = r /\ o = s THEN u ELSE unit[q][o]
      BY <1>3 DEF Quiet, Filters, Stores, Moves
    <2> QED
      BY <1>1, <2>1
  <1>4. ASSUME NEW r \in Runs, NEW s \in Sources, NEW u \in Unit, Hears(r, s, u)
        PROVE  CleanIsPlain'
    <2>1. \A q \in Runs, o \in Sources : unit'[q][o] = IF q = r /\ o = s THEN u ELSE unit[q][o]
      BY <1>4 DEF Hears, Moves
    <2>2. <<r, s>> \notin clean
      BY <1>4 DEF Hears, CleanIsAlone, Answered
    <2>3. <<r, s>> \in clean' => Plain(u.page)
      BY <1>4, <2>2 DEF Hears
    <2> SUFFICES ASSUME NEW q \in Runs, NEW o \in Sources, <<q, o>> \in clean'
                 PROVE  Plain(unit'[q][o].page)
      BY DEF CleanIsPlain, Plain
    <2>4. CASE q = r /\ o = s
      BY <2>1, <2>3, <2>4
    <2>5. CASE ~(q = r /\ o = s)
      <3>1. <<q, o>> \in clean
        BY <1>4, <2>5 DEF Hears
      <3> QED
        BY <2>1, <2>5, <3>1 DEF CleanIsPlain
    <2> QED
      BY <2>4, <2>5
  <1>5. CASE UNCHANGED <<made, unit, rows, seen, seenAt, tracked, clean>>
    BY <1>1, <1>5
  <1> QED
    BY <1>2, <1>3, <1>4, <1>5, KindsOfSteps

LEMMA FromPagesKept ==
    ASSUME TypeOK, RowsAreStored, FromPages, [Next]_vars
    PROVE  FromPages'
  <1>1. ASSUME \A x \in rows' : OnPage(x),
               \A r \in Runs, s \in Sources :
                   Answered(r, s)' => \A i \in DOMAIN unit'[r][s].page : OnPage(unit'[r][s].page[i])
        PROVE  FromPages'
    BY <1>1 DEF FromPages, OnPage
  <1>2. ASSUME rows' = rows,
               \A r \in Runs, s \in Sources :
                   Answered(r, s)' => Answered(r, s) /\ unit'[r][s].page = unit[r][s].page
        PROVE  FromPages'
    BY <1>1, <1>2 DEF FromPages
  <1>3. CASE StartRun
    <2>1. rows' = rows
      BY <1>3 DEF StartRun, shown
    <2>2. \A q \in Runs, o \in Sources :
            unit'[q][o].at \in {"none", "queued"} \/ unit'[q][o] = unit[q][o]
      BY <1>3, StartMoves
    <2> QED
      BY <1>2, <2>1, <2>2 DEF Answered
  <1>4. ASSUME NEW r \in Runs, NEW s \in Sources, NEW u \in Unit,
               Quiet(r, s, u) \/ Filters(r, s, u)
        PROVE  FromPages'
    <2>1. rows' = rows
      BY <1>4 DEF Quiet, Filters
    <2>2. \A q \in Runs, o \in Sources :
             Answered(q, o)' => Answered(q, o) /\ unit'[q][o].page = unit[q][o].page
      BY <1>4 DEF Quiet, Filters, Moves, Answered
    <2> QED
      BY <1>2, <2>1, <2>2
  <1>5. ASSUME NEW r \in Runs, NEW s \in Sources, NEW u \in Unit, Hears(r, s, u)
        PROVE  FromPages'
    <2>1. /\ rows' = rows
          /\ \A q \in Runs, o \in Sources : unit'[q][o] = IF q = r /\ o = s THEN u ELSE unit[q][o]
      BY <1>5 DEF Hears, Moves
    <2>2. \A i \in DOMAIN u.page : OnPage(u.page[i])
      BY <1>5, AcceptedIsRaw DEF Hears
    <2> QED
      BY <1>1, <2>1, <2>2 DEF FromPages, Answered
  <1>6. ASSUME NEW r \in Runs, NEW s \in Sources, NEW u \in Unit, Stores(r, s, u)
        PROVE  FromPages'
    <2>1. /\ rows' = rows \cup NewRows(r, s)
          /\ unit[r][s].at = "jobbed" /\ u.page = unit[r][s].page
          /\ \A q \in Runs, o \in Sources : unit'[q][o] = IF q = r /\ o = s THEN u ELSE unit[q][o]
      BY <1>6 DEF Stores, Moves
    <2>2. Answered(r, s)
      BY <2>1 DEF Answered
    <2>3. \A x \in NewRows(r, s) : OnPage(x)
      BY <2>2, NewRowsShape DEF FromPages, OnPage
    <2> QED
      BY <1>1, <2>1, <2>2, <2>3 DEF FromPages, Answered
  <1>7. CASE UNCHANGED <<made, unit, rows, seen, seenAt, tracked, clean>>
    BY <1>2, <1>7 DEF Answered
  <1> QED
    BY <1>3, <1>4, <1>5, <1>6, <1>7, KindsOfSteps

\* What is orderly after a step was so before.
LEMMA OrderlyBefore ==
    ASSUME TypeOK, RowsAreStored, [Next]_vars, NEW s \in Sources, Orderly(s)'
    PROVE  /\ Orderly(s)
           /\ \A r \in Runs : Answered(r, s) => <<r, s>> \in clean /\ unit'[r][s].at # "lost"
  <1> SUFFICES ASSUME NEW r \in Runs, Answered(r, s)
               PROVE  <<r, s>> \in clean /\ unit[r][s].at # "lost" /\ unit'[r][s].at # "lost"
    BY DEF Orderly
  <1>1. /\ Answered(r, s)' /\ (unit[r][s].at = "lost" => unit'[r][s].at = "lost")
        /\ <<r, s>> \in clean' => <<r, s>> \in clean
    <2>1. CASE StartRun
      <3>1. r # made + 1
        <4>1. ~(r > made)
          BY DEF Answered, RowsAreStored
        <4> QED
          BY <4>1, ConstantsOK DEF TypeOK, Runs, ConstantsOK
      <3>2. unit'[r][s] = unit[r][s] /\ clean' = clean
        BY <2>1, <3>1, StartMoves DEF StartRun, history
      <3> QED
        BY <3>2 DEF Answered
    <2>2. ASSUME NEW q \in Runs, NEW o \in Sources, NEW u \in Unit,
                 Quiet(q, o, u) \/ Hears(q, o, u) \/ Filters(q, o, u) \/ Stores(q, o, u)
          PROVE  /\ Answered(r, s)' /\ (unit[r][s].at = "lost" => unit'[r][s].at = "lost")
                 /\ (<<r, s>> \in clean' => <<r, s>> \in clean)
      <3>1. unit'[r][s] = IF r = q /\ s = o THEN u ELSE unit[r][s]
        BY <2>2 DEF Quiet, Hears, Filters, Stores, Moves
      <3>2. r = q /\ s = o => ~Hears(q, o, u)
        BY DEF Answered, Hears
      <3>3. <<r, s>> \in clean' => <<r, s>> \in clean
        BY <2>2, <3>2 DEF Quiet, Hears, Filters, Stores
      <3>4. Answered(r, s)' /\ (unit[r][s].at = "lost" => unit'[r][s].at = "lost")
        BY <2>2, <3>1, <3>2 DEF Quiet, Filters, Stores, Answered
      <3> QED
        BY <3>3, <3>4
    <2>3. CASE UNCHANGED <<made, unit, rows, seen, seenAt, tracked, clean>>
      BY <2>3 DEF Answered
    <2> QED
      BY <2>1, <2>2, <2>3, KindsOfSteps
  <1> QED
    BY <1>1 DEF Orderly

LEMMA SeenIsTrackedKept ==
    ASSUME TypeOK, Safe, SeenIsTracked, [Next]_vars
    PROVE  SeenIsTracked'
  <1> SUFFICES ASSUME NEW o \in Sources, Orderly(o)', NEW t \in Titles, seen'[o][t] # None
               PROVE  t \in tracked'[o] \/ \E q \in Runs :
                          q \in InFlight(o)' /\ t \in TitlesOf(unit'[q][o].page)
    BY DEF SeenIsTracked, TitlesOf, InFlight
  <1>1. \A q \in Runs : Answered(q, o) => <<q, o>> \in clean /\ unit'[q][o].at # "lost"
    BY OrderlyBefore DEF Safe
  <1>2. seen[o][t] # None => t \in tracked[o] \/ \E q \in Runs :
                          q \in InFlight(o) /\ t \in TitlesOf(unit[q][o].page)
    BY OrderlyBefore DEF Safe, SeenIsTracked, InFlight
  \* The step leaves what was seen alone, and what is in flight and not stored.
  <1>3. ASSUME seen'[o][t] = seen[o][t], t \in tracked[o] => t \in tracked'[o],
               \A q \in Runs : q \in InFlight(o) /\ t \in TitlesOf(unit[q][o].page) =>
                   \/ t \in tracked'[o]
                   \/ q \in InFlight(o)' /\ unit'[q][o].page = unit[q][o].page
        PROVE  t \in tracked'[o] \/ \E q \in Runs :
                          q \in InFlight(o)' /\ t \in TitlesOf(unit'[q][o].page)
    BY <1>2, <1>3
  <1>4. CASE StartRun
    <2>1. seen' = seen /\ tracked' = tracked
      BY <1>4 DEF StartRun, history
    <2>2. ASSUME NEW q \in Runs, q \in InFlight(o) PROVE unit'[q][o] = unit[q][o]
      <3>1. ~(q > made)
        BY <2>2 DEF Safe, RowsAreStored, InFlight
      <3>2. q # made + 1
        BY <3>1, ConstantsOK DEF TypeOK, Runs, ConstantsOK
      <3> QED
        BY <1>4, <3>2, StartMoves
    <2>3. \A q \in Runs : q \in InFlight(o) => q \in InFlight(o)'
      BY <2>2 DEF InFlight
    <2> QED
      BY <1>3, <2>1, <2>2, <2>3
  <1>5. ASSUME NEW r \in Runs, NEW s \in Sources, NEW u \in Unit,
               Quiet(r, s, u) \/ Filters(r, s, u)
        PROVE  t \in tracked'[o] \/ \E q \in Runs :
                          q \in InFlight(o)' /\ t \in TitlesOf(unit'[q][o].page)
    <2>1. /\ seen' = seen /\ tracked' = tracked /\ u.page = unit[r][s].page
          /\ \A q \in Runs, k \in Sources : unit'[q][k] = IF q = r /\ k = s THEN u ELSE unit[q][k]
      BY <1>5 DEF Quiet, Filters, Moves
    <2>2. ASSUME NEW q \in Runs, q \in InFlight(o) PROVE q \in InFlight(o)'
      <3>1. unit'[q][o].at # "lost"
        BY <1>1, <2>2 DEF InFlight, Answered
      <3> QED
        BY <1>5, <2>1, <2>2, <3>1 DEF Quiet, Filters, InFlight
    <2> QED
      BY <1>3, <2>1, <2>2
  <1>6. ASSUME NEW r \in Runs, NEW s \in Sources, NEW u \in Unit, Hears(r, s, u)
        PROVE  t \in tracked'[o] \/ \E q \in Runs :
                          q \in InFlight(o)' /\ t \in TitlesOf(unit'[q][o].page)
    <2>1. /\ \A q \in Runs, k \in Sources : unit'[q][k] = IF q = r /\ k = s THEN u ELSE unit[q][k]
          /\ unit[r][s].at = "queued" /\ u.at = "fetched" /\ u.page \in Page
          /\ seen' = [seen EXCEPT ![s] = Told(u.page, seen[s])]
          /\ tracked' = [tracked EXCEPT ![s] = tracked[s] \ TitlesOf(u.page)]
      BY <1>6 DEF Hears, Moves, Unit
    <2>2. CASE o = s /\ t \in TitlesOf(u.page)
      <3>1. r \in InFlight(o)' /\ unit'[r][o] = u
        BY <2>1, <2>2 DEF InFlight
      <3> QED
        BY <2>2, <3>1
    <2>3. CASE ~(o = s /\ t \in TitlesOf(u.page))
      <3>1. seen'[o][t] = seen[o][t]
        BY <2>1, <2>3, UntoldIsKept DEF TypeOK
      <3>2. t \in tracked[o] => t \in tracked'[o]
        BY <2>1, <2>3 DEF TypeOK
      <3>3. \A q \in Runs : q \in InFlight(o) => q \in InFlight(o)' /\ unit'[q][o] = unit[q][o]
        BY <2>1 DEF InFlight
      <3> QED
        BY <1>3, <3>1, <3>2, <3>3
    <2> QED
      BY <2>2, <2>3
  <1>7. ASSUME NEW r \in Runs, NEW s \in Sources, NEW u \in Unit, Stores(r, s, u)
        PROVE  t \in tracked'[o] \/ \E q \in Runs :
                          q \in InFlight(o)' /\ t \in TitlesOf(unit'[q][o].page)
    <2>1. /\ \A q \in Runs, k \in Sources : unit'[q][k] = IF q = r /\ k = s THEN u ELSE unit[q][k]
          /\ unit[r][s].at = "jobbed" /\ u.page = unit[r][s].page /\ seen' = seen
          /\ tracked' = [tracked EXCEPT ![s] =
                            IF <<r, s>> \in clean THEN tracked[s] \cup TitlesOf(unit[r][s].page)
                            ELSE tracked[s]]
      BY <1>7 DEF Stores, Moves
    <2>2. t \in tracked[o] => t \in tracked'[o]
      BY <2>1 DEF TypeOK
    <2>3. ASSUME NEW q \in Runs, q \in InFlight(o), t \in TitlesOf(unit[q][o].page)
          PROVE  t \in tracked'[o] \/ (q \in InFlight(o)' /\ unit'[q][o].page = unit[q][o].page)
      <3>1. CASE q = r /\ o = s
        <4>1. <<r, s>> \in clean
          BY <1>1, <2>3, <3>1 DEF InFlight, Answered
        <4> QED
          BY <2>1, <2>3, <3>1, <4>1 DEF TypeOK
      <3>2. CASE ~(q = r /\ o = s)
        BY <2>1, <2>3, <3>2 DEF InFlight
      <3> QED
        BY <3>1, <3>2
    <2> QED
      BY <1>3, <2>1, <2>2, <2>3
  <1>8. CASE UNCHANGED <<made, unit, rows, seen, seenAt, tracked, clean>>
    BY <1>3, <1>8 DEF InFlight
  <1> QED
    BY <1>4, <1>5, <1>6, <1>7, <1>8, KindsOfSteps

\* When a unit stores, the newest rows say what was seen by then.
LEMMA SeenIsSaid ==
    ASSUME TypeOK, Safe, TypeOK', Safe', RowsWereSeen', SeenIsTracked,
           NEW r \in Runs, NEW s \in Sources, NEW u \in Unit, Stores(r, s, u),
           Orderly(s), <<r, s>> \in clean, NEW t \in Titles
    PROVE  IF seen[s][t] = None THEN \A x \in RowsOf(s, t)' : ~(x.run <= r)
           ELSE SaidBy(s, t, r, seen[s][t])'
  <1>1. /\ rows' = rows \cup NewRows(r, s) /\ seen' = seen /\ unit[r][s].at = "jobbed"
        /\ tracked' = [tracked EXCEPT ![s] = tracked[s] \cup TitlesOf(unit[r][s].page)]
    BY DEF Stores
  <1>2. r \in InFlight(s)
    BY <1>1 DEF InFlight
  <1>3. InFlight(s) = {r} /\ \A q \in Runs : q > r => ~Answered(q, s)
    BY <1>2 DEF Safe, CleanIsAlone
  <1>4. \A x \in rows' : x.src = s => x.run <= r
    <2> SUFFICES ASSUME NEW x \in rows', x.src = s PROVE x.run <= r
      OBVIOUS
    <2>1. CASE x \in NewRows(r, s)
      <3>1. x.run = r
        BY <2>1, NewRowsShape
      <3>2. r \in Nat
        BY ConstantsOK DEF Runs, ConstantsOK
      <3> QED
        BY <3>1, <3>2
    <2>2. CASE x \in rows
      <3>1. x.run \in Runs /\ Answered(x.run, s)
        BY <2>2 DEF TypeOK, Row, Safe, RowsAreStored, Answered
      <3>2. ~(x.run > r)
        BY <1>3, <3>1
      <3> QED
        BY <3>1, <3>2, ConstantsOK DEF Runs, ConstantsOK
    <2> QED
      BY <1>1, <2>1, <2>2
  <1>5. CASE seen[s][t] = None
    <2>1. \A x \in rows' : x.src = s => x.title # t
      BY <1>1, <1>5 DEF RowsWereSeen
    <2> QED
      BY <1>5, <2>1 DEF RowsOf
  <1>6. CASE seen[s][t] # None
    <2>1. t \in tracked[s] \/ \E q \in InFlight(s) : t \in TitlesOf(unit[q][s].page)
      BY <1>6 DEF SeenIsTracked
    <2>2. t \in tracked'[s]
      BY <1>1, <1>3, <2>1 DEF TypeOK
    <2>3. Says(s, t, seen[s][t])'
      BY <1>1, <2>2 DEF Safe, TracksVendor
    <2>4. PICK x \in RowsOf(s, t)' : x.price = seen'[s][t] /\ \A y \in RowsOf(s, t)' : Before(y, x)
      BY <2>3 DEF Says, Before
    <2>5. x.run <= r
      BY <1>4, <2>4 DEF RowsOf
    <2> QED
      BY <1>6, <2>4, <2>5 DEF SaidBy, Before
  <1> QED
    BY <1>5, <1>6

LEMMA SeenAtIsSaidKept ==
    ASSUME TypeOK, Safe, TypeOK', Safe', RowsWereSeen', SeenIsTracked, SeenAtIsSaid, [Next]_vars
    PROVE  SeenAtIsSaid'
  <1> SUFFICES ASSUME NEW q \in Runs, NEW o \in Sources, Orderly(o)', HasStored(q, o)',
                      NEW t \in Titles
               PROVE  IF seenAt'[q][o][t] = None THEN \A x \in RowsOf(o, t)' : ~(x.run <= q)
                      ELSE SaidBy(o, t, q, seenAt[q][o][t])'
    BY DEF SeenAtIsSaid
  <1>1. Orderly(o) /\ \A r \in Runs : Answered(r, o) => <<r, o>> \in clean
    BY OrderlyBefore DEF Safe
  <1>2. HasStored(q, o) => IF seenAt[q][o][t] = None THEN \A x \in RowsOf(o, t) : ~(x.run <= q)
                           ELSE SaidBy(o, t, q, seenAt[q][o][t])
    BY <1>1 DEF SeenAtIsSaid
  \* The step leaves the rows up to run q alone.
  <1>3. ASSUME HasStored(q, o), seenAt'[q][o] = seenAt[q][o], rows \subseteq rows',
               \A x \in rows' \ rows : x.src = o => ~(x.run <= q)
        PROVE  IF seenAt'[q][o][t] = None THEN \A x \in RowsOf(o, t)' : ~(x.run <= q)
               ELSE SaidBy(o, t, q, seenAt[q][o][t])'
    <2>1. \A x \in RowsOf(o, t)' : x.run <= q => x \in RowsOf(o, t)
      BY <1>3 DEF RowsOf
    <2>2. RowsOf(o, t) \subseteq RowsOf(o, t)'
      BY <1>3 DEF RowsOf
    <2>3. CASE seenAt[q][o][t] = None
      BY <1>2, <1>3, <2>1, <2>3
    <2>4. CASE seenAt[q][o][t] # None
      <3>1. PICK x \in RowsOf(o, t) :
              /\ x.price = seenAt[q][o][t] /\ x.run <= q
              /\ \A y \in RowsOf(o, t) : y.run <= q => Before(y, x)
        BY <1>2, <1>3, <2>4 DEF SaidBy
      <3>2. SaidBy(o, t, q, seenAt[q][o][t])'
        BY <1>3, <2>1, <2>2, <3>1 DEF SaidBy, Before
      <3> QED
        BY <1>3, <2>4, <3>2
    <2> QED
      BY <2>3, <2>4
  <1>4. ASSUME rows' = rows, seenAt' = seenAt, HasStored(q, o)
        PROVE  IF seenAt'[q][o][t] = None THEN \A x \in RowsOf(o, t)' : ~(x.run <= q)
               ELSE SaidBy(o, t, q, seenAt[q][o][t])'
    BY <1>3, <1>4
  <1>5. CASE StartRun
    <2>1. rows' = rows /\ seenAt' = seenAt
      BY <1>5 DEF StartRun, shown, history
    <2>2. HasStored(q, o)
      BY <1>5, StartMoves DEF HasStored
    <2> QED
      BY <1>4, <2>1, <2>2
  <1>6. ASSUME NEW r \in Runs, NEW s \in Sources, NEW u \in Unit,
               Quiet(r, s, u) \/ Hears(r, s, u) \/ Filters(r, s, u)
        PROVE  IF seenAt'[q][o][t] = None THEN \A x \in RowsOf(o, t)' : ~(x.run <= q)
               ELSE SaidBy(o, t, q, seenAt[q][o][t])'
    <2>1. rows' = rows /\ seenAt' = seenAt
      BY <1>6 DEF Quiet, Hears, Filters
    <2>2. HasStored(q, o)
      BY <1>6 DEF HasStored, Quiet, Hears, Filters, Moves
    <2> QED
      BY <1>4, <2>1, <2>2
  <1>7. ASSUME NEW r \in Runs, NEW s \in Sources, NEW u \in Unit, Stores(r, s, u)
        PROVE  IF seenAt'[q][o][t] = None THEN \A x \in RowsOf(o, t)' : ~(x.run <= q)
               ELSE SaidBy(o, t, q, seenAt[q][o][t])'
    <2>1. /\ \A k \in Runs, e \in Sources : unit'[k][e] = IF k = r /\ e = s THEN u ELSE unit[k][e]
          /\ unit[r][s].at = "jobbed" /\ rows' = rows \cup NewRows(r, s)
          /\ seenAt' = [seenAt EXCEPT ![r][s] = seen[s]] /\ seen' = seen
      BY <1>7 DEF Stores, Moves
    <2>2. CASE q = r /\ o = s
      <3>1. <<r, s>> \in clean
        BY <1>1, <2>1, <2>2 DEF Answered
      <3>2. IF seen[s][t] = None THEN \A x \in RowsOf(s, t)' : ~(x.run <= r)
            ELSE SaidBy(s, t, r, seen[s][t])'
        BY <1>1, <1>7, <2>2, <3>1, SeenIsSaid
      <3>3. seenAt'[q][o] = seen[s] /\ seen'[s] = seen[s]
        BY <2>1, <2>2 DEF TypeOK
      <3> QED
        BY <2>2, <3>2, <3>3 DEF SaidBy, Before
    <2>3. CASE ~(q = r /\ o = s)
      <3>1. unit'[q][o] = unit[q][o] /\ seenAt'[q][o] = seenAt[q][o]
        BY <2>1, <2>3 DEF TypeOK
      <3>2. HasStored(q, o)
        BY <3>1 DEF HasStored
      <3>3. ASSUME NEW x \in rows' \ rows, x.src = o PROVE ~(x.run <= q)
        <4>1. x.run = r /\ o = s
          BY <2>1, <3>3, NewRowsShape
        <4>2. Answered(q, s) /\ r \in InFlight(s) /\ <<r, s>> \in clean
          BY <1>1, <2>1, <3>2, <4>1 DEF HasStored, Answered, InFlight
        <4>3. ~(q > r) /\ q # r
          BY <2>3, <4>1, <4>2 DEF Safe, CleanIsAlone
        <4> QED
          BY <4>1, <4>3, ConstantsOK DEF Runs, ConstantsOK
      <3> QED
        BY <1>3, <2>1, <3>1, <3>2, <3>3
    <2> QED
      BY <2>2, <2>3
  <1>8. CASE UNCHANGED <<made, unit, rows, seen, seenAt, tracked, clean>>
    BY <1>4, <1>8 DEF HasStored
  <1> QED
    BY <1>5, <1>6, <1>7, <1>8, KindsOfSteps

\* What the stored rows remember of what was seen.
Remembered ==
    /\ RowsWereSeen
    /\ CleanIsPlain
    /\ FromPages
    /\ SeenIsTracked
    /\ SeenAtIsSaid

LEMMA RememberedAlways == Spec => []Remembered
  <1>1. Init => Remembered
    <2> SUFFICES ASSUME Init PROVE Remembered
      OBVIOUS
    <2>1. \A r \in Runs, s \in Sources : unit[r][s] = Idle
      BY DEF Init
    <2>2. /\ rows = {} /\ clean = {}
          /\ \A s \in Sources, t \in Titles : seen[s][t] = None
      BY DEF Init
    <2> QED
      BY <2>1, <2>2 DEF Remembered, RowsWereSeen, CleanIsPlain, FromPages, SeenIsTracked,
                        SeenAtIsSaid, HasStored, InFlight, Answered, Idle
  <1>2. IInv /\ Remembered /\ [Next]_vars => Remembered'
    <2> SUFFICES ASSUME TypeOK, Safe, Remembered, [Next]_vars PROVE Remembered'
      BY DEF IInv, Safe
    <2>1. TypeOK' /\ Safe'
      BY TypeKept, SafeKept
    <2>2. RowsWereSeen' /\ CleanIsPlain' /\ FromPages' /\ SeenIsTracked'
      BY RowsWereSeenKept, CleanIsPlainKept, FromPagesKept, SeenIsTrackedKept
         DEF Safe, Remembered
    <2>3. SeenAtIsSaid'
      BY <2>1, <2>2, SeenAtIsSaidKept DEF Remembered
    <2> QED
      BY <2>2, <2>3 DEF Remembered
  <1> QED
    BY <1>1, <1>2, InvariantHolds, PTL DEF Spec

-----------------------------------------------------------------------------
(* The chart of an orderly source. *)

LEMMA OneRowPerRun ==
    ASSUME TypeOK, RowsAreStored, RowsAreKept, CleanIsPlain, NEW s \in Sources, Orderly(s)
    PROVE  \A x, y \in rows :
             x.src = s /\ y.src = s /\ x.run = y.run /\ x.title = y.title => x = y
  <1> SUFFICES ASSUME NEW x \in rows, NEW y \in rows, x.src = s, y.src = s,
                      x.run = y.run, x.title = y.title
               PROVE  x = y
    OBVIOUS
  <1>1. PICK r \in Runs : x.run = r /\ y.run = r
    BY DEF TypeOK, Row
  <1>2. unit[r][s].at \in {"stored", "done", "lost"}
    BY <1>1 DEF RowsAreStored
  <1>3. HasStored(r, s) /\ <<r, s>> \in clean
    BY <1>2 DEF Orderly, Answered, HasStored
  <1>4. x \in NewRows(r, s) /\ y \in NewRows(r, s)
    BY <1>1, <1>3 DEF RowsAreKept
  <1>5. x.id = y.id
    BY <1>3, <1>4, NewRowsShape DEF CleanIsPlain, Plain
  <1>6. \A z \in NewRows(r, s) :
          z = [src |-> s, run |-> r, id |-> z.id, title |-> unit[r][s].page[z.id].title,
               price |-> unit[r][s].page[z.id].price, cat |-> unit[r][s].page[z.id].cat]
    BY DEF NewRows
  <1> QED
    BY <1>4, <1>5, <1>6

\* The rows of a title count all or none.
LEMMA SameCounts ==
    ASSUME Steady, FromPages, NEW s \in Sources, NEW t,
           NEW x \in RowsOf(s, t), NEW y \in RowsOf(s, t)
    PROVE  Counts(s, x) <=> Counts(s, y)
  <1>1. OnPage(x) /\ OnPage(y) /\ x.title = y.title
    BY DEF FromPages, RowsOf
  <1>2. x.cat = y.cat
    BY <1>1 DEF OnPage, Steady
  <1> QED
    BY <1>1, <1>2 DEF Counts, Matches, TitlePasses, ValuePasses

\* The newest rows of a title that count, of the runs up to q.
Newest(s, t, q) ==
    {x \in RowsOf(s, t) :
        /\ Counts(s, x) /\ x.run <= q
        /\ \A y \in RowsOf(s, t) : Counts(s, y) /\ y.run <= q => y.run <= x.run}

LEMMA ReplayIsNewest ==
    ASSUME TypeOK, RowsAreStored, RowsAreKept, CleanIsPlain, NEW s \in Sources, Orderly(s)
    PROVE  \A q \in 0 .. MaxRuns : \A t \in Titles : Replay(s)[q][t] = Newest(s, t, q)
  <1> DEFINE T == {q \in 0 .. MaxRuns : \A t \in Titles : Replay(s)[q][t] = Newest(s, t, q)}
  <1>1. MaxRuns \in Nat /\ Runs = 1 .. MaxRuns
    BY ConstantsOK DEF ConstantsOK, Runs
  <1>2. \A t : \A x \in RowsOf(s, t) : x \in rows /\ x \in Row /\ x.src = s /\ x.title = t /\ x.run \in 1 .. MaxRuns
    BY <1>1 DEF RowsOf, TypeOK, Row
  <1>3. 0 \in T
    <2>1. \A t \in Titles : Newest(s, t, 0) = {}
      BY <1>2 DEF Newest
    <2>2. \A t \in Titles : Replay(s)[0][t] = {}
      BY ReplayStep
    <2>3. 0 \in 0 .. MaxRuns
      BY <1>1
    <2>4. \A t \in Titles : Replay(s)[0][t] = Newest(s, t, 0)
      BY <2>1, <2>2
    <2> QED
      BY <2>3, <2>4
  <1>4. ASSUME NEW p \in T, p < MaxRuns PROVE p + 1 \in T
    <2>1. PICK q \in Runs : q = p + 1 /\ q - 1 = p /\ q \in 0 .. MaxRuns /\ p \in 0 .. MaxRuns
      BY <1>1, <1>4
    <2>2. ASSUME NEW t \in Titles PROVE Replay(s)[q][t] = Newest(s, t, q)
      <3>1. Replay(s)[q - 1][t] = Newest(s, t, p)
        BY <2>1
      <3>2. Matching(s, q, t) = {x \in RowsOf(s, t) : x.run = q /\ Counts(s, x)}
        BY DEF Matching
      <3>3. CASE Matching(s, q, t) # {}
        <4>1. Matching(s, q, t) \in SUBSET Row
          BY <1>2, <3>2
        <4>2. PICK x \in Matching(s, q, t) : x = Best(Matching(s, q, t))
          BY <3>3, <4>1, BestIsOne
        <4>3. Replay(s)[q][t] = {x}
          BY <3>3, <4>2, ReplayStep
        <4>4. x \in Newest(s, t, q)
          <5>1. x \in RowsOf(s, t) /\ x.run = q /\ Counts(s, x)
            BY <3>2, <4>2
          <5>2. q <= q
            BY <1>1
          <5> QED
            BY <5>1, <5>2 DEF Newest
        <4>5. ASSUME NEW y \in Newest(s, t, q) PROVE y = x
          <5>1. y.run <= q /\ q <= y.run /\ y \in RowsOf(s, t) /\ x \in RowsOf(s, t) /\ x.run = q
            BY <1>1, <3>2, <4>2, <4>5 DEF Newest
          <5>2. y.run = x.run
            BY <1>2, <2>1, <5>1
          <5> QED
            BY <1>2, <5>1, <5>2, OneRowPerRun
        <4> QED
          BY <4>3, <4>4, <4>5
      <3>4. CASE Matching(s, q, t) = {}
        <4>1. Replay(s)[q][t] = Newest(s, t, p)
          BY <3>1, <3>4, ReplayStep
        <4>2. \A x \in RowsOf(s, t) : Counts(s, x) => (x.run <= q <=> x.run <= p)
          <5> SUFFICES ASSUME NEW x \in RowsOf(s, t), Counts(s, x) PROVE x.run <= q <=> x.run <= p
            OBVIOUS
          <5>1. x.run # q /\ x.run \in Nat /\ p \in Nat
            BY <1>2, <2>1, <3>2, <3>4
          <5> QED
            BY <2>1, <5>1
        <4>3. Newest(s, t, q) = Newest(s, t, p)
          BY <4>2 DEF Newest
        <4> QED
          BY <4>1, <4>3
      <3> QED
        BY <3>3, <3>4
    <2> QED
      BY <2>1, <2>2
  <1>5. T \in SUBSET (0 .. MaxRuns)
    OBVIOUS
  <1> HIDE DEF T
  <1>6. T = 0 .. MaxRuns
    BY <1>1, <1>3, <1>4, <1>5, UpTo
  <1> QED
    BY <1>6 DEF T

\* What was told of the titles that count when r stored, as in ChartTellsWhatWasSeen.
ToldThen(s, r) ==
    {seenAt[r][s][t] : t \in {u \in Titles :
        /\ seenAt[r][s][u] \notin {Out, None}
        /\ \E x \in RowsOf(s, u) : Counts(s, x)}}

LEMMA EntryIsTold ==
    ASSUME TypeOK, RowsAreStored, Written, Remembered, Steady, NEW s \in Sources, Orderly(s),
           NEW r \in Runs, HasStored(r, s)
    PROVE  EntryAt(s, r) = LowestOf(ToldThen(s, r))
  <1> USE DEF Written, Remembered
  <1> DEFINE shownNow == UNION {Replay(s)[r][t] : t \in Titles}
             P == {x.price : x \in {y \in shownNow : InStock(y)}}
  <1>1. r \in 0 .. MaxRuns /\ r \in Nat
    BY ConstantsOK DEF ConstantsOK, Runs
  <1>2. \A t \in Titles : Replay(s)[r][t] = Newest(s, t, r)
    BY <1>1, ReplayIsNewest
  <1>3. \A t : \A x \in RowsOf(s, t) : /\ x \in rows /\ x.src = s /\ x.title = t
                                       /\ x.run \in Nat /\ x.price \in Prices
    BY ConstantsOK DEF RowsOf, TypeOK, Row, Runs, ConstantsOK
  \* The newest row up to r, if it counts, has the price seen when r stored.
  <1>4. ASSUME NEW t \in Titles, NEW x \in Newest(s, t, r)
        PROVE  seenAt[r][s][t] = x.price
    <2>1. x \in RowsOf(s, t) /\ x.run <= r /\ Counts(s, x)
      BY DEF Newest
    <2>2. seenAt[r][s][t] # None
      BY <2>1 DEF SeenAtIsSaid
    <2>3. PICK y \in RowsOf(s, t) : /\ y.price = seenAt[r][s][t] /\ y.run <= r
                                    /\ \A z \in RowsOf(s, t) : z.run <= r => Before(z, y)
      BY <2>2 DEF SeenAtIsSaid, SaidBy
    <2>4. Counts(s, y)
      BY <2>1, <2>3, SameCounts
    <2>5. y.run <= x.run
      BY <2>3, <2>4 DEF Newest
    <2>6. x.run <= y.run
      BY <1>3, <2>1, <2>3 DEF Before
    <2>7. x.run = y.run
      BY <1>3, <2>1, <2>3, <2>5, <2>6
    <2>8. x = y
      BY <1>3, <2>1, <2>3, <2>7, OneRowPerRun
    <2> QED
      BY <2>3, <2>8
  <1>5. ASSUME NEW t \in Titles, seenAt[r][s][t] # None, \E x \in RowsOf(s, t) : Counts(s, x)
        PROVE  \E x \in Newest(s, t, r) : x.price = seenAt[r][s][t]
    <2>1. PICK y \in RowsOf(s, t) : /\ y.price = seenAt[r][s][t] /\ y.run <= r
                                    /\ \A z \in RowsOf(s, t) : z.run <= r => Before(z, y)
      BY <1>5 DEF SeenAtIsSaid, SaidBy
    <2>2. Counts(s, y)
      BY <1>5, <2>1, SameCounts
    <2>3. \A z \in RowsOf(s, t) : z.run <= r => z.run <= y.run
      BY <1>3, <2>1 DEF Before
    <2>4. y \in Newest(s, t, r)
      BY <2>1, <2>2, <2>3 DEF Newest
    <2> QED
      BY <2>1, <2>4
  <1>6. P \subseteq ToldThen(s, r)
    <2> SUFFICES ASSUME NEW t \in Titles, NEW x \in Replay(s)[r][t], InStock(x)
                 PROVE  x.price \in ToldThen(s, r)
      OBVIOUS
    <2>1. x \in Newest(s, t, r) /\ x \in RowsOf(s, t) /\ Counts(s, x)
      BY <1>2 DEF Newest
    <2>2. seenAt[r][s][t] = x.price
      BY <1>4, <2>1
    <2>3. x.price # Out /\ x.price # None
      BY <1>3, <2>1, ConstantsOK DEF InStock, None, Prices, ConstantsOK, Out
    <2> QED
      BY <2>1, <2>2, <2>3 DEF ToldThen
  <1>7. ToldThen(s, r) \subseteq P
    <2> SUFFICES ASSUME NEW t \in Titles, seenAt[r][s][t] \notin {Out, None},
                        \E x \in RowsOf(s, t) : Counts(s, x)
                 PROVE  seenAt[r][s][t] \in P
      BY DEF ToldThen
    <2>1. PICK x \in Newest(s, t, r) : x.price = seenAt[r][s][t]
      BY <1>5
    <2>2. x \in Replay(s)[r][t] /\ InStock(x)
      BY <1>2, <2>1 DEF InStock
    <2> QED
      BY <2>1, <2>2
  <1>8. P = ToldThen(s, r)
    BY <1>6, <1>7
  <1> QED
    BY <1>8 DEF EntryAt, LowestIn

PointsAt(line, r) == {p \in {line[i] : i \in DOMAIN line} : p.run = r}

LEMMA AppendAt ==
    ASSUME NEW line \in Seq(Point), NEW p, NEW r
    PROVE  PointsAt(Append(line, p), r) = PointsAt(line, r) \cup {x \in {p} : x.run = r}
  <1>1. /\ DOMAIN Append(line, p) = 1 .. Len(line) + 1 /\ DOMAIN line = 1 .. Len(line)
        /\ \A i \in 1 .. Len(line) : Append(line, p)[i] = line[i]
        /\ Append(line, p)[Len(line) + 1] = p
        /\ Len(line) \in Nat
    OBVIOUS
  <1>2. 1 .. Len(line) + 1 = (1 .. Len(line)) \cup {Len(line) + 1}
    BY <1>1
  <1> DEFINE longer == Append(line, p)
  <1> HIDE DEF longer
  <1>3. {longer[i] : i \in DOMAIN longer} = {line[i] : i \in DOMAIN line} \cup {p}
    BY <1>1, <1>2 DEF longer
  <1>4. PointsAt(longer, r) = PointsAt(line, r) \cup {x \in {p} : x.run = r}
    BY <1>3 DEF PointsAt
  <1> QED
    BY <1>4 DEF longer

\* The points of run r are added at run r, and stay.
LEMMA AddedOnce ==
    ASSUME TypeOK, NEW s \in Sources, NEW pts, Series(s, pts), NEW r \in Runs
    PROVE  /\ PointsAt(Points(s), r) = PointsAt(pts[r], r)
           /\ PointsAt(pts[r - 1], r) = {}
  <1> DEFINE T == {k \in 0 .. MaxRuns :
                     PointsAt(pts[k], r) = IF k < r THEN {} ELSE PointsAt(pts[r], r)}
  <1>1. MaxRuns \in Nat /\ Runs = 1 .. MaxRuns
    BY ConstantsOK DEF ConstantsOK, Runs
  <1>2. 0 \in T
    <2>1. 0 \in 0 .. MaxRuns /\ 0 < r
      BY <1>1
    <2>2. pts[0] = << >>
      BY DEF Series
    <2>3. PointsAt(pts[0], r) = {}
      BY <2>2 DEF PointsAt
    <2> QED
      BY <2>1, <2>3
  <1>3. ASSUME NEW k \in T, k < MaxRuns PROVE k + 1 \in T
    <2>1. PICK q \in Runs : q = k + 1 /\ q - 1 = k /\ q \in 0 .. MaxRuns /\ k \in 0 .. MaxRuns
      BY <1>1, <1>3
    <2>2. pts[k] \in Seq(Point) /\ pts[q] = After(s, q, pts[k])
      BY <2>1 DEF Series
    <2>3. CASE q = r
      BY <1>1, <2>1, <2>3
    <2>4. CASE q # r
      <3>1. pts[q] = pts[k] \/ \E p : pts[q] = Append(pts[k], p) /\ p.run = q
        BY <2>2 DEF After
      <3>2. PointsAt(pts[q], r) = PointsAt(pts[k], r)
        <4>1. CASE pts[q] = pts[k]
          BY <4>1
        <4>2. ASSUME NEW p, pts[q] = Append(pts[k], p), p.run = q
              PROVE  PointsAt(pts[q], r) = PointsAt(pts[k], r)
          <5>1. {x \in {p} : x.run = r} = {}
            BY <2>4, <4>2
          <5>2. PointsAt(Append(pts[k], p), r) = PointsAt(pts[k], r) \cup {x \in {p} : x.run = r}
            BY <2>2, AppendAt
          <5> QED
            BY <4>2, <5>1, <5>2
        <4> QED
          BY <3>1, <4>1, <4>2
      <3>3. q < r <=> k < r
        BY <1>1, <2>1, <2>4
      <3>4. PointsAt(pts[k], r) = IF k < r THEN {} ELSE PointsAt(pts[r], r)
        OBVIOUS
      <3> QED
        BY <2>1, <3>2, <3>3, <3>4
    <2> QED
      BY <2>3, <2>4
  <1>4. T \in SUBSET (0 .. MaxRuns)
    OBVIOUS
  <1> HIDE DEF T
  <1>5. T = 0 .. MaxRuns
    BY <1>1, <1>2, <1>3, <1>4, UpTo
  <1> USE DEF T
  <1>6. MaxRuns \in T /\ ~(MaxRuns < r) /\ r - 1 \in T /\ r - 1 < r
    BY <1>1, <1>5
  <1>7. Points(s) = pts[MaxRuns]
    BY DEF Series
  <1> QED
    BY <1>6, <1>7

LEMMA ChartOfState ==
    ASSUME TypeOK, RowsAreStored, Written, Remembered
    PROVE  ChartTellsWhatWasSeen
  <1> SUFFICES ASSUME Steady, NEW s \in Sources, NEW r \in Runs, Orderly(s), HasStored(r, s),
                      DOMAIN unit[r][s].page # {}
               PROVE  LET told == LowestOf(ToldThen(s, r))
                          here == PointsAt(Chart[s], r)
                      IN IF told = None THEN \A p \in here : p.kind = "gap"
                         ELSE {p.price : p \in here} = {told}
    BY DEF ChartTellsWhatWasSeen, ToldThen, PointsAt
  <1>1. /\ job[r][s].status = "success"
        /\ job[r][s].parsed = Cardinality(DOMAIN unit[r][s].page)
    <2>1. \E n : job[r][s] = Success(unit[r][s], n)
      BY DEF Written, JobsFollow, JobFollows, HasStored
    <2> QED
      BY <2>1 DEF Success
  <1>2. Evaluated(s, r)
    <2>1. job[r][s].parsed \in Nat /\ job[r][s].parsed # 0
      BY <1>1, CountOfKept DEF TypeOK, Job
    <2> QED
      BY <1>1, <2>1 DEF Evaluated
  <1>3. Chart[s] = Points(s)
    BY <1>1 DEF Chart
  <1>4. EntryAt(s, r) = LowestOf(ToldThen(s, r))
    BY EntryIsTold
  <1>5. PICK pts : Series(s, pts)
    BY PointsStep
  <1>6. PointsAt(Points(s), r) = PointsAt(pts[r], r) /\ PointsAt(pts[r - 1], r) = {}
    BY <1>5, AddedOnce
  <1>7. pts[r] = After(s, r, pts[r - 1]) /\ pts[r - 1] \in Seq(Point)
    <2>1. r - 1 \in 0 .. MaxRuns
      BY ConstantsOK DEF ConstantsOK, Runs
    <2> QED
      BY <1>5, <2>1 DEF Series
  <1>8. CASE EntryAt(s, r) = None /\ pts[r - 1] = << >>
    <2>1. pts[r] = pts[r - 1]
      BY <1>7, <1>8 DEF After
    <2> QED
      BY <1>3, <1>4, <1>6, <1>8, <2>1
  <1>9. CASE ~(EntryAt(s, r) = None /\ pts[r - 1] = << >>)
    <2>1. PICK p : /\ pts[r] = Append(pts[r - 1], p)
                   /\ p.run = r /\ p.price = EntryAt(s, r)
                   /\ EntryAt(s, r) = None => p.kind = "gap"
      BY <1>2, <1>7, <1>9 DEF After
    <2>2. {x \in {p} : x.run = r} = {p}
      BY <2>1
    <2>3. PointsAt(pts[r], r) = {p}
      BY <1>6, <1>7, <2>1, <2>2, AppendAt
    <2> QED
      BY <1>3, <1>4, <1>6, <2>1, <2>3
  <1> QED
    BY <1>8, <1>9

\* Where all of a vendor's answers were stored in order, the point of a run with
\* results is the lowest price in stock of the titles that count today, as the
\* vendor had last told them when that run stored, although most prices were
\* skipped as unchanged and the criteria edited since.
THEOREM ChartIsRight == Spec => []ChartTellsWhatWasSeen
  <1>1. IInv /\ Written /\ Remembered => ChartTellsWhatWasSeen
    BY ChartOfState DEF IInv
  <1> QED
    BY <1>1, InvariantHolds, WrittenAlways, RememberedAlways, PTL
=============================================================================
