--------------------------- MODULE MCPriceHistory ---------------------------
(* Instances of PriceHistory for TLC. *)
EXTENDS PriceHistory

C(t, p, c) == [title |-> t, price |-> p, cat |-> c]

\* Two titles of different categories: one changes its price while the other
\* does not, or is out of stock while the other is dearer and comes first.
MCPages == {
    << C("a", 1, "card"), C("b", 1, "foil") >>,
    << C("a", 2, "card"), C("b", 1, "foil") >>,
    << C("b", 2, "foil"), C("a", Out, "card") >> }

\* The vendor lists two variants under one title.
VariantPages == { << C("a", 1, "card"), C("a", 2, "card") >> }

MCCriteria == {
    [expected |-> {}, excluded |-> {}],
    [expected |-> {"card"}, excluded |-> {}],
    [expected |-> {}, excluded |-> {"a"}] }

\* Survivors is what the loop keeps, for pages of up to four candidates.
ASSUME SurvivorsIsTheLoop ==
    \A n \in 0 .. 4 :
        \A page \in [1 .. n -> {C(t, p, "card") : t \in Titles, p \in Prices}] :
            \A snapshot \in [Titles -> Seen] :
                LoopSurvivors(n, page, snapshot) =
                Survivors(page, {i \in 1 .. n : snapshot[page[i].title] # page[i].price})
=============================================================================
