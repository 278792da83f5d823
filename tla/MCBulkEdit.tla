----------------------------- MODULE MCBulkEdit -----------------------------
(* An instance of BulkEdit for TLC. *)
EXTENDS BulkEdit

\* Both items linked, the second with a vendor's and a typed value; then the same
\* values on an item whose ItemSource is gone, beside a linked one without any.  The
\* third item is a protected one.
R(E) == [priority |-> "low", expected |-> E, provider |-> "m1", tags |-> {}]
L(n) == [s \in Sources |-> [key |-> 1, include |-> [p \in Patterns |-> n]]]
MCStarts == {
    [row |-> <<R({}), R(Entry), R({})>>, link |-> <<L(0), L(1), L(1)>>],
    [row |-> <<R(Entry), R({}), R({})>>, link |-> <<[s \in Sources |-> NoLink], L(0), L(0)>>] }

MCObserved == {<<"v", "s">>}

\* A vendor's value to add and a priority; a typed value to take off, a tag and a
\* provider; a pattern to add and a vendor's value to take off; a pattern typed and
\* taken off at once, and a tag taken off.
MCAsks == {
    [Nothing EXCEPT !.priority = "high", !.add = {<<"v", "s">>}],
    [Nothing EXCEPT !.remove = {<<"v", "hand">>}, !.tagAdd = {"t"}, !.provider = "m2"],
    [Nothing EXCEPT !.patternAdd = {<<"s", "p">>}, !.remove = {<<"v", "s">>}],
    [Nothing EXCEPT !.patternTyped = {<<"s", "p">>}, !.patternRemove = {<<"s", "p">>}, !.tagRemove = {"t"}] }
=============================================================================
