--------------------------- MODULE MCSplitContext ---------------------------
(* Plans for TLC.                                                           *)
EXTENDS SplitContext

Plan(peers, names, nested) == [peers |-> peers, names |-> names, nested |-> nested]

\* Three peers split once; two peers split the initial context twice in a row,
\* or the context they got from the first call, and draw two names or one.
NestedPlans == {Plan(2, <<1, 2>>, TRUE), Plan(2, <<1, 1>>, TRUE)}
AllPlans == {Plan(3, <<1>>, FALSE), Plan(2, <<1, 2>>, FALSE), Plan(2, <<1, 1>>, FALSE)} \cup NestedPlans
=============================================================================
