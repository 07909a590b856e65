------------------------------ MODULE MCLines ------------------------------
(* Lines for TLC: two lines and two handsets, set up earlier or to be      *)
(* paired, and two numbers nobody has yet.                                 *)
EXTENDS Lines, TLC

CONSTANTS d1, d2, l1, l2, n1, n2, n3, n4, t1, t2

OwnLine == [d \in Devices |-> IF d = d1 THEN l1 ELSE l2]
OwnNumber == [l \in Lines |-> IF l = l1 THEN n1 ELSE n2]
OneOrBoth == {{d1}, {d1, d2}}

\* Requests are interchangeable, so are the numbers nobody has, and so are the two
\* handsets with all that is theirs.
Exchange == d1 :> d2 @@ d2 :> d1 @@ l1 :> l2 @@ l2 :> l1 @@ n1 :> n2 @@ n2 :> n1
Symmetry == Permutations(Tasks) \cup Permutations({n3, n4}) \cup {Exchange}
=============================================================================
