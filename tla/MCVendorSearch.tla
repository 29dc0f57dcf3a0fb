--------------------------- MODULE MCVendorSearch ---------------------------
(***************************************************************************)
(* Instances of VendorSearch for TLC.                                      *)
(***************************************************************************)
EXTENDS VendorSearch

CONSTANTS a1, a2, o1

\* Signed-in requests are interchangeable.
Symmetry == Permutations(Requests \ Anonymous)

MCLimit  == <<1, 1>>
MCWindow == <<1, 2>>

Place(fsq, email, phone, weak, date, n) ==
  [fsq |-> fsq, email |-> email, phone |-> phone, weak |-> weak, date |-> date, place |-> n,
   cats |-> {"florist"}]

\* p2 has the address of p1 and the number of p3: the three of them are one business to some
\* searches only.  p4 has nothing but a name and a postcode.
p1 == Place("f1", "e1", None, None, 1, 1)
p2 == Place("f2", "e1", "t1", None, 2, 2)
p3 == Place("f3", None, "t1", None, 3, 3)
p4 == Place(None, None, None, "w", 0, 4)

MCResults == ({"florist"} :> {<<p1, p2, p3>>, <<p2>>}) @@ ({} :> {<<p4>>})
MCPlans   == {<<{"florist"}>>, <<{}, {}>>}

MCKnown == {<<>>}
=============================================================================
