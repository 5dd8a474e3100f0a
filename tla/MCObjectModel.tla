--------------------------- MODULE MCObjectModel ---------------------------
(* ObjectModel with the classes of the binding, on small programs. *)
EXTENDS ClassTable, ObjectModel

\* The tables of ClassTable for the parameters of ObjectModel.  TLC keeps the value
\* of a definition, and the LET keeps its coverage statistics out of the tables.
MCClass            == LET it == TableClass IN it
MCAttribute        == LET it == TableAttribute IN it
MCLayout           == LET it == TableLayout IN it
MCAncestors        == LET it == TableAncestors IN it
MCAlternatives     == LET it == TableAlternatives IN it
MCFirstAlternative == LET it == Defaults IN it
MCReader           == LET it == TableReader IN it
MCNotConstructible == LET it == NoInit IN it
MCEveryClass       == LET it == BoundClass IN it
MCEveryAttribute   == LET it == BoundAttribute IN it

\* Variables and storage are interchangeable.
Symmetry == Permutations(Var) \cup Permutations(Oid)
=============================================================================
