----------------------------- MODULE ClassTable -----------------------------
(***************************************************************************)
(* The tables of BoundClasses and OperationClasses put together: what lies *)
(* where in an object of each class.                                       *)
(***************************************************************************)
EXTENDS OperationClasses, FiniteSetsExt

Bound == CommonClasses @@ [BalanceEx |-> BalanceEx] @@ TransactionClasses @@ AccountClasses
    @@ AssetClasses @@ ChainClasses @@ MinerClasses @@ TokenClasses @@ AccountOperations
    @@ AssetOperations @@ MinerOperations @@ ProposalOperations @@ WithdrawOperations
    @@ VestingOperations @@ CustomOperations @@ ContentOperations @@ PublishingOperations
    @@ PoolOperations @@ TokenOperations

\* The classes the program can name, their attributes, and the opaque classes
\* that occur in those.
BoundClass == DOMAIN Bound \cup DOMAIN Constructors

BoundAttribute ==
    UNION {DOMAIN Bound[c] : c \in DOMAIN Bound} \cup UNION {DOMAIN Readers[c] : c \in DOMAIN Readers}

TableClass ==
    LET named(attributes) == {attributes[a].class : a \in DOMAIN attributes}
    IN (BoundClass \cup UNION {named(Bound[c]) : c \in DOMAIN Bound}) \ {"none"}

TableAttribute == LET none == [c \in TableClass |-> <<>>] IN Bound @@ none

TableAlternatives == LET none == [c \in TableClass |-> {}] IN Constructors @@ none

TableReader == LET none == [c \in TableClass |-> <<>>] IN Readers @@ none

TableAncestors ==
    LET itself == [c \in TableClass |-> {c}]
    IN [c \in DOMAIN Bases |-> {c} \cup Bases[c]] @@ itself

-----------------------------------------------------------------------------
\* <<class, place, what lies there>>: first the attributes themselves, then each
\* part replaced by what lies in it; parts nest five deep at most.
Slots ==
    LET owned(c) == {a \in DOMAIN TableAttribute[c] : TableAttribute[c][a].kind # "payload"}
        whole(c) == [kind |-> IF TableAlternatives[c] = {} THEN "opaque" ELSE "variant", class |-> c]
    IN UNION {{<<c, <<a>>, TableAttribute[c][a]>> : a \in owned(c)} : c \in DOMAIN Bound}
       \cup {<<c, <<>>, whole(c)>> : c \in TableClass \ DOMAIN Bound}

Expand(slots) ==
    UNION {IF s[3].kind # "part" THEN {s}
           ELSE {<<s[1], s[2] \o t[2], t[3]>> : t \in {u \in slots : u[1] = s[3].class}} : s \in slots}

Slots2 == Expand(Slots)
Slots4 == Expand(Slots2)
Slots8 == Expand(Slots4)

\* TableLayout[c][p]: what lies at leaf p of an object of class c.
TableLayout ==
    LET leaf(s, layout) == (s[2] :> s[3]) @@ layout
        class(c, table) == (c :> FoldSet(leaf, <<>>, {s \in Slots8 : s[1] = c})) @@ table
    IN FoldSet(class, <<>>, TableClass)
=============================================================================
