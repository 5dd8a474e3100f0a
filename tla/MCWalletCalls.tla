---------------------------- MODULE MCWalletCalls ----------------------------
(* The list items whose conversions differ; Half is scaled down from 2^63. *)
EXTENDS WalletCalls

CONSTANTS a, nul

MCChar == {a, nul}

IntItem(n) == [kind |-> "int", num |-> n]
StrItem(s) == [kind |-> "str", text |-> s]

\* For the run with two threads: one item of each fate.
FewItems == {IntItem(1), IntItem(2 * Half), [kind |-> "id"]}

\* For the run on the converter: every limit of every kind.
ManyItems ==
    {IntItem(n) : n \in {-Half - 1, -Half, -1, 0, Half - 1, Half, 2 * Half - 1, 2 * Half}} \cup
    {StrItem(s) : s \in {<<>>, <<a, a>>, <<a, nul, a>>, <<nul>>}} \cup
    {[kind |-> "bool", truth |-> TRUE], [kind |-> "none"], [kind |-> "id"], [kind |-> "other"]}
=============================================================================
