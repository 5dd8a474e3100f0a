------------------------------ MODULE ListItems ------------------------------
(***************************************************************************)
(* What a list property is given, and what Python is told afterwards.      *)
(*                                                                         *)
(* An item of a list of variants may be an int that fits neither 64-bit    *)
(* range (VariantCodec!LeavesError).  It converts: construct stores the    *)
(* largest uint64 and returns with OverflowError set in the interpreter.   *)
(* Nothing in the loop looks at the error; the interpreter does when the   *)
(* setter returns, and raises SystemError over an assignment that is made. *)
(* Every other kind of item converts or raises.                            *)
(***************************************************************************)
EXTENDS Containers

CONSTANTS Huge,    \* an int beyond 64 bits
          Largest  \* the value that it converts to

ASSUME HugeAssumption == Huge \notin Value \cup {Bad} /\ Largest \in Value

ListItem == Value \cup {Bad, Huge}

ItemValue(item) == IF item = Huge THEN Largest ELSE item

\* The list as its items convert.
ItemValues(l) == [i \in 1..Len(l) |-> ItemValue(l[i])]

\* The loop, which has reached position p of l, has left OverflowError set.
LeavesError(l, p) == \E i \in (p + 1)..Len(l) : l[i] = Huge
=============================================================================
