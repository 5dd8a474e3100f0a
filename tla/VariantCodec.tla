---------------------------- MODULE VariantCodec ----------------------------
(***************************************************************************)
(* variant_converter of common.cpp: how a Python value becomes the         *)
(* fc::variant stored in a token and how it is read back.                  *)
(*                                                                         *)
(* The code's integers are 64 bits wide; the model keeps the two ranges    *)
(* and their relation, with Half standing for 2^63.  Text is a sequence    *)
(* of characters, among them Nul.                                          *)
(***************************************************************************)
EXTENDS Integers, Sequences

CONSTANTS Half,  \* 2^63
          Char,  \* the characters of a Python string
          Nul    \* the character '\0'

ASSUME VariantAssumption == Half \in Nat \ {0} /\ Nul \in Char

Int64  == (-Half)..(Half - 1)
UInt64 == 0..(2 * Half - 1)

Text == Seq(Char)

\* A Python value: a bool, an int of any size, a str, None, a bound id object, or
\* something else (a float, a bytes object, ...).
PyValue ==
    [kind: {"bool"}, truth: BOOLEAN] \cup [kind: {"int"}, num: Int] \cup
    [kind: {"str"}, text: Text] \cup [kind: {"none", "id", "other"}]

Variant ==
    [type: {"bool"}, truth: BOOLEAN] \cup [type: {"int64"}, num: Int64] \cup
    [type: {"uint64"}, num: UInt64] \cup [type: {"string"}, text: Text] \cup
    [type: {"null"}]

NullVariant == [type |-> "null"]

\* variant_converter::convertible
VariantConvertible(v) == v.kind \in {"none", "bool", "int", "str"}

\* fc::variant(const char*): the text up to its first Nul.
CString(s) ==
    SubSeq(s, 1, CHOOSE n \in 0..Len(s) : /\ \A i \in 1..n : s[i] # Nul
                                          /\ n < Len(s) => s[n + 1] = Nul)

\* Mutant: the value is taken over whatever its size.
IntVariantUnbounded(n) ==
    IF n \in Int64 THEN [type |-> "int64", num |-> n] ELSE [type |-> "uint64", num |-> n]

\* PyLong_AsLongLongAndOverflow, then PyLong_AsUnsignedLongLong: an int that is in
\* neither range comes out as the largest uint64.
IntVariant(n) ==
    IF n \in Int64 THEN [type |-> "int64", num |-> n]
                   ELSE [type |-> "uint64", num |-> IF n \in UInt64 THEN n ELSE 2 * Half - 1]

\* variant_converter::construct
ToVariant(v) ==
    CASE v.kind = "bool" -> [type |-> "bool", truth |-> v.truth]
      [] v.kind = "int"  -> IntVariant(v.num)
      [] v.kind = "str"  -> [type |-> "string", text |-> CString(v.text)]
      [] OTHER           -> NullVariant

\* construct returns normally and leaves OverflowError set in the interpreter.
LeavesError(v) == v.kind = "int" /\ v.num \notin Int64 \cup UInt64

\* variant_converter::convert
FromVariant(x) ==
    CASE x.type = "bool"               -> [kind |-> "bool", truth |-> x.truth]
      [] x.type \in {"int64", "uint64"} -> [kind |-> "int", num |-> x.num]
      [] x.type = "string"             -> [kind |-> "str", text |-> x.text]
      [] OTHER                         -> [kind |-> "none"]

\* The values that come back as they went in; of the others a str is cut short
\* silently and an int is replaced with OverflowError left set.
HasNul(v) == v.kind = "str" /\ \E i \in 1..Len(v.text) : v.text[i] = Nul

SurvivesRoundTrip(v) == FromVariant(ToVariant(v)) = v
=============================================================================
