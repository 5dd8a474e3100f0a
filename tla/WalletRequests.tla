--------------------------- MODULE WalletRequests ---------------------------
(***************************************************************************)
(* What a call of a Wallet method is asked to do.  A method builds and     *)
(* signs a transaction from its list argument (token data, variants) and   *)
(* publishes it if asked to, looks up a list of object identifiers, or     *)
(* publishes a transaction that was built before.                          *)
(***************************************************************************)
EXTENDS VariantCodec

CONSTANTS PyItem,  \* the Python values given in list arguments
          MaxData  \* bound: items of a list argument

\* The Python lists given to Wallet methods.
ItemLists == UNION {[1..n -> PyItem] : n \in 0..MaxData}

\* What was asked for and what the transaction carries.
Transaction == [items: Seq(PyItem), data: Seq(Variant)]

NoRequest == [method |-> "none", items |-> <<>>, publish |-> FALSE]

Request == [method: {"none", "exec", "query", "broadcast"}, items: Seq(PyItem), publish: BOOLEAN]

\* Token data is converted to variants, object identifiers are looked up by the node.
Convertible(method, item) ==
    IF method = "query" THEN item.kind = "id" ELSE VariantConvertible(item)
=============================================================================
