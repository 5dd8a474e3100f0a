---------------------------- MODULE PropertyStore ----------------------------
(***************************************************************************)
(* What a bound object promises the Python code that assigns to its        *)
(* container properties.  An assignment is called and then made in a       *)
(* single step:                                                            *)
(*   - a list property is replaced, a set or map property only extended;   *)
(*   - an assignment that raises is not undone: it leaves the items behind *)
(*     the offending one applied and those before it not;                  *)
(*   - SystemError stands for an assignment that is made in full, with     *)
(*     an int beyond 64 bits in it replaced (ListItems).                   *)
(* PropertyCodec implements it with the loops of module.hpp.               *)
(***************************************************************************)
EXTENDS ListItems

CONSTANTS MaxLen,   \* bound: items of a Python list given to a property
          MaxItems  \* bound: items of a Python dict given to a property

VARIABLES listProp,  \* a std::vector property, e.g. Transaction.operations
          setProp,   \* a flat_set property, e.g. Custom.required_auths
          dictProp,  \* a flat_map property, e.g. Authority.account_auths
          call,      \* the assignment called last: "none", "list", "set" or "dict"
          arg,       \* its right-hand side
          status     \* "running" until it is made, then "ok", "raised" or "systemError"

props == <<listProp, setProp, dictProp>>
storeVars == <<listProp, setProp, dictProp, call, arg, status>>

PyList == UpTo(MaxLen, ListItem)
PyIds == UpTo(MaxLen, Value \cup {Bad})
PyDict == UpTo(MaxItems, DictItem)

Init ==
    /\ listProp = <<>>
    /\ setProp = {}
    /\ dictProp = EmptyMap
    /\ call = "none"
    /\ arg = <<>>
    /\ status = "ok"

Call(setter, a) ==
    /\ status # "running"
    /\ status' = "running"
    /\ call' = setter
    /\ arg' = a
    /\ UNCHANGED props

\* The assignment that was called ends; p is the item that stopped it, or 0. What
\* that item raises replaces an error that an item behind it left set.
Ends(setter, p, errorLeft) ==
    /\ status = "running" /\ call = setter
    /\ status' = IF p > 0 THEN "raised" ELSE IF errorLeft THEN "systemError" ELSE "ok"
    /\ UNCHANGED <<call, arg>>

\* publishers = [...], and the other lists that are bound with decode_list
AssignList ==
    \E p \in 0..Len(arg) :
        /\ Ends("list", p, LeavesError(arg, 0))
        /\ ListStopsAt(arg, p)
        /\ listProp' = Overwritten(listProp, ItemValues(arg), p)
        /\ UNCHANGED <<setProp, dictProp>>

AssignSet ==
    \E p \in 0..Len(arg) :
        /\ Ends("set", p, FALSE)
        /\ ListStopsAt(arg, p)
        /\ setProp' = Inserted(setProp, arg, p)
        /\ UNCHANGED <<listProp, dictProp>>

AssignDict ==
    \E p \in 0..Len(arg) :
        /\ Ends("dict", p, FALSE)
        /\ DictStopsAt(arg, p)
        /\ UNCHANGED <<listProp, setProp>>
        /\ \E merged \in Map :
              /\ MergedFrom(merged, dictProp, arg, p)
              /\ dictProp' \in IF p = 0 THEN {merged} ELSE DefaultInserted(merged, arg[p].key)

Next == \/ \E l \in PyList : Call("list", l)
        \/ \E l \in PyIds : Call("set", l)
        \/ \E d \in PyDict : Call("dict", d)
        \/ AssignList \/ AssignSet \/ AssignDict

Spec == Init /\ [][Next]_storeVars
=============================================================================
