---------------------------- MODULE PropertyCodec ----------------------------
(***************************************************************************)
(* The setters behind the container properties of a bound object           *)
(* (decode_list, decode_set, decode_dict of module.hpp), one action per    *)
(* iteration of their loops.  The object survives an exception: Python     *)
(* code that catches it goes on with whatever the loop left behind, and    *)
(* assigns again.                                                          *)
(*                                                                         *)
(* One object with one property of each kind; the setters never touch      *)
(* another property, and the GIL is held from call to return, so calls on  *)
(* one object are never interleaved.                                       *)
(***************************************************************************)
EXTENDS ListItems

CONSTANTS MaxLen,   \* bound: items of a Python list given to a property
          MaxItems  \* bound: items of a Python dict given to a property

VARIABLES listField, setField, dictField,  \* obj.*container, of each kind
          call,    \* the setter called last: "none", "list", "set" or "dict"
          status,  \* how far it is: "running", "ok", "raised" or "systemError"
          arg,     \* its argument
          len,     \* its loop counter: items len + 1 .. Len(arg) are done
          pyerr,   \* an OverflowError is set that nobody has looked at
          before   \* history: the fields when it was called

fields == <<listField, setField, dictField>>
vars == <<listField, setField, dictField, call, status, arg, len, pyerr, before>>

ASSUME BoundsAssumption == MaxLen \in Nat /\ MaxItems \in Nat

PyList == UpTo(MaxLen, ListItem)
PyIds == UpTo(MaxLen, Value \cup {Bad})
PyDict == UpTo(MaxItems, DictItem)

Fields == [list: Seq(Value), set: SUBSET Value, dict: Map]

TypeOK ==
    /\ listField \in Seq(Value)
    /\ setField \in SUBSET Value
    /\ dictField \in Map
    /\ call \in {"none", "list", "set", "dict"}
    /\ status \in {"running", "ok", "raised", "systemError"}
    /\ call \in {"none", "list"} => arg \in PyList
    /\ call = "set" => arg \in PyIds
    /\ call = "dict" => arg \in PyDict
    /\ len \in 0..Len(arg)
    /\ pyerr \in BOOLEAN
    /\ before \in Fields

Init ==
    /\ listField = <<>>
    /\ setField = {}
    /\ dictField = EmptyMap
    /\ call = "none"
    /\ status = "ok"
    /\ arg = <<>>
    /\ len = 0
    /\ pyerr = FALSE
    /\ before = [list |-> <<>>, set |-> {}, dict |-> EmptyMap]

-----------------------------------------------------------------------------
Begin(setter, a) ==
    /\ status # "running"
    /\ call' = setter
    /\ status' = "running"
    /\ arg' = a
    /\ len' = Len(a)
    /\ before' = [list |-> listField, set |-> setField, dict |-> dictField]
    /\ UNCHANGED pyerr

\* Mutant: the container is not resized before the loop.
CallDecodeListUnresized(l) == Begin("list", l) /\ UNCHANGED fields

\* auto len = bp::len(l); (obj.*container).resize(len);
CallDecodeList(l) ==
    /\ Begin("list", l)
    /\ listField' = Resized(listField, Len(l))
    /\ UNCHANGED <<setField, dictField>>

\* Mutant: the container is cleared first, as its callers might expect.
CallDecodeSetClearing(l) ==
    /\ Begin("set", l)
    /\ setField' = {}
    /\ UNCHANGED <<listField, dictField>>

\* auto len = bp::len(l);
CallDecodeSet(l) == Begin("set", l) /\ UNCHANGED fields

\* l = d.keys(); auto len = bp::len(l);
CallDecodeDict(d) == Begin("dict", d) /\ UNCHANGED fields

\* while(len--): one more iteration of the loop of the given setter.
Iterating(setter) == status = "running" /\ call = setter /\ len > 0

\* Mutant: the loop tests its counter and does not step it.
ConvertedInPlace == UNCHANGED <<len, call, status, arg, before>>

\* The iteration converts its item: the loop goes on.
Converted == len' = len - 1 /\ UNCHANGED <<call, status, arg, before>>

\* extract<...>() sets TypeError, in place of any error that was set, and throws
\* error_already_set out of the setter.
Raised == status' = "raised" /\ pyerr' = FALSE /\ UNCHANGED <<call, arg, len, before>>

\* Mutant: the item is used without a check that it converts.
DecodeListItemUnchecked ==
    /\ Iterating("list")
    /\ listField' = [listField EXCEPT ![len] = ItemValue(arg[len])]
    /\ pyerr' = (pyerr \/ arg[len] = Huge)
    /\ Converted
    /\ UNCHANGED <<setField, dictField>>

\* Mutant: the list is read from its other end.
DecodeListItemReversed ==
    /\ Iterating("list")
    /\ arg[len] # Bad
    /\ listField' = [listField EXCEPT ![len] = ItemValue(arg[Len(arg) + 1 - len])]
    /\ pyerr' = (pyerr \/ arg[len] = Huge)
    /\ Converted
    /\ UNCHANGED <<setField, dictField>>

\* The loop goes on over an error that is set: neither len(), l[len] with an index in
\* range nor the conversion of a good item looks at it.
DecodeListItem ==
    /\ Iterating("list")
    /\ arg[len] # Bad
    /\ listField' = [listField EXCEPT ![len] = ItemValue(arg[len])]
    /\ pyerr' = (pyerr \/ arg[len] = Huge)
    /\ Converted
    /\ UNCHANGED <<setField, dictField>>

DecodeSetItem ==
    /\ Iterating("set")
    /\ arg[len] # Bad
    /\ setField' = setField \cup {arg[len]}
    /\ Converted
    /\ UNCHANGED <<listField, dictField, pyerr>>

\* Mutant: insert(), which keeps the value a key already has, for operator[].
DecodeDictItemInserting ==
    /\ Iterating("dict")
    /\ ~BadItem(arg[len])
    /\ dictField' = IF dictField[arg[len].key] # Absent THEN dictField
                    ELSE [dictField EXCEPT ![arg[len].key] = arg[len].value]
    /\ Converted
    /\ UNCHANGED <<listField, setField, pyerr>>

DecodeDictItem ==
    /\ Iterating("dict")
    /\ ~BadItem(arg[len])
    /\ dictField' = [dictField EXCEPT ![arg[len].key] = arg[len].value]
    /\ Converted
    /\ UNCHANGED <<listField, setField, pyerr>>

DecodeListRaises == Iterating("list") /\ arg[len] = Bad /\ Raised /\ UNCHANGED fields

DecodeSetRaises == Iterating("set") /\ arg[len] = Bad /\ Raised /\ UNCHANGED fields

\* The two operands of container[key] = v() are evaluated in either order.
DecodeDictRaises ==
    /\ Iterating("dict")
    /\ BadItem(arg[len])
    /\ dictField' \in DefaultInserted(dictField, arg[len].key)
    /\ Raised
    /\ UNCHANGED <<listField, setField>>

\* The setter returns None; the interpreter, which finds an error set all the same,
\* raises SystemError.
Return ==
    /\ status = "running"
    /\ len = 0
    /\ status' = IF pyerr THEN "systemError" ELSE "ok"
    /\ pyerr' = FALSE
    /\ UNCHANGED <<listField, setField, dictField, call, arg, len, before>>

Step == \/ DecodeListItem \/ DecodeSetItem \/ DecodeDictItem
        \/ DecodeListRaises \/ DecodeSetRaises \/ DecodeDictRaises
        \/ Return

Next == \/ \E l \in PyList : CallDecodeList(l)
        \/ \E l \in PyIds : CallDecodeSet(l)
        \/ \E d \in PyDict : CallDecodeDict(d)
        \/ Step

\* A setter that was called is run to its end by the thread that called it.
Spec == Init /\ [][Next]_vars /\ WF_vars(Step)

-----------------------------------------------------------------------------
\* No item the loop has passed was a bad one, an error is set from the first huge one
\* on, and the loop stopped where the status says: at the front when it returned, at
\* a bad item when it raised.
StopInv ==
    /\ IF call = "dict" THEN \A i \in (len + 1)..Len(arg) : ~BadItem(arg[i])
                        ELSE \A i \in (len + 1)..Len(arg) : arg[i] # Bad
    /\ pyerr <=> status = "running" /\ call = "list" /\ LeavesError(arg, len)
    /\ call = "none" => status = "ok"
    /\ status = "ok" => len = 0 /\ (call = "list" => ~LeavesError(arg, 0))
    /\ status = "systemError" => len = 0 /\ call = "list" /\ LeavesError(arg, 0)
    /\ status = "raised" => /\ len > 0
                           /\ IF call = "dict" THEN BadItem(arg[len]) ELSE arg[len] = Bad

ListInv == listField = IF call = "list" THEN Overwritten(before.list, ItemValues(arg), len)
                                        ELSE before.list

SetInv == setField = IF call = "set" THEN Inserted(before.set, arg, len)
                                     ELSE before.set

DictInv ==
    CASE call = "dict" /\ status = "raised" ->
            \E m \in Map : /\ MergedFrom(m, before.dict, arg, len)
                           /\ dictField \in DefaultInserted(m, arg[len].key)
      [] call = "dict" /\ status # "raised" -> MergedFrom(dictField, before.dict, arg, len)
      [] OTHER -> dictField = before.dict

\* The loops of module.hpp:37-86, at every iteration and after an exception: the
\* items behind the loop counter are in the property, the ones before it are
\* not, and the fields of other kinds are as the call found them.  In
\* particular an exception leaves a property half assigned in exactly this way.
LoopInv == StopInv /\ ListInv /\ SetInv /\ DictInv

\* After an assignment that succeeded the property holds what was assigned,
\* whatever earlier assignments (failed ones too) left in it: a list property
\* nothing else, a set or map property its old content as well; of two items
\* with one C++ key the earlier wins.  SystemError is told of an assignment to a list
\* property that was made too, up to the ints that do not fit.
ReadBack ==
    /\ status = "ok" =>
        /\ call = "list" => listField = arg
        /\ call = "set" => \A i \in 1..Len(arg) : arg[i] \in setField
        /\ call = "dict" => \A i \in 1..Len(arg) :
                             FirstWith(arg, 0, arg[i].key, i) => dictField[arg[i].key] = arg[i].value
    /\ status = "systemError" => call = "list" /\ listField = ItemValues(arg)

\* decode_set and decode_dict have no clear(): no sequence of assignments, failed
\* ones included, takes an element out of a set property or a key out of a map
\* property, so an authority's signer can be added or re-weighted but not dropped.
NothingRemoved ==
    [][ /\ setField \subseteq setField'
        /\ \A k \in Key : dictField[k] # Absent => dictField'[k] # Absent ]_vars

\* Every iteration takes one step of a setter that Python sees as a single one:
\* a call is PropertyStore's assignment, made when it returns or raises.
Running(setter) == status = "running" /\ call = setter

Store == INSTANCE PropertyStore WITH
    listProp <- IF Running("list") THEN before.list ELSE listField,
    setProp  <- IF Running("set") THEN before.set ELSE setField,
    dictProp <- IF Running("dict") THEN before.dict ELSE dictField

\* The setters of module.hpp:37-86 implement PropertyStore: seen from Python, an
\* assignment is atomic, and of its argument it has exactly the effects, and is
\* answered in exactly the ways, that PropertyStore allows: SystemError over an int
\* that does not fit included.
RefinesStore == Store!Init /\ [][Store!Next]_(Store!storeVars)

\* while(len--) ends: a setter that was called returns or raises.
CallEnds == (status = "running") ~> (status # "running")
=============================================================================
