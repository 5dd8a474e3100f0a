------------------------- MODULE PropertyCodecProofs -------------------------
(***************************************************************************)
(* Theorems about PropertyCodec, for every set of values and keys and for  *)
(* arguments of every length.  The first part is lemmas about the          *)
(* operators of Containers, the second the invariants, the third that      *)
(* PropertyCodec implements PropertyStore.                                 *)
(***************************************************************************)
EXTENDS PropertyCodec, SequenceTheorems, TLAPS

-----------------------------------------------------------------------------
\* A bounded sequence is a sequence.
LEMMA UpToIsSeq ==
    ASSUME NEW n \in Nat, NEW S, NEW s \in UpTo(n, S)
    PROVE  s \in Seq(S) /\ Len(s) \in Nat /\ s \in [1..Len(s) -> S]
<1>1. PICK m \in 0..n : s \in [1..m -> S]
  BY DEF UpTo
<1>2. m \in Nat
  BY <1>1
<1>3. s \in Seq(S)
  BY <1>1, <1>2, SeqDef
<1>. QED
  BY <1>3

\* resize(n) yields a vector of n elements.
LEMMA ResizedType ==
    ASSUME NEW s \in Seq(Value), NEW n \in Nat
    PROVE  Resized(s, n) \in Seq(Value) /\ Len(Resized(s, n)) = n
<1>1. \A i \in 1..n : (IF i <= Len(s) THEN s[i] ELSE Fill) \in Value
  BY ContainersAssumption
<1>2. Resized(s, n) \in [1..n -> Value]
  BY <1>1 DEF Resized
<1>3. Resized(s, n) \in Seq(Value)
  BY <1>2, SeqDef
<1>. QED
  BY <1>2, <1>3

\* Before its first iteration the list loop has only resized the vector.
LEMMA OverwrittenStart ==
    ASSUME NEW old, NEW S, NEW l \in Seq(S)
    PROVE  Overwritten(old, l, Len(l)) = Resized(old, Len(l))
  BY DEF Overwritten, Resized

\* One iteration of the list loop extends the written tail by one element.
LEMMA OverwrittenStep ==
    ASSUME NEW old, NEW S, NEW l \in Seq(S), NEW p \in 1..Len(l)
    PROVE  [Overwritten(old, l, p) EXCEPT ![p] = l[p]] = Overwritten(old, l, p - 1)
<1>. DEFINE L == [Overwritten(old, l, p) EXCEPT ![p] = l[p]]
            R == Overwritten(old, l, p - 1)
<1>1. DOMAIN L = 1..Len(l) /\ DOMAIN R = 1..Len(l)
  BY DEF Overwritten
<1>2. \A i \in 1..Len(l) : L[i] = R[i]
  BY DEF Overwritten
<1>3. L = [i \in 1..Len(l) |-> L[i]] /\ R = [i \in 1..Len(l) |-> R[i]]
  BY <1>1 DEF Overwritten
<1>. QED
  BY <1>2, <1>3

\* After its last iteration the vector is the list, whatever it was before.
LEMMA OverwrittenEnd ==
    ASSUME NEW old, NEW S, NEW l \in Seq(S)
    PROVE  Overwritten(old, l, 0) = l
<1>1. Overwritten(old, l, 0) = [i \in 1..Len(l) |-> l[i]]
  BY DEF Overwritten
<1>2. l = [i \in 1..Len(l) |-> l[i]]
  OBVIOUS
<1>. QED
  BY <1>1, <1>2

\* One iteration of the set loop adds one element.
LEMMA InsertedStep ==
    ASSUME NEW old, NEW S, NEW l \in Seq(S), NEW p \in 1..Len(l)
    PROVE  Inserted(old, l, p) \cup {l[p]} = Inserted(old, l, p - 1)
<1>1. (p - 1) + 1 = p
  OBVIOUS
<1>2. p..Len(l) = (p + 1)..Len(l) \cup {p}
  OBVIOUS
<1>. QED
  BY <1>1, <1>2 DEF Inserted

\* Before its first iteration the set loop has inserted nothing.
LEMMA InsertedStart ==
    ASSUME NEW old, NEW S, NEW l \in Seq(S)
    PROVE  Inserted(old, l, Len(l)) = old
<1>1. (Len(l) + 1)..Len(l) = {}
  OBVIOUS
<1>. QED
  BY <1>1 DEF Inserted

\* Before its first iteration the dict loop has merged nothing.
LEMMA MergedStart ==
    ASSUME NEW old \in Map, NEW d \in Seq(DictItem)
    PROVE  MergedFrom(old, old, d, Len(d))
  BY DEF MergedFrom, FirstWith

\* One iteration of the dict loop makes its item the earliest one met.
LEMMA MergedStep ==
    ASSUME NEW old \in Map, NEW m \in Map, NEW d \in Seq(DictItem), NEW p \in 1..Len(d),
           MergedFrom(m, old, d, p), d[p].key \in Key
    PROVE  MergedFrom([m EXCEPT ![d[p].key] = d[p].value], old, d, p - 1)
<1>. DEFINE n == [m EXCEPT ![d[p].key] = d[p].value]
<1>. SUFFICES ASSUME NEW k \in Key
              PROVE  /\ \A i \in 1..Len(d) : FirstWith(d, p - 1, k, i) => n[k] = d[i].value
                     /\ (\A i \in ((p - 1) + 1)..Len(d) : d[i].key # k) => n[k] = old[k]
  BY DEF MergedFrom
<1>1. CASE k = d[p].key
  <2>1. n[k] = d[p].value
    BY <1>1 DEF Map
  <2>2. ASSUME NEW i \in 1..Len(d), FirstWith(d, p - 1, k, i) PROVE i = p
    BY <1>1, <2>2 DEF FirstWith
  <2>. QED
    BY <1>1, <2>1, <2>2
<1>2. CASE k # d[p].key
  <2>1. n[k] = m[k]
    BY <1>2 DEF Map
  <2>2. ASSUME NEW i \in 1..Len(d), FirstWith(d, p - 1, k, i) PROVE FirstWith(d, p, k, i)
    BY <1>2, <2>2 DEF FirstWith
  <2>. QED
    BY <2>1, <2>2 DEF MergedFrom
<1>. QED
  BY <1>1, <1>2

\* The items of a list that raise nothing convert to values.
LEMMA ItemValuesType ==
    ASSUME NEW l \in Seq(ListItem)
    PROVE  /\ ItemValues(l) \in Seq(Value \cup {Bad}) /\ Len(ItemValues(l)) = Len(l)
           /\ \A i \in 1..Len(l) : ItemValues(l)[i] = ItemValue(l[i])
           /\ \A i \in 1..Len(l) : l[i] # Bad => ItemValue(l[i]) \in Value
<1>1. \A i \in 1..Len(l) : l[i] \in ListItem
  OBVIOUS
<1>2. \A i \in 1..Len(l) : ItemValue(l[i]) \in Value \cup {Bad}
  BY <1>1, HugeAssumption DEF ListItem, ItemValue
<1>3. ItemValues(l) \in [1..Len(l) -> Value \cup {Bad}]
  BY <1>2 DEF ItemValues
<1>4. ItemValues(l) \in Seq(Value \cup {Bad}) /\ Len(ItemValues(l)) = Len(l)
  BY <1>3, SeqDef
<1>5. \A i \in 1..Len(l) : l[i] # Bad => ItemValue(l[i]) \in Value
  BY <1>1, HugeAssumption DEF ListItem, ItemValue
<1>. QED
  BY <1>4, <1>5 DEF ItemValues

\* A list without an int that does not fit converts to itself.
LEMMA ItemValuesSame ==
    ASSUME NEW l \in Seq(ListItem), ~LeavesError(l, 0)
    PROVE  ItemValues(l) = l
<1>1. \A i \in 1..Len(l) : l[i] # Huge
  BY DEF LeavesError
<1>2. ItemValues(l) = [i \in 1..Len(l) |-> l[i]]
  BY <1>1 DEF ItemValues, ItemValue
<1>3. l = [i \in 1..Len(l) |-> l[i]]
  OBVIOUS
<1>. QED
  BY <1>2, <1>3

\* An error is left behind by the item just done or by one done before.
LEMMA LeavesErrorStep ==
    ASSUME NEW S, NEW l \in Seq(S), NEW p \in 1..Len(l)
    PROVE  LeavesError(l, p - 1) <=> LeavesError(l, p) \/ l[p] = Huge
<1>1. (p - 1) + 1 = p
  OBVIOUS
<1>2. p..Len(l) = (p + 1)..Len(l) \cup {p}
  OBVIOUS
<1>. QED
  BY <1>1, <1>2 DEF LeavesError

-----------------------------------------------------------------------------
\* What a call starts from, given the type invariant.
LEMMA ArgTypes ==
    /\ \A l \in PyList : l \in Seq(ListItem) /\ Len(l) \in Nat
    /\ \A l \in PyIds : l \in Seq(Value \cup {Bad}) /\ Len(l) \in Nat
    /\ \A d \in PyDict : d \in Seq(DictItem) /\ Len(d) \in Nat
<1>1. \A l \in UpTo(MaxLen, ListItem) : l \in Seq(ListItem) /\ Len(l) \in Nat
  BY UpToIsSeq, BoundsAssumption
<1>2. \A l \in UpTo(MaxLen, Value \cup {Bad}) : l \in Seq(Value \cup {Bad}) /\ Len(l) \in Nat
  BY UpToIsSeq, BoundsAssumption
<1>3. \A d \in UpTo(MaxItems, DictItem) : d \in Seq(DictItem) /\ Len(d) \in Nat
  BY UpToIsSeq, BoundsAssumption
<1>. QED
  BY <1>1, <1>2, <1>3 DEF PyList, PyIds, PyDict

\* An item that raises nothing is a key with its value.
LEMMA GoodItem ==
    ASSUME NEW item \in DictItem, ~BadItem(item)
    PROVE  item.key \in Key /\ item.value \in Value
  BY DEF DictItem, BadItem

\* A default insertion keeps a map property a map property.
LEMMA DefaultInsertedType ==
    ASSUME NEW m \in Map, NEW k, NEW n \in DefaultInserted(m, k)
    PROVE  n \in Map
  BY ContainersAssumption DEF DefaultInserted, Map

\* A list property with one element replaced by a converted item is a list property.
LEMMA ReplacedType ==
    ASSUME NEW s \in Seq(Value), NEW p \in Nat, NEW v \in Value
    PROVE  [s EXCEPT ![p] = v] \in Seq(Value)
<1>1. s \in [1..Len(s) -> Value] /\ Len(s) \in Nat
  OBVIOUS
<1>2. [s EXCEPT ![p] = v] \in [1..Len(s) -> Value]
  BY <1>1
<1>. QED
  BY <1>1, <1>2, SeqDef

\* Type correctness is inductive on its own: a step writes converted items only.
LEMMA TypeStep == TypeOK /\ [Next]_vars => TypeOK'
<1>. SUFFICES ASSUME TypeOK, [Next]_vars PROVE TypeOK'
  OBVIOUS
<1>. USE DEF TypeOK, Fields
<1>1. ASSUME NEW l \in PyList, CallDecodeList(l) PROVE TypeOK'
  <2>1. l \in Seq(ListItem) /\ Len(l) \in Nat
    BY ArgTypes
  <2>2. listField' \in Seq(Value)
    BY <1>1, <2>1, ResizedType DEF CallDecodeList
  <2>. QED
    BY <1>1, <2>1, <2>2 DEF CallDecodeList, Begin
<1>2. ASSUME NEW l \in PyIds, CallDecodeSet(l) PROVE TypeOK'
  BY <1>2, ArgTypes DEF CallDecodeSet, Begin, fields
<1>3. ASSUME NEW d \in PyDict, CallDecodeDict(d) PROVE TypeOK'
  BY <1>3, ArgTypes DEF CallDecodeDict, Begin, fields
<1>4. CASE DecodeListItem
  <2>1. arg \in Seq(ListItem) /\ Len(arg) \in Nat /\ len \in 1..Len(arg)
    BY <1>4, ArgTypes DEF DecodeListItem, Iterating
  <2>2. ItemValue(arg[len]) \in Value
    BY <1>4, <2>1, ItemValuesType DEF DecodeListItem
  <2>3. listField' \in Seq(Value)
    BY <1>4, <2>1, <2>2, ReplacedType DEF DecodeListItem
  <2>. QED
    BY <1>4, <2>1, <2>3 DEF DecodeListItem, Converted
<1>5. CASE DecodeSetItem
  <2>1. arg \in Seq(Value \cup {Bad}) /\ Len(arg) \in Nat /\ len \in 1..Len(arg)
    BY <1>5, ArgTypes DEF DecodeSetItem, Iterating
  <2>. QED
    BY <1>5, <2>1 DEF DecodeSetItem, Converted
<1>6. CASE DecodeDictItem
  <2>1. arg \in Seq(DictItem) /\ Len(arg) \in Nat /\ len \in 1..Len(arg)
    BY <1>6, ArgTypes DEF DecodeDictItem, Iterating
  <2>2. arg[len] \in DictItem
    BY <2>1
  <2>3. arg[len].value \in Value
    BY <1>6, <2>2 DEF DecodeDictItem, BadItem, DictItem
  <2>4. dictField' \in Map
    BY <1>6, <2>3 DEF DecodeDictItem, Map
  <2>. QED
    BY <1>6, <2>1, <2>4 DEF DecodeDictItem, Converted
<1>7. CASE DecodeListRaises
  BY <1>7 DEF DecodeListRaises, Raised, fields
<1>8. CASE DecodeSetRaises
  BY <1>8 DEF DecodeSetRaises, Raised, fields
<1>9. CASE DecodeDictRaises
  BY <1>9, DefaultInsertedType DEF DecodeDictRaises, Raised
<1>10. CASE Return
  BY <1>10 DEF Return
<1>11. CASE UNCHANGED vars
  BY <1>11 DEF vars
<1>. QED
  BY <1>1, <1>2, <1>3, <1>4, <1>5, <1>6, <1>7, <1>8, <1>9, <1>10, <1>11 DEF Next, Step

LEMMA TypeInit == Init => TypeOK
<1>1. EmptyMap \in Map
  BY DEF EmptyMap, Map
<1>2. <<>> \in PyList
  <2>1. <<>> \in [1..0 -> ListItem]
    OBVIOUS
  <2>. QED
    BY <2>1, BoundsAssumption DEF PyList, UpTo
<1>3. Init => before \in Fields
  BY <1>1 DEF Init, Fields
<1>4. Init => len \in 0..Len(arg) /\ listField \in Seq(Value)
  BY DEF Init
<1>. QED
  BY <1>1, <1>2, <1>3, <1>4 DEF Init, TypeOK

\* The fields, the call and its loop counter always have their types: no
\* iteration writes something that is not a converted value.
THEOREM TypeCorrect == Spec => []TypeOK
  BY TypeInit, TypeStep, PTL DEF Spec

-----------------------------------------------------------------------------
LEMMA LoopInit == Init => LoopInv
  BY DEF Init, LoopInv, StopInv, ListInv, SetInv, DictInv

\* A call establishes the loop invariant with every item still to do.
LEMMA LoopCall ==
    ASSUME TypeOK, LoopInv,
           \/ \E l \in PyList : CallDecodeList(l)
           \/ \E l \in PyIds : CallDecodeSet(l)
           \/ \E d \in PyDict : CallDecodeDict(d)
    PROVE  LoopInv'
<1>. USE DEF LeavesError
<1>1. ASSUME NEW l \in PyList, CallDecodeList(l) PROVE LoopInv'
  <2>1. /\ l \in Seq(ListItem) /\ Len(l) \in Nat
        /\ ItemValues(l) \in Seq(Value \cup {Bad}) /\ Len(ItemValues(l)) = Len(l)
    BY ArgTypes, ItemValuesType
  <2>2. StopInv'
    BY <1>1, <2>1 DEF LoopInv, StopInv, CallDecodeList, Begin
  <2>3. ListInv'
    BY <1>1, <2>1, OverwrittenStart DEF ListInv, CallDecodeList, Begin
  <2>4. SetInv' /\ DictInv'
    BY <1>1 DEF SetInv, DictInv, CallDecodeList, Begin
  <2>. QED
    BY <2>2, <2>3, <2>4 DEF LoopInv
<1>2. ASSUME NEW l \in PyIds, CallDecodeSet(l) PROVE LoopInv'
  <2>1. l \in Seq(Value \cup {Bad}) /\ Len(l) \in Nat
    BY ArgTypes
  <2>2. StopInv'
    BY <1>2, <2>1 DEF LoopInv, StopInv, CallDecodeSet, Begin, fields
  <2>3. SetInv'
    BY <1>2, <2>1, InsertedStart DEF SetInv, CallDecodeSet, Begin, fields
  <2>4. ListInv' /\ DictInv'
    BY <1>2 DEF ListInv, DictInv, CallDecodeSet, Begin, fields
  <2>. QED
    BY <2>2, <2>3, <2>4 DEF LoopInv
<1>3. ASSUME NEW d \in PyDict, CallDecodeDict(d) PROVE LoopInv'
  <2>1. d \in Seq(DictItem) /\ Len(d) \in Nat
    BY ArgTypes
  <2>2. StopInv'
    BY <1>3, <2>1 DEF LoopInv, StopInv, CallDecodeDict, Begin, fields
  <2>3. DictInv'
    BY <1>3, <2>1, MergedStart DEF TypeOK, DictInv, CallDecodeDict, Begin, fields
  <2>4. ListInv' /\ SetInv'
    BY <1>3 DEF ListInv, SetInv, CallDecodeDict, Begin, fields
  <2>. QED
    BY <2>2, <2>3, <2>4 DEF LoopInv
<1>. QED
  BY <1>1, <1>2, <1>3

\* An iteration, an exception and the return keep it.
LEMMA LoopStep == ASSUME TypeOK, LoopInv, Step PROVE LoopInv'
<1>1. CASE DecodeListItem
  <2>1. arg \in Seq(ListItem) /\ len \in 1..Len(arg) /\ call = "list"
    BY <1>1, ArgTypes DEF DecodeListItem, Iterating, TypeOK
  <2>2. /\ ItemValues(arg) \in Seq(Value \cup {Bad}) /\ Len(ItemValues(arg)) = Len(arg)
        /\ ItemValues(arg)[len] = ItemValue(arg[len])
    BY <2>1, ItemValuesType
  <2>3. StopInv'
    <3>1. LeavesError(arg, len - 1) <=> LeavesError(arg, len) \/ arg[len] = Huge
      BY <2>1, LeavesErrorStep
    <3>2. \A i \in ((len - 1) + 1)..Len(arg) : arg[i] # Bad
      BY <1>1, <2>1 DEF StopInv, DecodeListItem, LoopInv
    <3>3. pyerr' <=> status' = "running" /\ call' = "list" /\ LeavesError(arg', len')
      <4>1. pyerr <=> LeavesError(arg, len)
        BY <1>1, <2>1 DEF StopInv, LoopInv, DecodeListItem, Iterating
      <4>2. pyerr' <=> LeavesError(arg, len - 1)
        BY <1>1, <3>1, <4>1 DEF DecodeListItem
      <4>. QED
        BY <1>1, <2>1, <4>2 DEF DecodeListItem, Converted, Iterating
    <3>. QED
      BY <1>1, <2>1, <3>2, <3>3 DEF StopInv, DecodeListItem, Converted, Iterating
  <2>4. ListInv'
    <3>1. [Overwritten(before.list, ItemValues(arg), len) EXCEPT ![len] = ItemValues(arg)[len]]
             = Overwritten(before.list, ItemValues(arg), len - 1)
      BY <2>1, <2>2, OverwrittenStep
    <3>. QED
      BY <1>1, <2>1, <2>2, <3>1 DEF ListInv, DecodeListItem, Converted, LoopInv
  <2>5. SetInv' /\ DictInv'
    BY <1>1, <2>1 DEF SetInv, DictInv, DecodeListItem, Converted, LoopInv
  <2>. QED
    BY <2>3, <2>4, <2>5 DEF LoopInv
<1>2. CASE DecodeSetItem
  <2>1. arg \in Seq(Value \cup {Bad}) /\ len \in 1..Len(arg) /\ call = "set"
    BY <1>2, ArgTypes DEF DecodeSetItem, Iterating, TypeOK
  <2>2. StopInv'
    BY <1>2, <2>1 DEF StopInv, DecodeSetItem, Converted, Iterating, LoopInv
  <2>3. SetInv'
    BY <1>2, <2>1, InsertedStep DEF SetInv, DecodeSetItem, Converted, LoopInv
  <2>4. ListInv' /\ DictInv'
    BY <1>2, <2>1 DEF ListInv, DictInv, DecodeSetItem, Converted, LoopInv
  <2>. QED
    BY <2>2, <2>3, <2>4 DEF LoopInv
<1>3. CASE DecodeDictItem
  <2>1. arg \in Seq(DictItem) /\ len \in 1..Len(arg) /\ call = "dict"
    BY <1>3, ArgTypes DEF DecodeDictItem, Iterating, TypeOK
  <2>2. StopInv'
    BY <1>3, <2>1 DEF StopInv, DecodeDictItem, Converted, Iterating, LoopInv
  <2>3. MergedFrom(dictField, before.dict, arg, len) /\ before.dict \in Map
    BY <1>3, <2>1 DEF DictInv, LoopInv, DecodeDictItem, Iterating, TypeOK, Fields
  <2>4. arg[len].key \in Key
    <3>1. arg[len] \in DictItem
      BY <2>1
    <3>. QED
      BY <1>3, <3>1, GoodItem DEF DecodeDictItem
  <2>5. MergedFrom(dictField, before.dict, arg, len)'
    BY <1>3, <2>1, <2>3, <2>4, MergedStep DEF DecodeDictItem, Converted, TypeOK
  <2>6. DictInv'
    BY <1>3, <2>1, <2>5 DEF DictInv, DecodeDictItem, Converted, Iterating
  <2>7. ListInv' /\ SetInv'
    BY <1>3, <2>1 DEF ListInv, SetInv, DecodeDictItem, Converted, LoopInv
  <2>. QED
    BY <2>2, <2>6, <2>7 DEF LoopInv
<1>4. CASE DecodeListRaises
  BY <1>4 DEF DecodeListRaises, Iterating, Raised, fields, LoopInv, StopInv, ListInv, SetInv, DictInv
<1>5. CASE DecodeSetRaises
  BY <1>5 DEF DecodeSetRaises, Iterating, Raised, fields, LoopInv, StopInv, ListInv, SetInv, DictInv
<1>6. CASE DecodeDictRaises
  <2>1. StopInv'
    BY <1>6 DEF StopInv, DecodeDictRaises, Iterating, Raised, LoopInv
  <2>2. MergedFrom(dictField, before.dict, arg, len) /\ dictField \in Map
    BY <1>6 DEF DictInv, LoopInv, DecodeDictRaises, Iterating, TypeOK
  <2>3. DictInv'
    BY <1>6, <2>2 DEF DictInv, DecodeDictRaises, Iterating, Raised
  <2>4. ListInv' /\ SetInv'
    BY <1>6 DEF ListInv, SetInv, DecodeDictRaises, Iterating, Raised, LoopInv
  <2>. QED
    BY <2>1, <2>3, <2>4 DEF LoopInv
<1>7. CASE Return
  BY <1>7 DEF Return, LoopInv, StopInv, ListInv, SetInv, DictInv
<1>. QED
  BY <1>1, <1>2, <1>3, <1>4, <1>5, <1>6, <1>7 DEF Step

\* The inductive invariant of every other theorem.
IInv == TypeOK /\ LoopInv

LEMMA LoopStutter == ASSUME LoopInv, UNCHANGED vars PROVE LoopInv'
  BY DEF vars, LoopInv, StopInv, ListInv, SetInv, DictInv

\* At every iteration the properties hold what the loop has got through, and that is
\* preserved by every iteration, call and exception.
THEOREM InductiveInvariant == Spec => []IInv
<1>1. Init => IInv
  BY TypeInit, LoopInit DEF IInv
<1>2. IInv /\ [Next]_vars => IInv'
  BY TypeStep, LoopCall, LoopStep, LoopStutter DEF IInv, Next
<1>. QED
  BY <1>1, <1>2, PTL DEF Spec

\* At every iteration of decode_list, decode_set and decode_dict, and after an
\* exception out of one, exactly the items behind the loop counter are assigned.
THEOREM LoopCorrect == Spec => []LoopInv
  BY InductiveInvariant, PTL DEF IInv

-----------------------------------------------------------------------------
\* A successful assignment is read back, whatever failed assignments came before.
THEOREM ReadBackCorrect == Spec => []ReadBack
<1>1. ASSUME IInv PROVE ReadBack
  <2>1. status \in {"ok", "systemError"} => len = 0
    BY <1>1 DEF IInv, LoopInv, StopInv
  <2>2. status \in {"ok", "systemError"} /\ call = "list" =>
            /\ arg \in Seq(ListItem) /\ listField = ItemValues(arg)
    <3>. SUFFICES ASSUME status \in {"ok", "systemError"}, call = "list"
                  PROVE  arg \in Seq(ListItem) /\ listField = ItemValues(arg)
      OBVIOUS
    <3>1. arg \in Seq(ListItem)
      BY <1>1, ArgTypes DEF IInv, TypeOK
    <3>2. ItemValues(arg) \in Seq(Value \cup {Bad})
      BY <3>1, ItemValuesType
    <3>. QED
      BY <1>1, <2>1, <3>1, <3>2, OverwrittenEnd DEF IInv, LoopInv, ListInv
  <2>3. status = "ok" /\ call = "list" => listField = arg
    BY <1>1, <2>2, ItemValuesSame DEF IInv, LoopInv, StopInv
  <2>4. status = "systemError" => call = "list" /\ listField = ItemValues(arg)
    BY <1>1, <2>2 DEF IInv, LoopInv, StopInv
  <2>5. status = "ok" /\ call = "set" => \A i \in 1..Len(arg) : arg[i] \in setField
    BY <1>1, <2>1 DEF IInv, LoopInv, SetInv, Inserted
  <2>6. status = "ok" /\ call = "dict" => \A i \in 1..Len(arg) :
            FirstWith(arg, 0, arg[i].key, i) => dictField[arg[i].key] = arg[i].value
    <3>. HAVE status = "ok" /\ call = "dict"
    <3>1. arg \in Seq(DictItem) /\ \A i \in 1..Len(arg) : ~BadItem(arg[i])
      BY <1>1, <2>1, ArgTypes DEF IInv, TypeOK, LoopInv, StopInv
    <3>2. \A i \in 1..Len(arg) : arg[i].key \in Key
      <4>1. \A i \in 1..Len(arg) : arg[i] \in DictItem
        BY <3>1
      <4>. QED
        BY <3>1, <4>1, GoodItem
    <3>3. MergedFrom(dictField, before.dict, arg, 0)
      BY <1>1, <2>1 DEF IInv, LoopInv, DictInv
    <3>. QED
      BY <3>2, <3>3 DEF MergedFrom
  <2>. QED
    BY <2>3, <2>4, <2>5, <2>6 DEF ReadBack
<1>. QED
  BY <1>1, InductiveInvariant, PTL

-----------------------------------------------------------------------------
\* No assignment, failed or not, takes anything out of a set or map property.
THEOREM NothingRemovedCorrect == Spec => NothingRemoved
<1>. DEFINE Kept == /\ setField \subseteq setField'
                    /\ \A k \in Key : dictField[k] # Absent => dictField'[k] # Absent
<1>1. ASSUME IInv, [Next]_vars PROVE [Kept]_vars
  <2>. SUFFICES ASSUME Next PROVE Kept
    BY <1>1
  <2>1. ASSUME NEW l, CallDecodeList(l) \/ CallDecodeSet(l) PROVE Kept
    BY <2>1 DEF CallDecodeList, CallDecodeSet, fields
  <2>2. ASSUME NEW d \in PyDict, CallDecodeDict(d) PROVE Kept
    BY <2>2 DEF CallDecodeDict, fields
  <2>3. CASE DecodeDictItem
    <3>1. arg \in Seq(DictItem) /\ len \in 1..Len(arg)
      BY <1>1, <2>3, ArgTypes DEF DecodeDictItem, Iterating, IInv, TypeOK
    <3>2. arg[len] \in DictItem
      BY <3>1
    <3>3. arg[len].value \in Value
      BY <2>3, <3>2, GoodItem DEF DecodeDictItem
    <3>4. dictField \in Map
      BY <1>1 DEF IInv, TypeOK
    <3>. QED
      BY <2>3, <3>3, <3>4, ContainersAssumption DEF DecodeDictItem, Map
  <2>4. CASE DecodeDictRaises
    <3>1. dictField \in Map
      BY <1>1 DEF IInv, TypeOK
    <3>. QED
      BY <2>4, <3>1, ContainersAssumption DEF DecodeDictRaises, DefaultInserted, Map
  <2>5. CASE DecodeListItem \/ DecodeSetItem \/ DecodeListRaises \/ DecodeSetRaises \/ Return
    BY <2>5 DEF DecodeListItem, DecodeSetItem, DecodeListRaises, DecodeSetRaises, Return, fields
  <2>. QED
    BY <2>1, <2>2, <2>3, <2>4, <2>5 DEF Next, Step
<1>. QED
  BY <1>1, InductiveInvariant, PTL DEF Spec, NothingRemoved

-----------------------------------------------------------------------------
\* The operators of Containers as PropertyStore instantiates them are the same.
LEMMA SameOperators ==
    /\ \A old, l, p : Store!Overwritten(old, l, p) = Overwritten(old, l, p)
    /\ \A old, l, p : Store!Inserted(old, l, p) = Inserted(old, l, p)
    /\ \A m, old, d, p : Store!MergedFrom(m, old, d, p) <=> MergedFrom(m, old, d, p)
    /\ \A m, k : Store!DefaultInserted(m, k) = DefaultInserted(m, k)
    /\ \A l, p : Store!ListStopsAt(l, p) <=> ListStopsAt(l, p)
    /\ \A d, p : Store!DictStopsAt(d, p) <=> DictStopsAt(d, p)
    /\ \A l : Store!ItemValues(l) = ItemValues(l)
    /\ \A l, p : Store!LeavesError(l, p) <=> LeavesError(l, p)
    /\ Store!PyList = PyList /\ Store!PyIds = PyIds /\ Store!PyDict = PyDict
    /\ Store!Map = Map /\ Store!EmptyMap = EmptyMap
<1>1. \A old, l, p : Store!Overwritten(old, l, p) = Overwritten(old, l, p)
  BY DEF Store!Overwritten, Overwritten, Store!Resized, Resized
<1>2. \A old, l, p : Store!Inserted(old, l, p) = Inserted(old, l, p)
  BY DEF Store!Inserted, Inserted
<1>3. \A m, old, d, p : Store!MergedFrom(m, old, d, p) <=> MergedFrom(m, old, d, p)
  BY DEF Store!MergedFrom, MergedFrom, Store!FirstWith, FirstWith
<1>4. \A m, k : Store!DefaultInserted(m, k) = DefaultInserted(m, k)
  BY DEF Store!DefaultInserted, DefaultInserted
<1>5. \A l, p : Store!ListStopsAt(l, p) <=> ListStopsAt(l, p)
  BY DEF Store!ListStopsAt, ListStopsAt
<1>6. \A d, p : Store!DictStopsAt(d, p) <=> DictStopsAt(d, p)
  BY DEF Store!DictStopsAt, DictStopsAt, Store!BadItem, BadItem
<1>7. Store!PyList = PyList /\ Store!PyIds = PyIds /\ Store!PyDict = PyDict
  BY DEF Store!PyList, PyList, Store!ListItem, ListItem, Store!PyIds, PyIds, Store!PyDict, PyDict, Store!UpTo, UpTo, Store!DictItem, DictItem
<1>8. Store!Map = Map /\ Store!EmptyMap = EmptyMap
  BY DEF Store!Map, Map, Store!EmptyMap, EmptyMap
<1>9. \A l : Store!ItemValues(l) = ItemValues(l)
  BY DEF Store!ItemValues, ItemValues, Store!ItemValue, ItemValue
<1>10. \A l, p : Store!LeavesError(l, p) <=> LeavesError(l, p)
  BY DEF Store!LeavesError, LeavesError
<1>. QED
  BY <1>1, <1>2, <1>3, <1>4, <1>5, <1>6, <1>7, <1>8, <1>9, <1>10

\* A call is a call, an iteration is invisible, and the last step is the assignment.
LEMMA StoreStep ==
    ASSUME IInv, Next
    PROVE  Store!Next \/ UNCHANGED Store!storeVars
<1>. USE DEF Store!storeVars, Store!props, Running
<1>1. ASSUME NEW l \in PyList, CallDecodeList(l) PROVE Store!Next
  <2>1. Store!Call("list", l)
    BY <1>1 DEF CallDecodeList, Begin, Store!Call
  <2>. QED
    BY <2>1, SameOperators DEF Store!Next
<1>8. ASSUME NEW l \in PyIds, CallDecodeSet(l) PROVE Store!Next
  <2>1. Store!Call("set", l)
    BY <1>8 DEF CallDecodeSet, Begin, fields, Store!Call
  <2>. QED
    BY <2>1, SameOperators DEF Store!Next
<1>2. ASSUME NEW d \in PyDict, CallDecodeDict(d) PROVE Store!Next
  <2>1. Store!Call("dict", d)
    BY <1>2 DEF CallDecodeDict, Begin, fields, Store!Call
  <2>. QED
    BY <2>1, SameOperators DEF Store!Next
<1>3. CASE DecodeListItem \/ DecodeSetItem \/ DecodeDictItem
  BY <1>3 DEF DecodeListItem, DecodeSetItem, DecodeDictItem, Iterating, Converted
<1>4. CASE DecodeListRaises \/ (Return /\ call = "list")
  <2>1. len \in 0..Len(arg) /\ call = "list" /\ status = "running"
    BY <1>4 DEF IInv, TypeOK, DecodeListRaises, Iterating, Return
  <2>2. ListStopsAt(arg, len)
    BY <1>4, <2>1 DEF IInv, LoopInv, StopInv, ListStopsAt, DecodeListRaises, Return
  <2>3. listField' = Overwritten(before.list, ItemValues(arg), len) /\ status' # "running"
    BY <1>4, <2>1 DEF IInv, LoopInv, ListInv, DecodeListRaises, Raised, Return, fields
  <2>4. Store!Ends("list", len, LeavesError(arg, 0))
    BY <1>4, <2>1 DEF Store!Ends, DecodeListRaises, Iterating, Raised, Return, IInv, TypeOK,
                      LoopInv, StopInv
  <2>5. UNCHANGED <<setField, dictField, call>>
    BY <1>4 DEF DecodeListRaises, Raised, Return, fields
  <2>6. Store!AssignList
    <3>1. Store!Ends("list", len, Store!LeavesError(arg, 0))
      <4>1. Store!LeavesError(arg, 0) <=> LeavesError(arg, 0)
        BY SameOperators
      <4>. QED
        BY <2>4, <4>1 DEF Store!Ends
    <3>. QED
      BY <2>1, <2>2, <2>3, <3>1, <2>5, SameOperators DEF Store!AssignList
  <2>. QED
    BY <2>1, <2>6, SameOperators DEF Store!Next
<1>5. CASE DecodeSetRaises \/ (Return /\ call = "set")
  <2>1. len \in 0..Len(arg) /\ call = "set" /\ status = "running"
    BY <1>5 DEF IInv, TypeOK, DecodeSetRaises, Iterating, Return
  <2>2. ListStopsAt(arg, len)
    BY <1>5, <2>1 DEF IInv, LoopInv, StopInv, ListStopsAt, DecodeSetRaises, Return
  <2>3. setField' = Inserted(before.set, arg, len) /\ status' # "running"
    BY <1>5, <2>1 DEF IInv, LoopInv, SetInv, DecodeSetRaises, Raised, Return, fields
  <2>4. Store!Ends("set", len, FALSE)
    BY <1>5, <2>1 DEF Store!Ends, DecodeSetRaises, Iterating, Raised, Return, IInv, TypeOK,
                      LoopInv, StopInv
  <2>5. UNCHANGED <<listField, dictField, call>>
    BY <1>5 DEF DecodeSetRaises, Raised, Return, fields
  <2>6. Store!AssignSet
    BY <2>1, <2>2, <2>3, <2>4, <2>5, SameOperators DEF Store!AssignSet
  <2>. QED
    BY <2>1, <2>6, SameOperators DEF Store!Next
<1>6. CASE DecodeDictRaises \/ (Return /\ call = "dict")
  <2>1. len \in 0..Len(arg) /\ call = "dict" /\ status = "running"
    BY <1>6 DEF IInv, TypeOK, DecodeDictRaises, Iterating, Return
  <2>2. DictStopsAt(arg, len)
    BY <1>6, <2>1 DEF IInv, LoopInv, StopInv, DictStopsAt, DecodeDictRaises, Return
  <2>3. MergedFrom(dictField, before.dict, arg, len) /\ dictField \in Map
    BY <2>1 DEF IInv, LoopInv, DictInv, TypeOK
  <2>4. dictField' \in IF len = 0 THEN {dictField} ELSE DefaultInserted(dictField, arg[len].key)
    BY <1>6, <2>1 DEF DecodeDictRaises, Iterating, Return
  <2>5. Store!Ends("dict", len, FALSE) /\ status' # "running"
    BY <1>6, <2>1 DEF Store!Ends, DecodeDictRaises, Iterating, Raised, Return, IInv, TypeOK,
                      LoopInv, StopInv
  <2>6. UNCHANGED <<listField, setField, call>>
    BY <1>6 DEF DecodeDictRaises, Raised, Return
  <2>7. Store!AssignDict
    BY <2>1, <2>2, <2>3, <2>4, <2>5, <2>6, SameOperators DEF Store!AssignDict
  <2>. QED
    BY <2>1, <2>7, SameOperators DEF Store!Next
<1>7. CASE Return /\ call = "none"
  BY <1>7 DEF Return, IInv, TypeOK, LoopInv, StopInv
<1>. QED
  BY <1>1, <1>2, <1>3, <1>4, <1>5, <1>6, <1>7, <1>8 DEF Next, Step, Return, IInv, TypeOK

\* The setters implement PropertyStore: seen from Python each assignment is one
\* step with the outcome, and on an exception the residue, stated there.
THEOREM Implements == Spec => RefinesStore
<1>1. Init => Store!Init
  BY SameOperators DEF Init, Store!Init, Running
<1>2. ASSUME IInv, [Next]_vars PROVE [Store!Next]_(Store!storeVars)
  <2>1. CASE UNCHANGED vars
    BY <2>1 DEF vars, Store!storeVars, Running
  <2>. QED
    BY <1>2, <2>1, StoreStep
<1>. QED
  BY <1>1, <1>2, InductiveInvariant, PTL DEF Spec, RefinesStore
=============================================================================
