-------------------------- MODULE TransactionProofs --------------------------
(***************************************************************************)
(* More theorems about ObjectModel: a signed transaction stays signed, and *)
(* a Custom keeps its message.  The invariant added here is that both are  *)
(* only ever referred to as whole objects: no view, of an attribute or of  *)
(* an attribute's attribute, reaches into what is signed.                  *)
(***************************************************************************)
EXTENDS ObjectModelProofs

-----------------------------------------------------------------------------
(* Signed transactions stay signed *)

\* A handle refers to a whole object, of that object's class, or to a part; transactions,
\* signed headers and Customs are always whole objects, and in the parts of a signed
\* transaction nothing can be assigned.
Whole(h, store) ==
    LET c == store[h.root].class
    IN /\ h = [root |-> h.root, path |-> h.path, class |-> h.class]
       /\ \/ h.path = <<>> /\ h.class = c
          \/ /\ h.path # <<>>
             /\ Unowned \cap Ancestors[h.class] = {} /\ "Custom" \notin Ancestors[h.class]
             /\ "SignedTransaction" \in Ancestors[c] => DOMAIN Attribute[h.class] = {} /\ h.class # "Operation"

WholeInv == \A v \in Var : handles[v] # Nil => Whole(handles[v], objects)

LEMMA BindWhole ==
    ASSUME IInv, WholeInv, NEW v \in Var, NEW h, NEW store, Bind(v, h, store),
           h = Nil \/ (Whole(h, store) /\ h.root \in Oid),
           \A w \in Var : handles[w] # Nil => store[handles[w].root] = objects[handles[w].root]
    PROVE  WholeInv'
<1>. SUFFICES ASSUME NEW w \in Var, handles'[w] # Nil PROVE Whole(handles'[w], objects')
  BY DEF WholeInv, Whole
<1>1. /\ handles' = [x \in Var |-> IF x = v THEN h ELSE handles[x]]
      /\ objects' = [o \in Oid |-> IF \E x \in Var : handles'[x] # Nil /\ handles'[x].root = o
                                   THEN store[o] ELSE Nil]
  BY DEF Bind, IInv, ShapeInv
<1>2. handles'[w].root \in Oid /\ Whole(handles'[w], store)
  <2>1. CASE w = v
    BY <1>1, <2>1
  <2>2. CASE w # v
    <3>1. handles'[w] = handles[w] /\ handles[w] # Nil
      BY <1>1, <2>2
    <3>2. handles[w].root \in Oid /\ Whole(handles[w], objects)
      BY <3>1 DEF WholeInv, IInv, ViewInv, Views
    <3>3. store[handles[w].root] = objects[handles[w].root]
      BY <3>1
    <3>. QED
      BY <3>1, <3>2, <3>3 DEF Whole
  <2>. QED
    BY <2>1, <2>2
<1>3. objects'[handles'[w].root] = store[handles'[w].root]
  BY <1>1, <1>2
<1>. QED
  BY <1>2, <1>3 DEF Whole

LEMMA BindNewWhole ==
    ASSUME IInv, WholeInv, NEW v \in Var, NEW value, BindNew(v, value)
    PROVE  WholeInv'
<1>1. PICK o \in Oid : /\ objects[o] = Nil
                       /\ Bind(v, [root |-> o, path |-> <<>>, class |-> value.class], [objects EXCEPT ![o] = value])
  BY DEF BindNew
<1>. DEFINE h == [root |-> o, path |-> <<>>, class |-> value.class]
            store == [objects EXCEPT ![o] = value]
<1>2. \A w \in Var : handles[w] # Nil => store[handles[w].root] = objects[handles[w].root]
  BY <1>1 DEF IInv, ShapeInv, ViewInv, Views
<1>3. store[o] = value
  BY DEF IInv, ShapeInv
<1>4. Whole(h, store) /\ h.root \in Oid
  BY <1>3 DEF Whole
<1>5. Bind(v, h, store)
  BY <1>1
<1>. HIDE DEF h, store
<1>. QED
  BY <1>2, <1>4, <1>5, BindWhole

LEMMA PathNotEmpty ==
    ASSUME NEW p \in Path, NEW a
    PROVE  Append(p, a) # <<>>
<1>1. Len(Append(p, a)) = Len(p) + 1 /\ Len(p) \in Nat
  BY LenProperties DEF Path
<1>. QED
  BY <1>1

LEMMA ReadPartWhole ==
    ASSUME IInv, WholeInv, NEW v \in Var, NEW u \in Var, NEW a, ReadPart(v, u, a)
    PROVE  WholeInv'
<1>. DEFINE h == [root |-> handles[u].root, path |-> Append(handles[u].path, a), class |-> ClassOf(u, a)]
            c == handles[u].class
<1>1. Has(u, a, {"part"}) /\ Bind(v, h, objects)
  BY DEF ReadPart
<1>2. handles[u] # Nil /\ Views(handles[u], objects) /\ c \in Class /\ a \in DOMAIN Attribute[c] /\ Attribute[c][a].kind = "part"
  BY <1>1, HasIs
<1>3. /\ Unowned \cap Ancestors[ClassOf(u, a)] = {}
      /\ "SignedTransaction" \in Ancestors[c] => DOMAIN Attribute[ClassOf(u, a)] = {} /\ ClassOf(u, a) # "Operation"
      /\ "Custom" \notin Ancestors[ClassOf(u, a)]
  BY <1>2, TransactionAssumption, CustomAssumption DEF ClassOf
<1>4. Whole(handles[u], objects)
  BY <1>2 DEF WholeInv
<1>6. h.path # <<>>
  BY <1>2, PathNotEmpty DEF Views
<1>5. Whole(h, objects) /\ h.root \in Oid
  BY <1>2, <1>3, <1>4, <1>6 DEF Whole, Views
<1>. HIDE DEF h
<1>. QED
  BY <1>1, <1>5, BindWhole

LEMMA PutWhole ==
    ASSUME IInv, WholeInv, NEW u \in Var, handles[u] # Nil, NEW place \in Path, NEW data, Put(u, place, data)
    PROVE  WholeInv'
<1>1. /\ handles' = handles
      /\ objects' = [o \in Oid |-> IF o = handles[u].root THEN objects'[handles[u].root] ELSE objects[o]]
      /\ objects'[handles[u].root].class = objects[handles[u].root].class
  BY PutEffect
<1>. SUFFICES ASSUME NEW w \in Var, handles[w] # Nil PROVE Whole(handles[w], objects')
  BY <1>1 DEF WholeInv, Whole
<1>2. handles[w].root \in Oid /\ Whole(handles[w], objects)
  BY DEF WholeInv, IInv, ViewInv, Views
<1>3. objects'[handles[w].root].class = objects[handles[w].root].class
  BY <1>1, <1>2
<1>. QED
  BY <1>2, <1>3 DEF Whole

\* Every write puts something at a place.
LEMMA WritesPut ==
    ASSUME IInv, NEW u \in Var, Writes(u)
    PROVE  handles[u] # Nil /\ \E place \in Path : \E data : Put(u, place, data)
<1>1. CASE \E a \in Names(u) : Assigns(u, a)
  <2>1. PICK a \in Names(u) : Assigns(u, a)
    BY <1>1
  <2>2. handles[u] # Nil /\ a \in DOMAIN Attribute[handles[u].class]
    BY DEF Names
  <2>3. a \in STRING
    BY <2>2, AttributeAssumption DEF IInv, ViewInv, Views
  <2>4. <<a>> \in Path /\ <<>> \in Path
    BY <2>3, PathOfOne, PathAlgebra
  <2>5. (\E data : Put(u, <<a>>, data)) \/ \E data : Put(u, <<>>, data)
    BY <2>1 DEF Assigns, SetDatum, SetPart, SetCopy, SetBytes, SetList, SetPayload
  <2>. QED
    BY <2>2, <2>4, <2>5
<1>2. CASE \E n \in Datum : SetFee(u, n) \/ SetReferenceBlock(u, n)
  BY <1>2, PathAlgebra DEF SetFee, SetReferenceBlock, IsA
<1>3. CASE Sign(u) \/ SignHeader(u)
  <2>1. <<"signatures">> \in Path /\ <<"miner_signature">> \in Path
    BY NamedAssumption, LeafPath
  <2>. QED
    BY <1>3, <2>1 DEF Sign, SignHeader, IsA
<1>. QED
  BY <1>1, <1>2, <1>3 DEF Writes

LEMMA WholeStep == IInv /\ WholeInv /\ [Next]_vars => WholeInv'
<1>. SUFFICES ASSUME IInv, WholeInv, [Next]_vars PROVE WholeInv'
  OBVIOUS
<1>1. ASSUME NEW v \in Var, NEW h, Bind(v, h, objects), h = Nil \/ (Whole(h, objects) /\ h.root \in Oid)
      PROVE  WholeInv'
  BY <1>1, BindWhole
<1>2. ASSUME NEW v \in Var, Del(v) PROVE WholeInv'
  BY <1>1, <1>2 DEF Del, Unbind
<1>3. ASSUME NEW v \in Var, NEW u \in Var, Alias(v, u) PROVE WholeInv'
  <2>1. Whole(handles[u], objects) /\ handles[u].root \in Oid
    BY <1>3 DEF Alias, WholeInv, IInv, ViewInv, Views
  <2>. QED
    BY <1>1, <1>3, <2>1 DEF Alias
<1>4. ASSUME NEW v \in Var, NEW value, BindNew(v, value) PROVE WholeInv'
  BY <1>4, BindNewWhole
<1>5. ASSUME NEW v \in Var, Unbind(v) PROVE WholeInv'
  BY <1>1, <1>5 DEF Unbind
<1>6. ASSUME NEW v \in Var, NEW u \in Var, Reads(v, u), ~Alias(v, u), ~\E a : ReadPart(v, u, a) PROVE WholeInv'
  <2>1. Unbind(v) \/ \E value : BindNew(v, value)
    BY <1>6 DEF Reads, Wrap, ReadCopy, ReadPayload, ReadItem, ReadAlternative
  <2>. QED
    BY <1>4, <1>5, <2>1
<1>7. ASSUME NEW v \in Var, NEW u \in Var, Reads(v, u) PROVE WholeInv'
  BY <1>3, <1>6, <1>7, ReadPartWhole
<1>8. ASSUME NEW u \in Var, Writes(u) PROVE WholeInv'
  BY <1>8, WritesPut, PutWhole
<1>9. ASSUME NEW v \in Var, NEW c \in Made, Make(v, c) \/ Fetch(v, c) PROVE WholeInv'
  BY <1>4, <1>9 DEF Make, Fetch
<1>10. CASE UNCHANGED vars
  BY <1>10 DEF vars, WholeInv, Whole
<1>. QED
  BY <1>2, <1>7, <1>8, <1>9, <1>10 DEF Next

LEMMA WholeCorrect == Spec => []WholeInv
<1>1. Init => WholeInv
  BY DEF Init, WholeInv
<1>. QED
  BY <1>1, WholeStep, InductiveInvariant, PTL DEF Spec

\* A handle to a transaction or a signed header is to a whole object.
LEMMA UnownedIsWhole ==
    ASSUME WholeInv, NEW v \in Var, NEW c \in Unowned, IsA(v, c)
    PROVE  handles[v].path = <<>> /\ handles[v].class = objects[handles[v].root].class
  BY DEF IsA, WholeInv, Whole

LEMMA TransactionIsWhole ==
    ASSUME WholeInv, NEW v \in Var, IsA(v, "SignedTransaction")
    PROVE  handles[v].path = <<>> /\ handles[v].class = objects[handles[v].root].class
  BY UnownedIsWhole DEF Unowned

\* What a signed transaction holds: its signatures, and what they sign.
LEMMA SignedLeaves ==
    ASSUME IInv, NEW v \in Var, IsA(v, "SignedTransaction")
    PROVE  /\ At(v, <<"signatures">>) = Seen(handles[v]).data[<<"signatures">>]
           /\ \A p \in DOMAIN Layout["Transaction"] : p \in DOMAIN Layout[handles[v].class] /\ p # <<"signatures">>
<1>1. <<"signatures">> \in DOMAIN Layout[handles[v].class]
  BY SignaturesIs
<1>2. /\ handles[v].class \in Class /\ "SignedTransaction" \in Ancestors[handles[v].class]
      /\ "SignedTransaction" \in Class /\ "Transaction" \in Ancestors["SignedTransaction"]
  BY NamedAssumption, TransactionAssumption DEF IsA, IInv, ViewInv, Views
<1>3. \A p \in DOMAIN Layout["Transaction"] : p \in DOMAIN Layout["SignedTransaction"] /\ p # <<"signatures">>
  BY <1>2, BaseAssumption, TransactionAssumption
<1>4. \A p \in DOMAIN Layout["SignedTransaction"] : p \in DOMAIN Layout[handles[v].class]
  BY <1>2, BaseAssumption
<1>. QED
  BY <1>1, <1>3, <1>4 DEF At, Seen

LEMMA AppendKeeps ==
    ASSUME NEW T, NEW n \in Nat, NEW d \in [1..n -> T], NEW y
    PROVE  /\ Len(d) \in Nat /\ Len(Append(d, y)) = Len(d) + 1
           /\ \A j \in 1..Len(d) : Append(d, y)[j] = d[j]
<1>. DEFINE R == T \cup {y}
<1>1. d \in [1..n -> R] /\ y \in R
  OBVIOUS
<1>. HIDE DEF R
<1>2. d \in Seq(R) /\ Len(d) = n
  BY <1>1, SeqDef
<1>. QED
  BY <1>1, <1>2, AppendProperties

\* Signing again leaves the earlier signatures, and what they sign, as they are.
LEMMA SignKeeps ==
    ASSUME IInv, WholeInv, NEW u \in Var, NEW v \in Var, Sign(u), HasSigned(v),
           handles[u].root = handles[v].root
    PROVE  HasSigned(v)'
<1>. DEFINE root == handles[v].root
            c == objects[root].class
            place == <<"signatures">>
            old == objects[root].data
            d == old[place]
            y == [class |-> "CompactSignature", data |-> Leaf(Digest(u))]
<1>1. IsA(u, "SignedTransaction") /\ IsA(v, "SignedTransaction")
  BY DEF Sign, HasSigned
<1>2. /\ handles[u].path = <<>> /\ handles[v].path = <<>> /\ handles[u].class = c /\ handles[v].class = c
      /\ handles[u] # Nil
  BY <1>1, TransactionIsWhole DEF IsA
<1>3. place \in DOMAIN Layout[c] /\ Layout[c][place].kind = "list" /\ c \in Class /\ place \in Path
  BY <1>1, <1>2, SignaturesIs, LeafPath DEF IInv, ViewInv, Views
<1>4. \A p \in Path : <<>> \o p = p
  BY PathAlgebra
<1>5. At(v, place) = d /\ At(u, place) = d
  BY <1>2, <1>3, <1>4 DEF At
<1>6. Put(u, place, Leaf(Append(d, y)))
  BY <1>5 DEF Sign
<1>. HIDE DEF y
<1>7. /\ handles' = handles
      /\ \A p \in DOMAIN Layout[c] :
            objects'[root].data[p] = IF IsPrefix(place, p) THEN Leaf(Append(d, y))[SubSeq(p, Len(place) + 1, Len(p))]
                                     ELSE old[p]
  <2>. DEFINE spot == handles[u].path \o place
              leaf == Leaf(Append(d, y))
  <2>1. spot = place
    BY <1>2, <1>3, <1>4
  <2>. HIDE DEF leaf, spot
  <2>2. Put(u, place, leaf)
    BY <1>6 DEF leaf
  <2>3. /\ handles' = handles
        /\ \A p \in DOMAIN Layout[objects[handles[u].root].class] :
              objects'[handles[u].root].data[p] =
                 IF IsPrefix(spot, p) THEN leaf[SubSeq(p, Len(spot) + 1, Len(p))]
                 ELSE objects[handles[u].root].data[p]
    BY <1>2, <1>3, <2>2, PutEffect DEF spot
  <2>. QED
    BY <2>1, <2>3 DEF leaf
<1>8. objects'[root].data[place] = Append(d, y)
  <2>1. IsPrefix(place, place \o <<>>) /\ SubSeq(place \o <<>>, Len(place) + 1, Len(place \o <<>>)) = <<>>
        /\ place \o <<>> = place
    BY <1>3, PathAlgebra, PathConcat
  <2>. QED
    BY <1>3, <1>7, <2>1 DEF Leaf
<1>9. \A p \in DOMAIN Layout[c] : p # place => objects'[root].data[p] = old[p]
  BY <1>3, <1>7, LeafPath
<1>10. \A p \in DOMAIN Layout["Transaction"] : p \in DOMAIN Layout[c] /\ p # place /\ p \in Path
  BY <1>1, <1>2, <1>3, SignedLeaves, LeafPath
<1>11. Digest(v)' = Digest(v)
  <2>1. \A p \in DOMAIN Layout[c] : p # place => Seen(handles[v])'.data[p] = Seen(handles[v]).data[p]
    <3>1. ASSUME NEW p \in DOMAIN Layout[c], p # place
          PROVE  Seen(handles[v])'.data[p] = Seen(handles[v]).data[p]
      <4>1. p \in Path /\ <<>> \o p = p
        BY <1>3, <1>4, LeafPath
      <4>2. Seen(handles[v]).data[p] = old[p]
        BY <1>2, <4>1 DEF Seen
      <4>3. Seen(handles[v])'.data[p] = objects'[root].data[p]
        BY <1>2, <1>7, <4>1 DEF Seen
      <4>. QED
        BY <1>9, <3>1, <4>2, <4>3
    <3>. QED
      BY <3>1
  <2>. QED
    BY <1>7, <1>10, <2>1 DEF Digest, CopyAs
<1>12. PICK i \in 1..Len(d) : d[i].data = Leaf(Digest(v))
  BY <1>5 DEF HasSigned
<1>13. Len(d) \in Nat /\ Len(Append(d, y)) = Len(d) + 1 /\ \A j \in 1..Len(d) : Append(d, y)[j] = d[j]
  <2>1. PICK S : Closed(S) /\ Stored(objects, S)
    BY DEF IInv
  <2>2. Proper(Layout[c][place], d, S)
    BY <1>2, <1>3, <1>5, <2>1, AtProper DEF IInv
  <2>. HIDE DEF d
  <2>3. PICK n \in 0..MaxLen : d \in [1..n -> {x \in S : x.class = Layout[c][place].class}]
    BY <1>3, <2>2 DEF Proper
  <2>4. n \in Nat
    BY ValueAssumption
  <2>. QED
    BY <2>3, <2>4, AppendKeeps
<1>14. i \in 1..Len(Append(d, y)) /\ Append(d, y)[i] = d[i]
  <2>. HIDE DEF d
  <2>. QED
    BY <1>12, <1>13
<1>15. At(v, place)' = Append(d, y)
  BY <1>2, <1>3, <1>4, <1>7, <1>8 DEF At
<1>16. IsA(v, "SignedTransaction")'
  BY <1>1, <1>7 DEF IsA
<1>. HIDE DEF d
<1>. QED
  BY <1>11, <1>12, <1>14, <1>15, <1>16 DEF HasSigned

\* No Operation is a signed transaction.
LEMMA OperationIsNone == "SignedTransaction" \notin Ancestors["Operation"]
<1>. SUFFICES ASSUME "SignedTransaction" \in Ancestors["Operation"] PROVE FALSE
  OBVIOUS
<1>1. <<"signatures">> \in DOMAIN Layout["Operation"] /\ <<>> \in DOMAIN Layout["Operation"]
  BY NamedAssumption, LeafAssumption, BaseAssumption
<1>2. <<"signatures">> \in Path /\ "Operation" \in Class
  BY <1>1, NamedAssumption, LeafPath
<1>3. IsPrefix(<<>>, <<"signatures">>)
  BY <1>2, EmptyIsPrefix
<1>4. <<>> = <<"signatures">>
  BY <1>1, <1>2, <1>3, LeafPath
<1>5. <<>> # <<"signatures">>
  OBVIOUS
<1>. QED
  BY <1>4, <1>5

Sealed ==
    \A v \in Var :
       (HasSigned(v) /\ handles'[v] = handles[v] /\ ~HasSigned(v)')
         => \E u \in Var : /\ IsA(u, "SignedTransaction") /\ handles[u].root = handles[v].root
                           /\ \/ \E a \in Names(u) : Assigns(u, a)
                              \/ \E n \in Datum : SetReferenceBlock(u, n)

LEMMA StepSealed == IInv /\ WholeInv /\ [Next]_vars => [Sealed]_vars
<1>. SUFFICES ASSUME IInv, WholeInv, Next, NEW v \in Var, HasSigned(v), handles'[v] = handles[v], ~HasSigned(v)'
              PROVE  \E u \in Var : /\ IsA(u, "SignedTransaction") /\ handles[u].root = handles[v].root
                                    /\ \/ \E a \in Names(u) : Assigns(u, a)
                                       \/ \E n \in Datum : SetReferenceBlock(u, n)
  BY DEF Sealed
<1>1. IsA(v, "SignedTransaction") /\ handles[v] # Nil
  BY DEF HasSigned, IsA
<1>2. v \in Changed
  <2>. SUFFICES ASSUME Seen(handles[v])' = Seen(handles[v]) PROVE FALSE
    BY <1>1 DEF Changed
  <2>1. IsA(v, "SignedTransaction")'
    BY <1>1 DEF IsA
  <2>2. Digest(v)' = Digest(v)
    BY DEF Digest, CopyAs
  <2>3. At(v, <<"signatures">>)' = At(v, <<"signatures">>)
    BY <1>1, SignaturesIs, SignedLeaves DEF At, Seen
  <2>. QED
    BY <2>1, <2>2, <2>3 DEF HasSigned
<1>3. PICK u \in Var :
          /\ handles[u] # Nil
          /\ \/ \E a \in Names(u) : Within(u, <<a>>) /\ Assigns(u, a)
             \/ Within(u, <<>>) /\ \E n \in Datum : SetFee(u, n) \/ SetReferenceBlock(u, n)
             \/ Within(u, <<"signatures">>) /\ Sign(u)
             \/ Within(u, <<"miner_signature">>) /\ SignHeader(u)
  <2>1. objects' # objects
    BY <1>2 DEF Changed, Seen
  <2>2. Local
    BY <2>1, StepLocal DEF vars
  <2>. QED
    BY <1>2, <2>2 DEF Local
<1>4. handles[u].root = handles[v].root
  BY <1>2, <1>3 DEF Within
<1>5. "SignedTransaction" \in Ancestors[objects[handles[u].root].class]
  BY <1>1, <1>4, TransactionIsWhole DEF IsA
<1>6. Whole(handles[u], objects)
  BY <1>3 DEF WholeInv
<1>7. CASE \E a \in Names(u) : Assigns(u, a)
  <2>1. DOMAIN Attribute[handles[u].class] # {}
    BY <1>7 DEF Names
  <2>2. IsA(u, "SignedTransaction")
    BY <1>3, <1>5, <1>6, <2>1 DEF Whole, IsA
  <2>. QED
    BY <1>4, <1>7, <2>2
<1>8. CASE \E n \in Datum : SetFee(u, n)
  BY <1>5, <1>6, <1>8, OperationIsNone DEF SetFee, Whole
<1>9. CASE Sign(u)
  BY <1>4, <1>9, SignKeeps
<1>10. CASE \E n \in Datum : SetReferenceBlock(u, n)
  <2>1. IsA(u, "Transaction")
    BY <1>10 DEF SetReferenceBlock
  <2>2. handles[u].class = objects[handles[u].root].class
    BY <2>1, UnownedIsWhole DEF Unowned
  <2>3. IsA(u, "SignedTransaction")
    BY <1>3, <1>5, <2>2 DEF IsA
  <2>. QED
    BY <1>4, <1>10, <2>3
<1>11. CASE SignHeader(u)
  <2>1. IsA(u, "SignedBlockHeader")
    BY <1>11 DEF SignHeader
  <2>2. handles[u].class = objects[handles[u].root].class /\ handles[u].class \in Class
    BY <1>3, <2>1, UnownedIsWhole DEF Unowned, IInv, ViewInv, Views
  <2>. QED
    BY <1>5, <2>1, <2>2, TransactionAssumption DEF IsA
<1>. QED
  BY <1>3, <1>7, <1>8, <1>9, <1>10, <1>11

\* A transaction that carries a signature of what it holds loses it only by an assignment
\* to its own attributes or by its set_reference_block, for any classes and any program.
THEOREM SealedCorrect == Spec => SealedBySignature
<1>1. Spec => [][Sealed]_vars
  BY InductiveInvariant, WholeCorrect, StepSealed, PTL DEF Spec
<1>. QED
  BY <1>1 DEF Sealed, SealedBySignature

-----------------------------------------------------------------------------
(* Messages are kept *)

LEMMA SignaturesNamed == "signatures" \in STRING /\ "miner_signature" \in STRING
<1>1. <<"signatures">> \in Path /\ <<"miner_signature">> \in Path
  BY NamedAssumption, LeafPath
<1>2. /\ 1 \in 1..Len(<<"signatures">>) /\ <<"signatures">>[1] = "signatures"
      /\ 1 \in 1..Len(<<"miner_signature">>) /\ <<"miner_signature">>[1] = "miner_signature"
  OBVIOUS
<1>. QED
  BY <1>1, <1>2, ElementOfSeq DEF Path

\* What begins a path of one name.
LEMMA PrefixOfOne ==
    ASSUME NEW p \in Path, NEW b \in STRING, IsPrefix(p, <<b>>)
    PROVE  p = <<>> \/ p = <<b>>
<1>1. <<>> \in Path /\ <<>> \o <<b>> = <<b>>
  BY PathAlgebra, PathOfOne
<1>2. p = <<b>> \/ IsPrefix(p, <<>>)
  BY <1>1, PrefixOfLonger
<1>3. ASSUME IsPrefix(p, <<>>) PROVE p = <<>>
  <2>1. Len(p) \in Nat
    BY LenProperties DEF Path
  <2>2. Len(<<>>) = 0 /\ \A e \in Path : Len(e) = 0 => e = <<>>
    BY EmptySeq DEF Path
  <2>3. Len(p) <= Len(<<>>)
    BY <1>1, <1>3, PrefixByItem
  <2>4. Len(p) = 0
    BY <2>1, <2>2, <2>3
  <2>. QED
    BY <2>2, <2>4
<1>. QED
  BY <1>2, <1>3

LEMMA PrefixOfName ==
    ASSUME NEW p \in Path, NEW a \in STRING, NEW b \in STRING, IsPrefix(p \o <<a>>, <<b>>)
    PROVE  p = <<>> /\ a = b
<1>1. <<a>> \in Path /\ p \o <<a>> \in Path /\ Append(p, a) = p \o <<a>>
  BY PathOfOne, PathConcat
<1>2. p \o <<a>> # <<>>
  BY <1>1, PathNotEmpty
<1>3. p \o <<a>> = <<b>>
  BY <1>1, <1>2, PrefixOfOne
<1>4. Len(p) \in Nat /\ Len(Append(p, a)) = Len(p) + 1 /\ Append(p, a)[Len(p) + 1] = a
  BY AppendProperties, LenProperties DEF Path
<1>5. Len(p) = 0
  BY <1>1, <1>3, <1>4
<1>6. p = <<>>
  BY <1>5, EmptySeq DEF Path
<1>. QED
  BY <1>1, <1>3, <1>4, <1>5, <1>6

\* Where a Custom keeps its message.
LEMMA CustomIs ==
    ASSUME IInv, WholeInv, NEW v \in Var, IsA(v, "Custom")
    PROVE  /\ handles[v] # Nil /\ handles[v].path = <<>> /\ handles[v].class = "Custom"
           /\ handles[v].root \in Oid /\ objects[handles[v].root].class = "Custom"
           /\ \A name \in {"id", "data"} :
                 /\ name \in STRING /\ <<name>> \in DOMAIN Layout["Custom"] /\ <<name>> \in Path
                 /\ Layout["Custom"][<<name>>].kind \in {"plain", "bytes"}
                 /\ At(v, <<name>>) = objects[handles[v].root].data[<<name>>]
<1>1. handles[v] # Nil /\ handles[v].class \in Class /\ "Custom" \in Ancestors[handles[v].class]
      /\ handles[v].root \in Oid /\ Whole(handles[v], objects)
  BY DEF IsA, WholeInv, IInv, ViewInv, Views
<1>2. handles[v].path = <<>> /\ handles[v].class = "Custom" /\ objects[handles[v].root].class = "Custom"
  BY <1>1, CustomAssumption DEF Whole
<1>3. ASSUME NEW name \in {"id", "data"}
      PROVE  /\ name \in STRING /\ <<name>> \in DOMAIN Layout["Custom"] /\ <<name>> \in Path
             /\ Layout["Custom"][<<name>>].kind \in {"plain", "bytes"}
             /\ At(v, <<name>>) = objects[handles[v].root].data[<<name>>]
  <2>1. /\ name \in DOMAIN Attribute["Custom"] /\ "Custom" \in Class
        /\ Attribute["Custom"][name].kind \in {"plain", "bytes"}
    BY CustomAssumption
  <2>2. /\ name \in STRING /\ <<name>> \in DOMAIN Layout["Custom"]
        /\ Layout["Custom"][<<name>>] = Attribute["Custom"][name]
    BY <2>1, AttributeAssumption
  <2>3. <<name>> \in Path /\ <<>> \o <<name>> = <<name>>
    BY <2>2, PathOfOne, PathAlgebra
  <2>. QED
    BY <1>2, <2>1, <2>2, <2>3 DEF At
<1>. QED
  BY <1>1, <1>2, <1>3

\* A Put that changes where a message is kept is to the Custom itself, as a whole or at
\* this attribute.
LEMMA PutToCustom ==
    ASSUME IInv, WholeInv, NEW v \in Var, IsA(v, "Custom"), NEW name \in {"id", "data"},
           NEW u \in Var, handles[u] # Nil, NEW place \in Path, NEW data, Put(u, place, data),
           handles'[v] = handles[v], At(v, <<name>>)' # At(v, <<name>>)
    PROVE  handles[u].root = handles[v].root /\ IsPrefix(handles[u].path \o place, <<name>>)
<1>. DEFINE root == handles[u].root
            spot == handles[u].path \o place
<1>1. /\ handles[v].path = <<>> /\ handles[v].root \in Oid /\ objects[handles[v].root].class = "Custom"
      /\ <<name>> \in DOMAIN Layout["Custom"] /\ <<name>> \in Path
      /\ At(v, <<name>>) = objects[handles[v].root].data[<<name>>]
  BY CustomIs
<1>2. At(v, <<name>>)' = objects'[handles[v].root].data[<<name>>]
  BY <1>1, PathAlgebra DEF At
<1>3. /\ objects' = [o \in Oid |-> IF o = root THEN objects'[root] ELSE objects[o]]
      /\ \A p \in DOMAIN Layout[objects[root].class] :
            objects'[root].data[p] = IF IsPrefix(spot, p) THEN data[SubSeq(p, Len(spot) + 1, Len(p))]
                                     ELSE objects[root].data[p]
  BY PutEffect
<1>4. root = handles[v].root
  BY <1>1, <1>2, <1>3
<1>. QED
  BY <1>1, <1>2, <1>3, <1>4

\* A handle to the Custom itself is the same as v.
LEMMA SameHandle ==
    ASSUME IInv, WholeInv, NEW v \in Var, IsA(v, "Custom"), NEW u \in Var, handles[u] # Nil,
           handles[u].root = handles[v].root, handles[u].path = <<>>
    PROVE  handles[u] = handles[v] /\ handles[u].class = "Custom"
<1>1. Whole(handles[u], objects) /\ Whole(handles[v], objects)
  BY DEF WholeInv, IsA
<1>2. handles[v].path = <<>> /\ handles[v].class = "Custom" /\ objects[handles[v].root].class = "Custom"
  BY CustomIs
<1>. QED
  BY <1>1, <1>2 DEF Whole

MessageKeeps ==
    \A v \in Var :
       (IsA(v, "Custom") /\ handles'[v] = handles[v] /\ Message(v)' # Message(v)) =>
          \E u \in Var : /\ handles[u] = handles[v]
                        /\ \/ Assigns(u, "data")
                           \/ Assigns(u, "id") /\ (Raises(v)' => At(v, <<"data">>) \in Datum \cup {<<>>})
                           \/ Assigns(u, "message_payload") /\ ~Raises(v)'

LEMMA ReadsKeepMessage ==
    ASSUME IInv, WholeInv, NEW v \in Var, IsA(v, "Custom"), handles'[v] = handles[v], Changed = {}
    PROVE  \A name \in {"id", "data"} : At(v, <<name>>)' = At(v, <<name>>)
<1>1. /\ handles[v] # Nil /\ handles[v].class = "Custom" /\ handles[v].path = <<>>
      /\ \A name \in {"id", "data"} : <<name>> \in DOMAIN Layout["Custom"]
  BY CustomIs
<1>2. Seen(handles[v])' = Seen(handles[v])
  BY <1>1 DEF Changed
<1>3. \A name \in {"id", "data"} : At(v, <<name>>) = Seen(handles[v]).data[<<name>>]
  BY <1>1 DEF At, Seen
<1>4. \A name \in {"id", "data"} : At(v, <<name>>)' = Seen(handles[v])'.data[<<name>>]
  BY <1>1 DEF At, Seen
<1>. QED
  BY <1>2, <1>3, <1>4

\* What SetPayload leaves in data.
LEMMA PayloadIsMessage ==
    ASSUME IInv, WholeInv, NEW v \in Var, IsA(v, "Custom"), handles'[v] = handles[v],
           NEW u \in Var, handles[u] = handles[v], NEW a, NEW w \in Var, SetPayload(u, a, w)
    PROVE  \E x : At(v, <<"data">>)' = <<x>>
<1>. DEFINE root == handles[v].root
            x == CopyAs(w, ClassOf(u, a))
            d == Seen(handles[u]).data
            q == <<"data">>
<1>1. /\ handles[v] # Nil /\ handles[v].class = "Custom" /\ handles[v].path = <<>>
      /\ q \in DOMAIN Layout["Custom"] /\ q \in Path /\ objects[root].class = "Custom"
  BY CustomIs
<1>2. <<>> \in Path /\ <<>> \o <<>> = <<>> /\ <<>> \o q = q
  BY <1>1, PathAlgebra
<1>3. PICK n : Put(u, <<>>, [d EXCEPT ![q] = <<x>>, ![<<"id">>] = n])
  BY DEF SetPayload
<1>. DEFINE e == [d EXCEPT ![q] = <<x>>, ![<<"id">>] = n]
<1>4. e[q] = <<x>>
  <2>1. q \in DOMAIN d
    BY <1>1 DEF Seen
  <2>2. q # <<"id">>
    OBVIOUS
  <2>. HIDE DEF d, q, x
  <2>. QED
    BY <2>1, <2>2
<1>5. Put(u, <<>>, e)
  BY <1>3
<1>. HIDE DEF e, x
<1>6. objects'[root].data[q] = e[q]
  <2>. DEFINE spot == handles[u].path \o <<>>
  <2>1. spot = <<>>
    BY <1>1, <1>2
  <2>. HIDE DEF spot
  <2>2. \A p \in DOMAIN Layout[objects[handles[u].root].class] :
           objects'[handles[u].root].data[p] =
              IF IsPrefix(spot, p) THEN e[SubSeq(p, Len(spot) + 1, Len(p))]
              ELSE objects[handles[u].root].data[p]
    BY <1>1, <1>2, <1>5, PutEffect DEF spot
  <2>3. IsPrefix(<<>>, <<>> \o q) /\ SubSeq(<<>> \o q, Len(<<>>) + 1, Len(<<>> \o q)) = q
    BY <1>1, <1>2, PathConcat
  <2>4. IsPrefix(spot, q) /\ SubSeq(q, Len(spot) + 1, Len(q)) = q
    BY <1>2, <2>1, <2>3
  <2>5. objects'[handles[u].root].data[q] = e[q]
    <3>1. q \in DOMAIN Layout[objects[handles[u].root].class]
      BY <1>1
    <3>. QED
      BY <2>2, <2>4, <3>1
  <2>. QED
    BY <2>5
<1>7. At(v, q)' = objects'[root].data[q]
  BY <1>1, <1>2 DEF At
<1>. QED
  BY <1>4, <1>6, <1>7

\* An assignment to id leaves data as it is.
LEMMA IdLeavesData ==
    ASSUME IInv, WholeInv, NEW v \in Var, IsA(v, "Custom"), handles'[v] = handles[v],
           NEW u \in Var, handles[u] # Nil, NEW data, Put(u, <<"id">>, data), handles[u].path = <<>>
    PROVE  At(v, <<"data">>)' = At(v, <<"data">>)
<1>1. <<"id">> \in Path /\ <<>> \o <<"id">> = <<"id">> /\ "id" \in STRING /\ "data" \in STRING
      /\ <<>> \in Path
  <2>1. "id" \in STRING /\ "data" \in STRING
    BY CustomIs
  <2>. QED
    BY <2>1, PathOfOne, PathAlgebra
<1>2. ~IsPrefix(<<>> \o <<"id">>, <<"data">>)
  <2>1. "id" # "data"
    OBVIOUS
  <2>. QED
    BY <1>1, <2>1, PrefixOfName
<1>3. At(v, <<"data">>)' # At(v, <<"data">>) => IsPrefix(handles[u].path \o <<"id">>, <<"data">>)
  BY <1>1, PutToCustom
<1>. QED
  BY <1>2, <1>3

LEMMA StepKeepsMessage ==
    ASSUME \A x : <<x>> \notin Datum, IInv, WholeInv, Next
    PROVE  MessageKeeps
<1>. SUFFICES ASSUME NEW v \in Var, IsA(v, "Custom"), handles'[v] = handles[v], Message(v)' # Message(v)
              PROVE  \E u \in Var : /\ handles[u] = handles[v]
                        /\ \/ Assigns(u, "data")
                           \/ Assigns(u, "id") /\ (Raises(v)' => At(v, <<"data">>) \in Datum \cup {<<>>})
                           \/ Assigns(u, "message_payload") /\ ~Raises(v)'
  BY DEF MessageKeeps
<1>1. PICK name \in {"id", "data"} : At(v, <<name>>)' # At(v, <<name>>)
  <2>1. IsA(v, "Custom")' = IsA(v, "Custom")
    BY DEF IsA
  <2>. QED
    BY <2>1 DEF Message
<1>2. PICK u \in Var : Writes(u)
  <2>1. Changed # {}
    BY <1>1, ReadsKeepMessage
  <2>. QED
    BY <2>1, ReadsQuiet DEF Next
<1>3. /\ handles[u] # Nil /\ handles[u].path \in Path /\ handles[u].class \in Class
      /\ Views(handles[u], objects)
  BY <1>2, WritesPut DEF IInv, ViewInv, Views
<1>4. /\ name \in STRING /\ <<name>> \in Path /\ <<name>> \in DOMAIN Layout["Custom"]
      /\ Layout["Custom"][<<name>>].kind \in {"plain", "bytes"}
      /\ objects[handles[v].root].class = "Custom"
  BY CustomIs
\* A write to all of what u refers to is to the Custom.
<1>5. ASSUME NEW data, Put(u, <<>>, data), <<>> \in DOMAIN Layout[handles[u].class] \/ {<<"id">>, <<"data">>} \subseteq DOMAIN Layout[handles[u].class]
      PROVE  handles[u] = handles[v] /\ handles[u].class = "Custom"
  <2>1. <<>> \in Path /\ handles[u].path \o <<>> = handles[u].path
    BY <1>3, PathAlgebra
  <2>2. handles[u].root = handles[v].root /\ IsPrefix(handles[u].path, <<name>>)
    BY <1>1, <1>3, <1>5, <2>1, PutToCustom
  <2>3. handles[u].path = <<>> \/ handles[u].path = <<name>>
    BY <1>3, <1>4, <2>2, PrefixOfOne
  <2>4. handles[u].path # <<name>>
    <3>. SUFFICES ASSUME handles[u].path = <<name>> PROVE FALSE
      OBVIOUS
    <3>1. CASE <<>> \in DOMAIN Layout[handles[u].class]
      BY <1>3, <1>4, <2>2, <3>1, NoViewOfValue
    <3>2. CASE <<"id">> \in DOMAIN Layout[handles[u].class]
      <4>1. "id" \in STRING /\ <<"id">> \in Path
        BY CustomIs
      <4>2. <<name>> \o <<"id">> \in DOMAIN Layout["Custom"] /\ "Custom" \in Class
        BY <1>3, <1>4, <2>2, <3>2, <4>1, CustomAssumption DEF Views
      <4>3. IsPrefix(<<name>>, <<name>> \o <<"id">>)
        BY <1>4, <4>1, PathConcat
      <4>4. <<name>> = <<name>> \o <<"id">>
        BY <1>4, <4>2, <4>3, LeafPath
      <4>5. <<name>> \o <<>> = <<name>> \o <<"id">> /\ <<>> # <<"id">>
        BY <1>4, <4>1, <4>4, PathAlgebra, PathOfOne
      <4>. QED
        BY <1>4, <2>1, <4>1, <4>5, PathAlgebra
    <3>. QED
      BY <1>5, <3>1, <3>2
  <2>5. handles[u].path = <<>>
    BY <2>3, <2>4
  <2>. QED
    BY <1>3, <2>2, <2>5, SameHandle
\* A write to one attribute is to that attribute of the Custom.
<1>6. ASSUME NEW a \in STRING, NEW data, Put(u, <<a>>, data)
      PROVE  /\ handles[u] = handles[v] /\ handles[u].class = "Custom" /\ handles[u].path = <<>>
             /\ a = name
  <2>1. <<a>> \in Path
    BY PathOfOne
  <2>2. handles[u].root = handles[v].root /\ IsPrefix(handles[u].path \o <<a>>, <<name>>)
    BY <1>1, <1>3, <1>6, <2>1, PutToCustom
  <2>3. handles[u].path = <<>> /\ a = name
    BY <1>3, <1>4, <2>2, PrefixOfName
  <2>. QED
    BY <1>3, <2>2, <2>3, SameHandle
<1>7. ASSUME NEW a \in Names(u), Assigns(u, a)
      PROVE  /\ handles[u] = handles[v]
             /\ \/ Assigns(u, "data")
                \/ Assigns(u, "id") /\ (Raises(v)' => At(v, <<"data">>) \in Datum \cup {<<>>})
                \/ Assigns(u, "message_payload") /\ ~Raises(v)'
  <2>1. a \in DOMAIN Attribute[handles[u].class] /\ a \in STRING
    BY <1>3, AttributeAssumption DEF Names
  <2>2. CASE \E w \in Var : SetPayload(u, a, w)
    <3>1. PICK w \in Var : SetPayload(u, a, w)
      BY <2>2
    <3>2. Has(u, a, {"payload"}) /\ \E data : Put(u, <<>>, data)
      BY <3>1 DEF SetPayload
    <3>3. {<<"id">>, <<"data">>} \subseteq DOMAIN Layout[handles[u].class]
      BY <3>2, PayloadIs
    <3>4. handles[u] = handles[v] /\ handles[u].class = "Custom"
      BY <1>5, <3>2, <3>3
    <3>5. a = "message_payload"
      BY <2>1, <3>2, <3>4, CustomAssumption DEF Has
    <3>6. PICK x : At(v, <<"data">>)' = <<x>>
      BY <3>1, <3>4, PayloadIsMessage
    <3>7. <<x>> \notin Datum \cup {<<>>}
      OBVIOUS
    <3>8. ~Raises(v)'
      BY <3>6, <3>7 DEF Raises
    <3>. QED
      BY <1>7, <3>4, <3>5, <3>8
  <2>3. CASE ~\E w \in Var : SetPayload(u, a, w)
    <3>1. PICK data : Put(u, <<a>>, data)
      BY <1>7, <2>3 DEF Assigns, SetDatum, SetPart, SetCopy, SetBytes, SetList
    <3>2. handles[u] = handles[v] /\ a = name /\ handles[u].path = <<>>
      BY <1>6, <2>1, <3>1
    <3>3. CASE a = "data"
      BY <1>7, <3>2, <3>3
    <3>4. CASE a = "id"
      <4>1. At(v, <<"data">>)' = At(v, <<"data">>)
        BY <1>3, <3>1, <3>2, <3>4, IdLeavesData
      <4>2. Raises(v)' => At(v, <<"data">>)' \in Datum \cup {<<>>}
        BY DEF Raises
      <4>. QED
        BY <1>7, <3>2, <3>4, <4>1, <4>2
    <3>. QED
      BY <3>2, <3>3, <3>4
  <2>. QED
    BY <2>2, <2>3
<1>8. ASSUME NEW n \in Datum, SetFee(u, n) PROVE FALSE
  <2>1. handles[u].class = "Operation" /\ \E data : Put(u, <<>>, data)
    BY <1>8 DEF SetFee
  <2>2. <<>> \in DOMAIN Layout["Operation"]
    BY NamedAssumption, LeafAssumption
  <2>3. handles[u].class = "Custom"
    BY <1>5, <2>1, <2>2
  <2>. QED
    BY <2>1, <2>3
<1>9. ASSUME Sign(u) PROVE FALSE
  <2>1. "signatures" \in STRING
    BY NamedAssumption, SignaturesNamed
  <2>2. \E data : Put(u, <<"signatures">>, data)
    BY <1>9 DEF Sign
  <2>3. name = "signatures"
    BY <1>6, <2>1, <2>2
  <2>. QED
    BY <2>3
<1>10. ASSUME SignHeader(u) PROVE FALSE
  <2>1. "miner_signature" \in STRING
    BY SignaturesNamed
  <2>2. \E data : Put(u, <<"miner_signature">>, data)
    BY <1>10 DEF SignHeader
  <2>3. name = "miner_signature"
    BY <1>6, <2>1, <2>2
  <2>. QED
    BY <2>3
\* A block is referred to where no message is.
<1>11. ASSUME NEW n \in Datum, SetReferenceBlock(u, n) PROVE FALSE
  <2>1. IsA(u, "Transaction") /\ \E data : Put(u, <<>>, data)
    BY <1>11 DEF SetReferenceBlock
  <2>2. handles[u].path = <<>> /\ handles[u].class = objects[handles[u].root].class
    BY <2>1, UnownedIsWhole DEF Unowned
  <2>3. <<>> \in Path /\ <<>> \o <<>> = <<>> /\ <<>> \o <<name>> = <<name>>
    BY <1>4, PathAlgebra
  <2>4. handles[u].root = handles[v].root
    BY <1>1, <1>3, <2>1, <2>3, PutToCustom
  <2>5. handles[u].class = "Custom" /\ <<name>> \in DOMAIN Layout[handles[u].class]
    BY <1>4, <2>2, <2>4
  <2>6. objects'[handles[u].root].data[handles[u].path \o <<name>>]
          # objects[handles[u].root].data[handles[u].path \o <<name>>]
    <3>1. handles[v].path = <<>>
      BY CustomIs
    <3>. QED
      BY <1>1, <2>2, <2>3, <2>4, <3>1 DEF At
  <2>7. <<name>> \in {<<"ref_block_num">>, <<"ref_block_prefix">>}
    BY <1>11, <2>5, <2>6, ReferenceChanges
  <2>. QED
    BY <2>7
<1>. QED
  BY <1>2, <1>7, <1>8, <1>9, <1>10, <1>11 DEF Writes

\* When no encoded message is a plain value, a message is kept, for any classes and any
\* program.
THEOREM MessageKept == ASSUME \A x : <<x>> \notin Datum PROVE Spec => MessageIsKept
<1>1. IInv /\ WholeInv /\ [Next]_vars => [MessageKeeps]_vars
  BY StepKeepsMessage
<1>2. Spec => [][MessageKeeps]_vars
  BY <1>1, InductiveInvariant, WholeCorrect, PTL DEF Spec
<1>. QED
  BY <1>2 DEF MessageKeeps, MessageIsKept
=============================================================================
