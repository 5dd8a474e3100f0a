----------------------------- MODULE ObjectModel -----------------------------
(***************************************************************************)
(* The bound C++ objects as a Python program handles them.                 *)
(*                                                                         *)
(* An object is the data at its leaves: a part of an object (def_readwrite *)
(* of a bound class) lies inside its owner, so t.amount.asset_id is the    *)
(* leaf <<"amount", "asset_id">> of t.  Reading a part gives a VIEW, a     *)
(* Python object that points into the owner and keeps it alive.  All other *)
(* attributes are read through a function that returns a COPY, and every   *)
(* assignment and every constructor copies the right-hand side in.         *)
(*                                                                         *)
(* The classes are parameters: what ClassTable gathers from the sources,   *)
(* with the way each attribute is bound.  A signature is represented by    *)
(* what it signs.  Errors (a None for an optional, an object of a wrong    *)
(* class) change nothing and are left out.                                 *)
(***************************************************************************)
EXTENDS Integers, SequencesExt, TLC

CONSTANTS Class,     \* the names of the classes
          Attribute, \* Attribute[c][a]: how attribute a of class c is bound
          Layout,    \* Layout[c][p]: what lies at leaf p of an object of class c
          Ancestors, \* Ancestors[c]: c and its bases
          Alternatives,     \* what a variant of class c is made from
          FirstAlternative, \* what a new one holds
          Reader,           \* Reader[c][a]: the alternative that a reads
          NotConstructible  \* the classes whose objects only a Wallet makes

CONSTANTS Zero,   \* the value-initialised number, str, key, ...
          Var,    \* the variables of the Python program
          Oid,    \* the storage of C++ objects: bounds how many are alive
          Datum,  \* what a number, a str, a key, ... may be
          Messaging, \* Custom.SUBTYPE_MESSAGING
          Made,   \* bound: the classes the program makes objects of
          Used,   \* bound: the attributes it reads and assigns
          MaxLen  \* bound: items of a list property

VARIABLES objects,  \* objects[o]: the C++ object o, or Nil
          handles   \* handles[v]: what variable v refers to, or Nil

vars == <<objects, handles>>

\* What an unbound variable refers to and free storage holds.  An attribute without a
\* value (None, no bytes) is <<>>.
Nil == [class |-> "NoneType"]

\* A value-initialised object.
Fresh[c \in Class] ==
    [class |-> c,
     data |-> [p \in DOMAIN Layout[c] |->
                 LET slot == Layout[c][p]
                 IN CASE slot.kind = "ref"     -> <<Fresh[slot.class]>>
                      [] slot.kind = "variant" -> <<Fresh[FirstAlternative[slot.class]]>>
                      [] slot.kind \in {"optional", "maybe", "bytes", "list"} -> <<>>
                      [] OTHER                 -> Zero]]

ASSUME ValueAssumption ==
    /\ {Zero, Messaging} \subseteq Datum /\ <<>> \notin Datum /\ Nil.class \notin Class
    /\ MaxLen \in Nat /\ Made \subseteq Class

\* Leaves are named by the attributes on the way to them, and none lies in another.
\* What has no attributes is one leaf.
ASSUME LeafAssumption ==
    \A c \in Class :
       /\ \A p \in DOMAIN Layout[c] :
             /\ p \in Seq(STRING) /\ Layout[c][p].kind \notin {"part", "payload"}
             /\ \A q \in DOMAIN Layout[c] : IsPrefix(p, q) => p = q
       /\ <<>> \in DOMAIN Layout[c] =>
             Layout[c][<<>>] = [kind |-> IF Alternatives[c] = {} THEN "opaque" ELSE "variant", class |-> c]
       /\ Alternatives[c] # {} => <<>> \in DOMAIN Layout[c]

\* A part lies in its owner as its class lays it out, and nothing else lies there; the
\* other attributes are leaves.
ASSUME AttributeAssumption ==
    \A c \in Class : \A a \in DOMAIN Attribute[c] :
       LET bound == Attribute[c][a]
       IN /\ a \in STRING
          /\ bound.kind = "part" =>
                /\ bound.class \in Class
                /\ \A p \in DOMAIN Layout[c] : p # <<>> /\ Head(p) = a =>
                      Tail(p) \in DOMAIN Layout[bound.class]
                /\ \A q \in DOMAIN Layout[bound.class] :
                      /\ <<a>> \o q \in DOMAIN Layout[c]
                      /\ Layout[c][<<a>> \o q] = Layout[bound.class][q]
          /\ bound.kind = "payload" =>
                /\ bound.class = "MessagePayload" /\ {<<"id">>, <<"data">>} \subseteq DOMAIN Layout[c]
                /\ Layout[c][<<"id">>].kind = "plain" /\ Layout[c][<<"data">>].kind = "bytes"
          /\ bound.kind \notin {"part", "payload"} =>
                <<a>> \in DOMAIN Layout[c] /\ Layout[c][<<a>>] = bound

\* A base's leaves are where they are in the base.
ASSUME BaseAssumption ==
    \A c \in Class : \A b \in Ancestors[c] :
       /\ b \in Class
       /\ \A p \in DOMAIN Layout[b] : p \in DOMAIN Layout[c] /\ Layout[c][p] = Layout[b][p]

\* The recursion of Fresh ends.
ASSUME FreshAssumption ==
    \A c \in Class :
       /\ Alternatives[c] \subseteq Class
       /\ Alternatives[c] # {} => FirstAlternative[c] \in Alternatives[c]
       /\ Fresh[c] = [class |-> c, data |-> [p \in DOMAIN Layout[c] |-> Fresh[c].data[p]]]
       /\ \A p \in DOMAIN Layout[c] :
             LET slot == Layout[c][p]
                 d    == Fresh[c].data[p]
             IN /\ slot.kind = "ref" => slot.class \in Class /\ d = <<Fresh[slot.class]>>
                /\ slot.kind = "variant" => /\ slot.class \in Class /\ Alternatives[slot.class] # {}
                                            /\ d = <<Fresh[FirstAlternative[slot.class]]>>
                /\ slot.kind \in {"optional", "maybe", "bytes", "list"} => d = <<>>
                /\ slot.kind = "plain" => d = Zero

\* Only variants have readers of their alternatives.
ASSUME ReaderAssumption ==
    \A c \in Class : DOMAIN Reader[c] # {} => Alternatives[c] # {}

\* What the methods write: set_fee, set_reference_block and the two that sign.
ASSUME NamedAssumption ==
    /\ {"Operation", "Transaction", "SignedTransaction", "CompactSignature",
         "BlockHeader", "SignedBlockHeader"} \subseteq Class
    /\ Alternatives["Operation"] # {}
    /\ \A c \in Alternatives["Operation"] :
          /\ {<<"fee", "amount">>, <<"fee", "asset_id">>} \subseteq DOMAIN Layout[c]
          /\ Layout[c][<<"fee", "amount">>].kind = "plain"
          /\ Layout[c][<<"fee", "asset_id">>].kind = "opaque"
    /\ \A half \in {<<"ref_block_num">>, <<"ref_block_prefix">>} :
          half \in DOMAIN Layout["Transaction"] /\ Layout["Transaction"][half].kind = "plain"
    /\ <<"miner_signature">> \in DOMAIN Layout["SignedBlockHeader"]
    /\ Layout["SignedBlockHeader"][<<"miner_signature">>].kind = "opaque"
    /\ <<"signatures">> \in DOMAIN Layout["SignedTransaction"]
    /\ Layout["SignedTransaction"][<<"signatures">>].kind = "list"
    /\ Layout["SignedTransaction"][<<"signatures">>].class = "CompactSignature"
    /\ Alternatives["CompactSignature"] = {} /\ DOMAIN Layout["CompactSignature"] = {<<>>}

\* What has a method that writes its own leaves: never part of another object.
Unowned == {"Transaction", "SignedTransaction", "SignedBlockHeader"}

\* A transaction is no part of another object and no block header, and nothing can be
\* assigned in the parts of a signed one.
ASSUME TransactionAssumption ==
    /\ "Transaction" \in Ancestors["SignedTransaction"] /\ <<"signatures">> \notin DOMAIN Layout["Transaction"]
    /\ \A c \in Class : ~({"SignedTransaction", "SignedBlockHeader"} \subseteq Ancestors[c])
    /\ \A c \in Class : \A a \in DOMAIN Attribute[c] : Attribute[c][a].kind = "part" =>
          LET part == Attribute[c][a].class
          IN /\ Unowned \cap Ancestors[part] = {}
             /\ "SignedTransaction" \in Ancestors[c] => DOMAIN Attribute[part] = {} /\ part # "Operation"

\* A Custom is no part of another object, nothing derives from it, and these attributes
\* hold its message.
ASSUME CustomAssumption ==
    /\ "Custom" \in Class /\ {"id", "data"} \subseteq DOMAIN Attribute["Custom"]
    /\ Attribute["Custom"]["id"].kind = "plain" /\ Attribute["Custom"]["data"].kind = "bytes"
    /\ \A a \in DOMAIN Attribute["Custom"] : Attribute["Custom"][a].kind = "payload" => a = "message_payload"
    /\ \A c \in Class :
          /\ "Custom" \in Ancestors[c] => c = "Custom"
          /\ \A a \in DOMAIN Attribute[c] : Attribute[c][a].kind = "part" =>
                "Custom" \notin Ancestors[Attribute[c][a].class]

Init ==
    /\ objects = [o \in Oid |-> Nil]
    /\ handles = [v \in Var |-> Nil]

-----------------------------------------------------------------------------
\* What handle h shows: the data under its path.
Seen(h) ==
    [class |-> h.class,
     data |-> [p \in DOMAIN Layout[h.class] |-> objects[h.root].data[h.path \o p]]]

\* A copy of the object that v refers to as a c: what c does not have is cut off.
CopyAs(v, c) ==
    [class |-> c, data |-> [p \in DOMAIN Layout[c] |-> Seen(handles[v]).data[p]]]

IsA(v, c) == handles[v] # Nil /\ c \in Ancestors[handles[v].class]

\* What the program reads and assigns of the object that v refers to.
Names(v) == IF handles[v] = Nil THEN {} ELSE Used \cap DOMAIN Attribute[handles[v].class]

Has(v, a, kinds) == a \in Names(v) /\ Attribute[handles[v].class][a].kind \in kinds

ClassOf(v, a) == Attribute[handles[v].class][a].class

\* The data at an attribute that is a leaf.
At(v, place) == objects[handles[v].root].data[handles[v].path \o place]

\* Mutant: a view does not hold its owner.
BindUnkept(v, h, store) ==
    /\ handles' = [handles EXCEPT ![v] = h]
    /\ objects' = [o \in Oid |->
                     IF \E w \in Var : handles'[w] # Nil /\ handles'[w].root = o /\ handles'[w].path = <<>>
                     THEN store[o] ELSE Nil]

\* v is bound to h and refers to no other object any more: what nobody refers to
\* is freed.  A view holds its owner (with_custodian_and_ward).
Bind(v, h, store) ==
    /\ handles' = [handles EXCEPT ![v] = h]
    /\ objects' = [o \in Oid |->
                     IF \E w \in Var : handles'[w] # Nil /\ handles'[w].root = o
                     THEN store[o] ELSE Nil]

\* v is bound to a new object, in free storage: what v referred to is freed only
\* after the new object exists.
BindNew(v, value) ==
    \E o \in Oid :
        /\ objects[o] = Nil
        /\ Bind(v, [root |-> o, path |-> <<>>, class |-> value.class], [objects EXCEPT ![o] = value])

Unbind(v) == Bind(v, Nil, objects)

\* Mutant: the place is shared by all objects of the class.
PutShared(v, place, data) ==
    LET spot == handles[v].path \o place
        class == objects[handles[v].root].class
    IN /\ objects' = [o \in Oid |->
             IF objects[o] = Nil THEN Nil
             ELSE IF objects[o].class # class THEN objects[o]
             ELSE [objects[o] EXCEPT !.data =
                        [p \in DOMAIN @ |->
                            IF IsPrefix(spot, p) THEN data[SubSeq(p, Len(spot) + 1, Len(p))]
                            ELSE @[p]]]]
       /\ UNCHANGED handles

\* The data, keyed by leaf, is copied to this place in what v refers to.
Put(v, place, data) ==
    LET root == handles[v].root
        spot == handles[v].path \o place
        old  == objects[root].data
        new  == [p \in DOMAIN old |->
                    IF IsPrefix(spot, p) THEN data[SubSeq(p, Len(spot) + 1, Len(p))] ELSE old[p]]
    IN objects' = [objects EXCEPT ![root].data = new] /\ UNCHANGED handles

Leaf(d) == [p \in {<<>>} |-> d]

-----------------------------------------------------------------------------
\* v = Transfer() and the like; v = wallet.get_...() for what only a Wallet makes.
Make(v, c) == c \notin NotConstructible /\ BindNew(v, Fresh[c])

Fetch(v, c) == c \in NotConstructible /\ BindNew(v, Fresh[c])

\* v = u, del v
Alias(v, u) == handles[u] # Nil /\ Bind(v, handles[u], objects)

Del(v) == handles[v] # Nil /\ Unbind(v)

\* v = u.fee: return_internal_reference.
ReadPart(v, u, a) ==
    /\ Has(u, a, {"part"})
    /\ Bind(v, [root |-> handles[u].root, path |-> Append(handles[u].path, a),
                class |-> ClassOf(u, a)], objects)

\* Mutant: return_internal_reference, of what the pointer holds now.
ReadCopyInPlace(v, u, a) ==
    /\ Has(u, a, {"optional", "ref"})
    /\ IF At(u, <<a>>) = <<>> THEN Unbind(v)
       ELSE Bind(v, [handles[u] EXCEPT !.path = Append(@, a), !.class = ClassOf(u, a)], objects)

\* v = u.memo: decode_optional_type; v = u.current_fees: decode_smart_ref.
ReadCopy(v, u, a) ==
    /\ Has(u, a, {"optional", "ref"})
    /\ IF At(u, <<a>>) = <<>> THEN Unbind(v) ELSE BindNew(v, At(u, <<a>>)[1])

\* Mutant: the list that is read takes the elements over.
ReadItemMoved(v, u, a, i) ==
    /\ Has(u, a, {"list"}) /\ i \in 1..Len(At(u, <<a>>))
    /\ \E o \in Oid :
          /\ objects[o] = Nil
          /\ Bind(v, [root |-> o, path |-> <<>>, class |-> At(u, <<a>>)[i].class],
                  [objects EXCEPT ![o] = At(u, <<a>>)[i],
                                  ![handles[u].root] =
                                     [@ EXCEPT !.data[Append(handles[u].path, a)] = <<>>]])

\* v = u.operations[i]: encode_list builds a list of copies.
ReadItem(v, u, a, i) ==
    /\ Has(u, a, {"list"}) /\ i \in 1..Len(At(u, <<a>>))
    /\ BindNew(v, At(u, <<a>>)[i])

\* Bound: the program makes no operation of a proposal that proposes a proposal.
Listed(value) == UNION {ToSet(value.data[p]) : p \in {q \in DOMAIN Layout[value.class] :
                                                         Layout[value.class][q].kind = "list"}}

Shallow(value) ==
    \A x \in Listed(value) : x.class = "Operation" => x.data[<<>>][1].class # "CreateProposal"

\* Mutant: an Operation is made of anything.
WrapAny(v, c, u) ==
    /\ handles[u] # Nil /\ Alternatives[c] # {}
    /\ Shallow(Seen(handles[u]))
    /\ BindNew(v, [class |-> c, data |-> Leaf(<<Seen(handles[u])>>)])

\* v = Operation(u)
Wrap(v, c, u) ==
    /\ handles[u] # Nil /\ handles[u].class \in Alternatives[c]
    /\ Shallow(Seen(handles[u]))
    /\ BindNew(v, [class |-> c, data |-> Leaf(<<Seen(handles[u])>>)])

\* v = u.transfer: a copy of the operation, or None when it is another one.
ReadAlternative(v, u, a) ==
    /\ handles[u] # Nil /\ a \in Used \cap DOMAIN Reader[handles[u].class]
    /\ IF At(u, <<>>)[1].class = Reader[handles[u].class][a]
       THEN BindNew(v, At(u, <<>>)[1]) ELSE Unbind(v)

\* Mutant: the getter moves the bytes out of the operation.
ReadPayloadMoved(v, u, a) ==
    /\ Has(u, a, {"payload"})
    /\ At(u, <<"id">>) = Messaging /\ At(u, <<"data">>) \notin Datum \cup {<<>>}
    /\ \E o \in Oid :
          /\ objects[o] = Nil
          /\ Bind(v, [root |-> o, path |-> <<>>, class |-> "MessagePayload"],
                  [objects EXCEPT ![o] = At(u, <<"data">>)[1],
                                  ![handles[u].root] = [@ EXCEPT !.data[<<"data">>] = <<>>]])

\* v = u.message_payload: what data encodes, if id says it is a message, else None.
\* It raises when data encodes nothing.
ReadPayload(v, u, a) ==
    /\ Has(u, a, {"payload"})
    /\ IF At(u, <<"id">>) # Messaging THEN Unbind(v)
       ELSE /\ At(u, <<"data">>) \notin Datum \cup {<<>>}
            /\ BindNew(v, At(u, <<"data">>)[1])

-----------------------------------------------------------------------------
\* u.amount = n: encode_safe_type, encode_optional_type, or a plain member.
SetDatum(u, a, n) ==
    /\ Has(u, a, {"plain", "maybe"}) /\ Attribute[handles[u].class][a].set
    /\ Put(u, <<a>>, Leaf(n))

\* u.fee = w: the object is copied into its place in the owner.
SetPart(u, a, w) ==
    /\ Has(u, a, {"part"}) /\ Attribute[handles[u].class][a].set
    /\ IsA(w, ClassOf(u, a))
    /\ Put(u, <<a>>, CopyAs(w, ClassOf(u, a)).data)

\* Mutant: the object itself may be None, which unsets the attribute.
SetCopyOrNone(u, a, w) ==
    /\ Has(u, a, {"optional", "ref"})
    /\ IF handles[w] = Nil THEN Put(u, <<a>>, Leaf(<<>>))
       ELSE IsA(w, ClassOf(u, a)) /\ Put(u, <<a>>, Leaf(<<CopyAs(w, ClassOf(u, a))>>))

\* u.memo = w: encode_optional_type; u.current_fees = w: encode_smart_ref.
SetCopy(u, a, w) ==
    /\ Has(u, a, {"optional", "ref"}) /\ IsA(w, ClassOf(u, a))
    /\ Put(u, <<a>>, Leaf(<<CopyAs(w, ClassOf(u, a))>>))

\* u.data = bytearray(...), None (no bytes), or the bytes of another attribute.
\* Bound: the program puts no encoded message into a message.
SetBytes(u, a, b) ==
    /\ Has(u, a, {"bytes"})
    /\ b \in Datum \cup {<<>>} \/ handles[u].class = "Custom"
    /\ Put(u, <<a>>, Leaf(b))

BytesOf(w) == {At(w, <<a>>) : a \in {b \in Names(w) : Attribute[handles[w].class][b].kind = "bytes"}}

\* u.message_payload = w: chain code encodes it into data; whether it sets id as
\* well cannot be seen from here (tests/message.py sets it first).
SetPayload(u, a, w) ==
    /\ Has(u, a, {"payload"}) /\ IsA(w, ClassOf(u, a))
    /\ \E n \in {At(u, <<"id">>), Messaging} :
          Put(u, <<>>, [Seen(handles[u]).data EXCEPT ![<<"data">>] = <<CopyAs(w, ClassOf(u, a))>>,
                                                     ![<<"id">>] = n])

ItemLists == UNION {[1..n -> Var] : n \in 0..MaxLen}

\* u.operations = [...]: decode_list copies the items in.
SetList(u, a, list) ==
    /\ Has(u, a, {"list"}) /\ Attribute[handles[u].class][a].set
    /\ \A i \in 1..Len(list) : IsA(list[i], ClassOf(u, a))
    /\ Put(u, <<a>>, Leaf([i \in 1..Len(list) |-> CopyAs(list[i], ClassOf(u, a))]))

\* FeeSchedule.set_fee(u, price) writes the fee, in the core asset, into the operation.
SetFee(u, n) ==
    /\ handles[u] # Nil /\ handles[u].class = "Operation"
    /\ Put(u, <<>>, Leaf(<<[At(u, <<>>)[1] EXCEPT !.data =
                 [@ EXCEPT ![<<"fee", "amount">>] = n, ![<<"fee", "asset_id">>] = Zero]]>>))

\* u.set_reference_block(id) writes both numbers; n stands for the two that the chain
\* code cuts out of the block id.
SetReferenceBlock(u, n) ==
    /\ IsA(u, "Transaction")
    /\ Put(u, <<>>, [Seen(handles[u]).data EXCEPT ![<<"ref_block_num">>] = n, ![<<"ref_block_prefix">>] = n])

\* What a signature is made of: all that a Transaction holds.
Digest(t) == CopyAs(t, "Transaction").data

\* u.sign(key, chain_id) adds a signature of the digest.
Sign(u) ==
    /\ IsA(u, "SignedTransaction")
    /\ Len(At(u, <<"signatures">>)) < MaxLen
    /\ Put(u, <<"signatures">>,
           Leaf(Append(At(u, <<"signatures">>), [class |-> "CompactSignature", data |-> Leaf(Digest(u))])))

\* u.sign(key) of a block header: the one signature of what a BlockHeader holds.
SignHeader(u) ==
    /\ IsA(u, "SignedBlockHeader")
    /\ Put(u, <<"miner_signature">>, Leaf(CopyAs(u, "BlockHeader").data))

Reads(v, u) ==
    \/ Alias(v, u)
    \/ \E c \in Made : Wrap(v, c, u)
    \/ \E a \in Names(u) :
          \/ ReadPart(v, u, a) \/ ReadCopy(v, u, a) \/ ReadPayload(v, u, a)
          \/ \E i \in 1..MaxLen : ReadItem(v, u, a, i)
    \/ \E a \in Used : ReadAlternative(v, u, a)

Assigns(u, a) ==
    \/ \E n \in Datum : SetDatum(u, a, n)
    \/ \E w \in Var : SetPart(u, a, w) \/ SetCopy(u, a, w) \/ SetPayload(u, a, w)
    \/ \E b \in Datum \cup {<<>>} \cup UNION {BytesOf(w) : w \in Var} : SetBytes(u, a, b)
    \/ \E list \in ItemLists : SetList(u, a, list)

Writes(u) ==
    \/ \E a \in Names(u) : Assigns(u, a)
    \/ \E n \in Datum : SetFee(u, n) \/ SetReferenceBlock(u, n)
    \/ Sign(u) \/ SignHeader(u)

Next ==
    \/ \E v \in Var : Del(v) \/ \E c \in Made : Make(v, c) \/ Fetch(v, c)
    \/ \E v, u \in Var : Reads(v, u)
    \/ \E u \in Var : Writes(u)

Spec == Init /\ [][Next]_vars

-----------------------------------------------------------------------------
\* What the leaf of an object may hold.
Holds(slot, d) ==
    /\ slot.kind = "plain"    => d \in Datum
    /\ slot.kind = "maybe"    => d \in Datum \cup {<<>>}
    /\ slot.kind = "bytes"    => d \in Datum \cup {<<>>} \/ d[1].class = "MessagePayload"
    /\ slot.kind = "optional" => Len(d) <= 1 /\ \A i \in 1..Len(d) : d[i].class = slot.class
    /\ slot.kind = "ref"      => Len(d) = 1 /\ d[1].class = slot.class
    /\ slot.kind = "list"     => Len(d) <= MaxLen /\ \A i \in 1..Len(d) : d[i].class = slot.class
    /\ slot.kind = "variant"  => Len(d) = 1 /\ d[1].class \in Alternatives[slot.class]

TypeOK ==
    /\ \A o \in Oid : objects[o] # Nil =>
          LET x == objects[o]
          IN /\ x.class \in Class /\ DOMAIN x.data = DOMAIN Layout[x.class]
             /\ \A p \in DOMAIN x.data : Holds(Layout[x.class][p], x.data[p])
    /\ \A v \in Var : handles[v] # Nil => handles[v].root \in Oid /\ handles[v].class \in Class

\* Only parts, whose place in their owner is fixed, are handed out as views, and a
\* view keeps its owner: whatever is assigned, rebound or deleted, and in whatever
\* order, a variable refers to living storage that is laid out as its class is
\* (the def_readwrite members of operation.cpp and the templates of
\* module.hpp:27-131).
NoDangling ==
    \A v \in Var : handles[v] # Nil =>
        LET h == handles[v]
        IN /\ objects[h.root] # Nil
           /\ \A p \in DOMAIN Layout[h.class] : h.path \o p \in DOMAIN objects[h.root].data

\* Whatever a static_variant was made from, one of its properties gives it back
\* (operation.cpp:80-171, 358-364, miner.cpp:54-60).  The exception is a predicate on
\* an asset's symbol: two properties of Predicate have one name, and the second of
\* them hides it (operation.cpp:441-443).
Readable ==
    \A v \in Var :
        (handles[v] # Nil /\ Alternatives[handles[v].class] # {}) =>
            LET held == At(v, <<>>)[1].class
            IN \/ \E a \in DOMAIN Reader[handles[v].class] : Reader[handles[v].class][a] = held
               \/ held = "AssetNameEquals"

Overlap(p, q) == IsPrefix(p, q) \/ IsPrefix(q, p)

\* The variables that refer to the same place before and after a step and see it change.
Changed == {v \in Var : /\ handles[v] # Nil /\ handles'[v] = handles[v]
                        /\ Seen(handles[v])' # Seen(handles[v])}

\* All that changes lies in, around or at this place of what u refers to.
Within(u, place) ==
    \A v \in Changed : /\ handles[u].root = handles[v].root
                       /\ Overlap(handles[u].path \o place, handles[v].path)

\* Whatever a variable shows changes only by a write to a place that lies in, around
\* or at it: what was put into an operation, a transaction or another object by
\* value never changes behind its back, a write to a copy or to one part changes
\* nothing else, and reading changes nothing (module.hpp:27-131, chain.cpp:7-17).
WriteIsLocal ==
    [][Changed # {} =>
          \E u \in Var :
             /\ handles[u] # Nil
             /\ \/ \E a \in Names(u) : Within(u, <<a>>) /\ Assigns(u, a)
                \/ Within(u, <<>>) /\ \E n \in Datum : SetFee(u, n) \/ SetReferenceBlock(u, n)
                \/ Within(u, <<"signatures">>) /\ Sign(u)
                \/ Within(u, <<"miner_signature">>) /\ SignHeader(u)]_vars

\* An optional attribute that has been set is unset only together with the part it
\* lies in, by an assignment to that part: there is no assignment that unsets it
\* (module.hpp:121-125, asset.cpp:13-20).
StaysSet ==
    [][\A o \in Oid : objects[o] # Nil /\ objects'[o] # Nil =>
          \A p \in DOMAIN objects[o].data :
             (/\ Layout[objects[o].class][p].kind \in {"optional", "maybe"}
              /\ objects[o].data[p] # <<>> /\ objects'[o].data[p] = <<>>)
             => \E u, w \in Var : \E a \in Names(u) :
                  /\ handles[u].root = o
                  /\ IsStrictPrefix(Append(handles[u].path, a), p)
                  /\ SetPart(u, a, w)]_vars

\* Reading message_payload of this object would raise.
Raises(v) ==
    IsA(v, "Custom") /\ At(v, <<"id">>) = Messaging /\ At(v, <<"data">>) \in Datum \cup {<<>>}

\* What reading message_payload gives, None included.
Message(v) == IF IsA(v, "Custom") /\ At(v, <<"id">>) = Messaging THEN At(v, <<"data">>) ELSE <<>>

\* The message of a Custom is what was put into it last, whatever became of the
\* MessagePayload and of its receivers since; and a Custom whose message can be
\* read goes on being one unless data is assigned by hand, or id before there is
\* anything in data (operation.cpp:24-46, common.cpp:91-117).
MessageIsKept ==
    [][\A v \in Var :
          (IsA(v, "Custom") /\ handles'[v] = handles[v] /\ Message(v)' # Message(v)) =>
             \E u \in Var : /\ handles[u] = handles[v]
                           /\ \/ Assigns(u, "data")
                              \/ Assigns(u, "id") /\ (Raises(v)' => At(v, <<"data">>) \in Datum \cup {<<>>})
                              \/ Assigns(u, "message_payload") /\ ~Raises(v)']_vars

HasSigned(v) ==
    /\ IsA(v, "SignedTransaction")
    /\ \E i \in 1..Len(At(v, <<"signatures">>)) :
          At(v, <<"signatures">>)[i].data = Leaf(Digest(v))

\* A transaction that carries a signature of what it holds stops doing so only by an
\* assignment to its own attributes or by its own set_reference_block: not through the
\* operations it was built from, the objects those were built from (a proposal's
\* operations among them), what was read back from it, set_fee or signing again
\* (common.cpp:74-79, 287-308).
SealedBySignature ==
    [][\A v \in Var :
          (HasSigned(v) /\ handles'[v] = handles[v] /\ ~HasSigned(v)')
            => \E u \in Var : /\ IsA(u, "SignedTransaction") /\ handles[u].root = handles[v].root
                              /\ \/ \E a \in Names(u) : Assigns(u, a)
                                 \/ \E n \in Datum : SetReferenceBlock(u, n)]_vars
=============================================================================
