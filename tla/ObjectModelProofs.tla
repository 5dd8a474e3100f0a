-------------------------- MODULE ObjectModelProofs --------------------------
(***************************************************************************)
(* Theorems about ObjectModel, for every table of classes that satisfies   *)
(* its assumptions, any variables and any storage.                         *)
(***************************************************************************)
EXTENDS ObjectModel, SequenceTheorems, TLAPS

-----------------------------------------------------------------------------
(* Paths *)

Path == Seq(STRING)

LEMMA PathConcat ==
    ASSUME NEW p \in Path, NEW q \in Path
    PROVE  /\ p \o q \in Path
           /\ IsPrefix(p, p \o q)
           /\ SubSeq(p \o q, Len(p) + 1, Len(p \o q)) = q
<1>. DEFINE s == p \o q
            t == SubSeq(s, Len(p) + 1, Len(s))
<1>1. /\ s \in Path /\ Len(s) = Len(p) + Len(q)
      /\ \A i \in 1..Len(s) : s[i] = IF i <= Len(p) THEN p[i] ELSE q[i - Len(p)]
      /\ Len(p) \in Nat /\ Len(q) \in Nat
  BY ConcatProperties, LenProperties DEF Path
<1>. HIDE DEF s
<1>2. IsPrefix(p, s)
  <2>1. SubSeq(p, 1, Len(p)) = p
    BY SubSeqFull DEF Path
  <2>2. \A i \in 1..Len(p) : s[i] = p[i] /\ s[i] \in STRING
    BY <1>1, ElementOfSeq DEF Path
  <2>3. /\ SubSeq(s, 1, Len(p)) \in Path
        /\ Len(SubSeq(s, 1, Len(p))) = Len(p)
        /\ \A i \in 1..Len(p) : SubSeq(s, 1, Len(p))[i] = s[i]
    <3>1. /\ SubSeq(s, 1, Len(p)) \in Seq(STRING)
          /\ Len(SubSeq(s, 1, Len(p))) = IF 1 <= Len(p) THEN Len(p) - 1 + 1 ELSE 0
          /\ \A i \in 1..Len(p) - 1 + 1 : SubSeq(s, 1, Len(p))[i] = s[1 + i - 1]
      BY <1>1, <2>2, SubSeqProperties
    <3>. QED
      BY <1>1, <3>1 DEF Path
  <2>4. SubSeq(s, 1, Len(p)) = p
    BY <1>1, <2>2, <2>3, SeqEqual DEF Path
  <2>. QED
    BY <1>1, <2>1, <2>4 DEF IsPrefix
<1>3. t = q
  <2>1. \A i \in Len(p) + 1 .. Len(s) : s[i] \in STRING
    BY <1>1, ElementOfSeq DEF Path
  <2>2. /\ t \in Seq(STRING)
        /\ Len(t) = IF Len(p) + 1 <= Len(s) THEN Len(s) - (Len(p) + 1) + 1 ELSE 0
        /\ \A i \in 1 .. Len(s) - (Len(p) + 1) + 1 : t[i] = s[Len(p) + 1 + i - 1]
    BY <1>1, <2>1, SubSeqProperties
  <2>. HIDE DEF t
  <2>3. Len(t) = Len(q)
    BY <1>1, <2>2
  <2>4. \A i \in 1..Len(q) : t[i] = s[Len(p) + i]
    BY <1>1, <2>2
  <2>5. \A i \in 1..Len(q) : s[Len(p) + i] = q[i]
    BY <1>1
  <2>. QED
    BY <1>1, <2>2, <2>3, <2>4, <2>5, SeqEqual DEF Path
<1>. QED
  BY <1>1, <1>2, <1>3 DEF s

\* What has a prefix is that prefix and the rest.
LEMMA PathSplit ==
    ASSUME NEW p \in Path, NEW s \in Path, IsPrefix(s, p)
    PROVE  \E q \in Path : p = s \o q
<1>. DEFINE q == SubSeq(p, Len(s) + 1, Len(p))
<1>1. Len(s) \in Nat /\ Len(p) \in Nat /\ Len(s) <= Len(p)
  BY LenProperties DEF IsPrefix, Path
<1>2. SubSeq(p, 1, Len(s)) \o q = SubSeq(p, 1, Len(p))
  <2>1. 1 \in 1..Len(p) + 1 /\ Len(s) \in 1 - 1..Len(p) /\ Len(p) \in Len(s)..Len(p)
    BY <1>1
  <2>2. p \in Seq(STRING)
    BY DEF Path
  <2>. QED
    BY <2>1, <2>2, ConcatAdjacentSubSeq
<1>3. SubSeq(p, 1, Len(s)) = s
  BY SubSeqFull DEF IsPrefix, Path
<1>4. SubSeq(p, 1, Len(p)) = p
  BY SubSeqFull DEF Path
<1>5. q \in Path
  <2>1. \A i \in Len(s) + 1 .. Len(p) : p[i] \in STRING
    BY <1>1, ElementOfSeq DEF Path
  <2>. QED
    BY <1>1, <2>1, SubSeqProperties DEF Path
<1>. QED
  BY <1>2, <1>3, <1>4, <1>5

LEMMA PathAlgebra ==
    /\ <<>> \in Path
    /\ \A p \in Path : p \o <<>> = p /\ <<>> \o p = p
    /\ \A p, q, r \in Path : (p \o q) \o r = p \o (q \o r)
    /\ \A p, q, r \in Path : p \o q = p \o r => q = r
<1>1. <<>> \in Path
  BY EmptySeq DEF Path
<1>2. \A p \in Path : p \o <<>> = p /\ <<>> \o p = p
  BY ConcatEmptySeq DEF Path
<1>3. \A p, q, r \in Path : (p \o q) \o r = p \o (q \o r)
  BY ConcatAssociative DEF Path
<1>4. \A p, q, r \in Path : p \o q = p \o r => q = r
  <2>. SUFFICES ASSUME NEW p \in Path, NEW q \in Path, NEW r \in Path, p \o q = p \o r
                PROVE  q = r
    OBVIOUS
  <2>1. q = SubSeq(p \o q, Len(p) + 1, Len(p \o q)) /\ r = SubSeq(p \o r, Len(p) + 1, Len(p \o r))
    BY PathConcat
  <2>. QED
    BY <2>1
<1>. QED
  BY <1>1, <1>2, <1>3, <1>4

LEMMA PathAssociative ==
    ASSUME NEW p \in Path, NEW q \in Path, NEW r \in Path
    PROVE  (p \o q) \o r = p \o (q \o r)
  BY PathAlgebra

LEMMA PrefixExtended ==
    ASSUME NEW p \in Path, NEW q \in Path, NEW t \in Path, IsPrefix(p, q)
    PROVE  IsPrefix(p, q \o t)
<1>1. PICK r \in Path : q = p \o r
  BY PathSplit
<1>2. (p \o r) \o t = p \o (r \o t)
  BY PathAssociative
<1>3. r \o t \in Path
  BY PathConcat
<1>4. IsPrefix(p, p \o (r \o t))
  BY <1>3, PathConcat
<1>. QED
  BY <1>1, <1>2, <1>4

LEMMA EmptyIsPrefix ==
    ASSUME NEW e, e = <<>>, NEW q \in Path
    PROVE  IsPrefix(e, q)
<1>1. e \in Path /\ e \o q = q
  BY PathAlgebra
<1>. QED
  BY <1>1, PathConcat

LEMMA PathOfOne ==
    ASSUME NEW a \in STRING
    PROVE  /\ <<a>> \in Path /\ <<a>> # <<>>
           /\ \A p \in Path : Append(p, a) = p \o <<a>>
           /\ \A q \in Path : <<a>> \o q # <<>> /\ Head(<<a>> \o q) = a /\ Tail(<<a>> \o q) = q
<1>1. <<a>> \in Seq(STRING) /\ Len(<<a>>) = 1 /\ <<a>>[1] = a
  <2>1. <<a>> \in Seq(STRING)
    <3>1. <<>> \in Seq(STRING)
      BY EmptySeq
    <3>2. Append(<<>>, a) \in Seq(STRING)
      BY <3>1, AppendProperties
    <3>3. Append(<<>>, a) = <<a>>
      BY Z3
    <3>. QED
      BY <3>2, <3>3
  <2>2. Len(<<a>>) = 1
    BY Z3
  <2>3. <<a>>[1] = a
    BY Z3
  <2>. QED
    BY <2>1, <2>2, <2>3
<1>2. \A p \in Path : Append(p, a) = p \o <<a>>
  BY AppendIsConcat DEF Path
<1>3. ASSUME NEW q \in Path PROVE <<a>> \o q # <<>> /\ Head(<<a>> \o q) = a /\ Tail(<<a>> \o q) = q
  <2>. DEFINE s == <<a>> \o q
  <2>0. q \in Seq(STRING) /\ Len(q) \in Nat
    BY LenProperties DEF Path
  <2>1. s \in Seq(STRING) /\ Len(s) = 1 + Len(q) /\ s[1] = <<a>>[1]
    <3>1. s \in Seq(STRING) /\ Len(s) = Len(<<a>>) + Len(q)
      BY <1>1, <2>0, ConcatProperties
    <3>2. \A i \in 1..Len(<<a>>) + Len(q) : s[i] = IF i <= Len(<<a>>) THEN <<a>>[i] ELSE q[i - Len(<<a>>)]
      BY <1>1, <2>0, ConcatProperties
    <3>3. 1 \in 1..Len(<<a>>) + Len(q) /\ 1 <= Len(<<a>>)
      BY <1>1, <2>0
    <3>. HIDE DEF s
    <3>. QED
      BY <1>1, <3>1, <3>2, <3>3
  <2>2. s # <<>>
    <3>. HIDE DEF s
    <3>1. Len(s) # 0
      BY <2>0, <2>1
    <3>. QED
      BY <3>1, EmptySeq
  <2>3. Tail(s) = SubSeq(s, 2, Len(s)) /\ Head(s) = s[1]
    <3>. HIDE DEF s
    <3>1. Tail(s) = SubSeq(s, 2, Len(s))
      BY <2>1, <2>2, TailIsSubSeq
    <3>2. Head(s) = s[1]
      <4>1. 1 \in 1..Len(s) /\ Len(s) \in 1..Len(s)
        BY <2>0, <2>1
      <4>2. Head(SubSeq(s, 1, Len(s))) = s[1]
        BY <2>1, <4>1, HeadTailOfSubSeq
      <4>. QED
        BY <2>1, <4>2, SubSeqFull
    <3>. QED
      BY <3>1, <3>2
  <2>4. SubSeq(s, Len(<<a>>) + 1, Len(s)) = q
    BY <1>1, PathConcat DEF Path
  <2>5. SubSeq(s, 2, Len(s)) = q
    <3>. HIDE DEF s
    <3>. QED
      BY <1>1, <2>4
  <2>. QED
    BY <1>1, <2>1, <2>2, <2>3, <2>5
<1>4. <<a>> # <<>>
  BY <1>1, EmptySeq
<1>. QED
  BY <1>1, <1>2, <1>3, <1>4 DEF Path

LEMMA PrefixByItem ==
    ASSUME NEW s \in Path, NEW t \in Path
    PROVE  IsPrefix(s, t) <=> Len(s) <= Len(t) /\ \A i \in 1..Len(s) : s[i] = t[i]
<1>. DEFINE n == Len(s)
<1>1. n \in Nat /\ Len(t) \in Nat /\ s \in [1..n -> STRING]
  BY LenProperties DEF Path
<1>2. ASSUME n <= Len(t) PROVE SubSeq(s, 1, n) = SubSeq(t, 1, n) <=> \A i \in 1..n : s[i] = t[i]
  <2>1. SubSeq(s, 1, n) = [i \in 1..n |-> s[i]]
    BY <1>1
  <2>2. SubSeq(t, 1, n) = [i \in 1..n |-> t[i]]
    BY <1>1, <1>2
  <2>. QED
    BY <2>1, <2>2
<1>. QED
  BY <1>2 DEF IsPrefix

\* Two beginnings of one path overlap.
LEMMA PathOverlap ==
    ASSUME NEW p \in Path, NEW s \in Path, NEW t \in Path, IsPrefix(s, p), IsPrefix(t, p)
    PROVE  Overlap(s, t)
<1>1. Len(s) \in Nat /\ Len(t) \in Nat
  BY LenProperties DEF Path
<1>2. /\ \A i \in 1..Len(s) : s[i] = p[i]
      /\ \A i \in 1..Len(t) : t[i] = p[i]
  BY PrefixByItem
<1>3. CASE Len(s) <= Len(t)
  BY <1>1, <1>2, <1>3, PrefixByItem DEF Overlap
<1>4. CASE Len(t) <= Len(s)
  BY <1>1, <1>2, <1>4, PrefixByItem DEF Overlap
<1>. QED
  BY <1>1, <1>3, <1>4

-----------------------------------------------------------------------------
(* The inductive invariant *)

\* What may lie at a leaf, when the objects in it are of S.
Proper(slot, d, S) ==
    /\ slot.kind = "plain"    => d \in Datum
    /\ slot.kind = "maybe"    => d \in Datum \cup {<<>>}
    /\ slot.kind = "bytes"    => d \in Datum \cup {<<>>} \/ \E x \in S : d = <<x>> /\ x.class = "MessagePayload"
    /\ slot.kind = "optional" => d = <<>> \/ \E x \in S : d = <<x>> /\ x.class = slot.class
    /\ slot.kind = "ref"      => \E x \in S : d = <<x>> /\ x.class = slot.class
    /\ slot.kind = "variant"  => \E x \in S : d = <<x>> /\ x.class \in Alternatives[slot.class]
    /\ slot.kind = "list"     => \E n \in 0..MaxLen : d \in [1..n -> {x \in S : x.class = slot.class}]

\* An object laid out as its class is.
LaidOut(x, S) ==
    /\ x.class \in Class
    /\ x = [class |-> x.class, data |-> [p \in DOMAIN Layout[x.class] |-> x.data[p]]]
    /\ \A p \in DOMAIN Layout[x.class] : Proper(Layout[x.class][p], x.data[p], S)

\* A set of objects that holds whatever lies in one of them.
Closed(S) == \A x \in S : LaidOut(x, S)

\* h refers to a place that is laid out as the class of h is, and to the whole of it.
Views(h, store) ==
    LET layout == Layout[store[h.root].class]
    IN /\ h.root \in Oid /\ h.path \in Path /\ h.class \in Class /\ store[h.root] # Nil
       /\ \A q \in Path :
             /\ q \in DOMAIN Layout[h.class] =>
                   h.path \o q \in DOMAIN layout /\ layout[h.path \o q] = Layout[h.class][q]
             /\ h.path \o q \in DOMAIN layout => q \in DOMAIN Layout[h.class]

Stored(store, S) == \A o \in Oid : store[o] # Nil => store[o] \in S

ShapeInv == objects = [o \in Oid |-> objects[o]] /\ handles = [v \in Var |-> handles[v]]

ViewInv == \A v \in Var : handles[v] # Nil => Views(handles[v], objects)

IInv == ShapeInv /\ ViewInv /\ \E S : Closed(S) /\ Stored(objects, S)

-----------------------------------------------------------------------------
(* Laid out objects *)

LEMMA ProperOfMore ==
    ASSUME NEW slot, NEW d, NEW S, NEW T, S \subseteq T, Proper(slot, d, S)
    PROVE  Proper(slot, d, T)
<1>1. CASE slot.kind = "list"
  <2>1. PICK n \in 0..MaxLen : d \in [1..n -> {x \in S : x.class = slot.class}]
    BY <1>1 DEF Proper
  <2>2. d \in [1..n -> {x \in T : x.class = slot.class}]
    BY <2>1
  <2>. QED
    BY <1>1, <2>2 DEF Proper
<1>2. CASE slot.kind # "list"
  BY <1>2 DEF Proper
<1>. QED
  BY <1>1, <1>2

LEMMA LaidOutOfMore ==
    ASSUME NEW x, NEW S, NEW T, S \subseteq T, LaidOut(x, S)
    PROVE  LaidOut(x, T)
  BY ProperOfMore DEF LaidOut

LEMMA ClosedUnion ==
    ASSUME NEW S, NEW T, Closed(S), \A x \in T : LaidOut(x, S \cup T)
    PROVE  Closed(S \cup T)
<1>. SUFFICES ASSUME NEW x \in S \cup T PROVE LaidOut(x, S \cup T)
  BY DEF Closed
<1>1. CASE x \in S
  <2>1. LaidOut(x, S)
    BY <1>1 DEF Closed
  <2>. QED
    BY <2>1, LaidOutOfMore
<1>. QED
  BY <1>1

LEMMA ClosedWith ==
    ASSUME NEW S, NEW x, Closed(S), LaidOut(x, S)
    PROVE  Closed(S \cup {x})
<1>1. LaidOut(x, S \cup {x})
  BY LaidOutOfMore
<1>. QED
  BY <1>1, ClosedUnion

LEMMA FreshClosed == Closed({Fresh[c] : c \in Class})
<1>. DEFINE S == {Fresh[c] : c \in Class}
<1>0. ASSUME NEW c \in Class PROVE Fresh[c].class = c
  <2>1. Fresh[c] = [class |-> c, data |-> [p \in DOMAIN Layout[c] |-> Fresh[c].data[p]]]
    BY FreshAssumption
  <2>. QED
    BY <2>1
<1>. SUFFICES ASSUME NEW c \in Class PROVE LaidOut(Fresh[c], S)
  BY DEF Closed
<1>. DEFINE x == Fresh[c]
<1>1. x = [class |-> c, data |-> [p \in DOMAIN Layout[c] |-> x.data[p]]] /\ x.class = c
  BY FreshAssumption
<1>2. ASSUME NEW p \in DOMAIN Layout[c] PROVE Proper(Layout[c][p], x.data[p], S)
  <2>. DEFINE slot == Layout[c][p]
              d == x.data[p]
  <2>1. ASSUME slot.kind = "ref" PROVE Proper(slot, d, S)
    <3>1. slot.class \in Class /\ d = <<Fresh[slot.class]>>
      BY <2>1, FreshAssumption
    <3>2. Fresh[slot.class] \in S /\ Fresh[slot.class].class = slot.class
      BY <1>0, <3>1
    <3>. HIDE DEF slot, d, S
    <3>. QED
      BY <2>1, <3>1, <3>2 DEF Proper
  <2>2. ASSUME slot.kind = "variant" PROVE Proper(slot, d, S)
    <3>1. slot.class \in Class /\ Alternatives[slot.class] # {} /\ d = <<Fresh[FirstAlternative[slot.class]]>>
      BY <2>2, FreshAssumption
    <3>. DEFINE b == FirstAlternative[slot.class]
    <3>2. b \in Alternatives[slot.class] /\ b \in Class
      BY <3>1, FreshAssumption
    <3>3. Fresh[b] \in S /\ Fresh[b].class = b
      BY <1>0, <3>2
    <3>4. d = <<Fresh[b]>>
      BY <3>1
    <3>. HIDE DEF slot, d, S, b
    <3>. QED
      BY <2>2, <3>2, <3>3, <3>4 DEF Proper
  <2>3. ASSUME slot.kind \in {"optional", "maybe", "bytes", "list"} PROVE Proper(slot, d, S)
    <3>1. d = <<>>
      BY <2>3, FreshAssumption
    <3>2. 0 \in 0..MaxLen
      BY ValueAssumption
    <3>3. \A T : <<>> \in [1..0 -> T]
      OBVIOUS
    <3>. HIDE DEF slot, d, S
    <3>. QED
      BY <2>3, <3>1, <3>2, <3>3 DEF Proper
  <2>4. ASSUME slot.kind = "plain" PROVE Proper(slot, d, S)
    BY <2>4, FreshAssumption, ValueAssumption DEF Proper
  <2>. QED
    BY <2>1, <2>2, <2>3, <2>4 DEF Proper
<1>. QED
  BY <1>1, <1>2 DEF LaidOut

-----------------------------------------------------------------------------
(* What a handle shows *)

LEMMA LeafPath ==
    ASSUME NEW c \in Class, NEW p \in DOMAIN Layout[c]
    PROVE  p \in Path /\ \A q \in DOMAIN Layout[c] : IsPrefix(p, q) => p = q
  BY LeafAssumption DEF Path

\* An object under a handle, and what lies at one of its leaves.
LEMMA AtProper ==
    ASSUME NEW S, NEW v \in Var, NEW p \in DOMAIN Layout[handles[v].class],
           handles[v] # Nil, ViewInv, Closed(S), Stored(objects, S)
    PROVE  Proper(Layout[handles[v].class][p], At(v, p), S)
<1>. DEFINE h == handles[v]
            x == objects[h.root]
<1>1. Views(h, objects)
  BY DEF ViewInv
<1>2. x \in S /\ h.class \in Class
  BY <1>1 DEF Views, Stored
<1>3. LaidOut(x, S)
  BY <1>2 DEF Closed
<1>4. h.path \o p \in DOMAIN Layout[x.class] /\ Layout[x.class][h.path \o p] = Layout[h.class][p]
  BY <1>1, <1>2, LeafPath DEF Views
<1>5. Proper(Layout[x.class][h.path \o p], x.data[h.path \o p], S)
  BY <1>3, <1>4 DEF LaidOut
<1>. QED
  BY <1>4, <1>5 DEF At

\* CopyAs of the own class is what the handle shows.
LEMMA CopyLaidOut ==
    ASSUME NEW S, NEW v \in Var, NEW c \in Class, handles[v] # Nil, ViewInv, Closed(S), Stored(objects, S),
           \A p \in DOMAIN Layout[c] : /\ p \in DOMAIN Layout[handles[v].class]
                                       /\ Layout[c][p] = Layout[handles[v].class][p]
    PROVE  LaidOut(CopyAs(v, c), S) /\ CopyAs(v, c).class = c
<1>. DEFINE x == CopyAs(v, c)
            d(p) == Seen(handles[v]).data[p]
<1>1. x = [class |-> c, data |-> [p \in DOMAIN Layout[c] |-> d(p)]]
  BY DEF CopyAs
<1>. HIDE DEF x, d
<1>2. /\ x.class = c /\ \A p \in DOMAIN Layout[c] : x.data[p] = d(p)
      /\ x = [class |-> x.class, data |-> [p \in DOMAIN Layout[x.class] |-> x.data[p]]]
  BY <1>1
<1>3. ASSUME NEW p \in DOMAIN Layout[c] PROVE Proper(Layout[c][p], d(p), S)
  <2>1. p \in DOMAIN Layout[handles[v].class] /\ Layout[c][p] = Layout[handles[v].class][p]
    OBVIOUS
  <2>2. d(p) = At(v, p)
    BY <2>1 DEF d, Seen, At
  <2>3. Proper(Layout[handles[v].class][p], At(v, p), S)
    BY <2>1, AtProper
  <2>. QED
    BY <2>1, <2>2, <2>3
<1>4. LaidOut(x, S)
  BY <1>2, <1>3 DEF LaidOut
<1>. QED
  BY <1>2, <1>4 DEF x

LEMMA IsALaidOut ==
    ASSUME NEW S, NEW v \in Var, NEW c, IsA(v, c), ViewInv, Closed(S), Stored(objects, S)
    PROVE  c \in Class /\ LaidOut(CopyAs(v, c), S) /\ CopyAs(v, c).class = c
<1>1. handles[v] # Nil /\ handles[v].class \in Class /\ c \in Ancestors[handles[v].class]
  BY DEF IsA, ViewInv, Views
<1>2. c \in Class /\ \A p \in DOMAIN Layout[c] : /\ p \in DOMAIN Layout[handles[v].class]
                                                 /\ Layout[c][p] = Layout[handles[v].class][p]
  BY <1>1, BaseAssumption
<1>. QED
  BY <1>1, <1>2, CopyLaidOut

LEMMA SeenLaidOut ==
    ASSUME NEW S, NEW v \in Var, handles[v] # Nil, ViewInv, Closed(S), Stored(objects, S)
    PROVE  LaidOut(Seen(handles[v]), S) /\ Seen(handles[v]).class = handles[v].class
<1>. DEFINE c == handles[v].class
<1>1. c \in Class
  BY DEF ViewInv, Views
<1>2. LaidOut(CopyAs(v, c), S)
  BY <1>1, CopyLaidOut
<1>3. CopyAs(v, c) = Seen(handles[v])
  BY DEF CopyAs, Seen
<1>. QED
  BY <1>2, <1>3 DEF Seen

-----------------------------------------------------------------------------
(* The three ways in which a step changes the state *)

LEMMA BindStep ==
    ASSUME IInv, NEW v \in Var, NEW h, NEW store, NEW S,
           h = Nil \/ Views(h, store), \A w \in Var : handles[w] # Nil => Views(handles[w], store),
           Closed(S), Stored(store, S), Bind(v, h, store)
    PROVE  IInv'
<1>1. /\ handles' = [w \in Var |-> IF w = v THEN h ELSE handles[w]]
      /\ objects' = [o \in Oid |-> IF \E w \in Var : handles'[w] # Nil /\ handles'[w].root = o
                                   THEN store[o] ELSE Nil]
  BY DEF Bind, IInv, ShapeInv
<1>2. ShapeInv'
  BY <1>1 DEF ShapeInv
<1>3. ViewInv'
  <2>. SUFFICES ASSUME NEW w \in Var, handles'[w] # Nil PROVE Views(handles'[w], objects')
    BY DEF ViewInv, Views
  <2>1. Views(handles'[w], store)
    BY <1>1
  <2>2. objects'[handles'[w].root] = store[handles'[w].root]
    BY <1>1, <2>1 DEF Views
  <2>. QED
    BY <2>1, <2>2 DEF Views
<1>4. Stored(objects', S)
  BY <1>1 DEF Stored
<1>. QED
  BY <1>2, <1>3, <1>4 DEF IInv, Stored, Closed, LaidOut, Proper

LEMMA UnbindStep ==
    ASSUME IInv, NEW v \in Var, Unbind(v)
    PROVE  IInv'
<1>1. PICK S : Closed(S) /\ Stored(objects, S)
  BY DEF IInv
<1>. QED
  BY <1>1, BindStep DEF Unbind, IInv, ViewInv

LEMMA BindNewStep ==
    ASSUME IInv, NEW v \in Var, NEW S, NEW value \in S, Closed(S), BindNew(v, value)
    PROVE  IInv'
<1>1. PICK T : Closed(T) /\ Stored(objects, T)
  BY DEF IInv
<1>2. PICK o \in Oid : /\ objects[o] = Nil
                       /\ Bind(v, [root |-> o, path |-> <<>>, class |-> value.class], [objects EXCEPT ![o] = value])
  BY DEF BindNew
<1>. DEFINE h == [root |-> o, path |-> <<>>, class |-> value.class]
            store == [objects EXCEPT ![o] = value]
<1>3. store = [p \in Oid |-> IF p = o THEN value ELSE objects[p]]
  BY DEF IInv, ShapeInv
<1>4. LaidOut(value, S) /\ value.class \in Class /\ value # Nil
  BY ValueAssumption DEF Closed, LaidOut, Nil
<1>5. Closed(T \cup S)
  BY <1>1, LaidOutOfMore DEF Closed
<1>6. Stored(store, T \cup S)
  BY <1>1, <1>3 DEF Stored
<1>7. Views(h, store)
  <2>1. h.root = o /\ h.path = <<>> /\ h.class = value.class /\ store[o] = value
    BY <1>3
  <2>2. \A q \in Path : h.path \o q = q
    BY <2>1, PathAlgebra
  <2>. HIDE DEF h, store
  <2>. QED
    BY <1>4, <2>1, <2>2, PathAlgebra DEF Views
<1>8. ASSUME NEW w \in Var, handles[w] # Nil PROVE Views(handles[w], store)
  <2>1. Views(handles[w], objects)
    BY <1>8 DEF IInv, ViewInv
  <2>2. store[handles[w].root] = objects[handles[w].root]
    BY <1>2, <1>3, <2>1 DEF Views
  <2>. HIDE DEF store
  <2>. QED
    BY <2>1, <2>2 DEF Views
<1>9. Bind(v, h, store)
  BY <1>2
<1>. HIDE DEF h, store
<1>. QED
  BY <1>5, <1>6, <1>7, <1>8, <1>9, BindStep

\* What Put makes of the object and leaves alone.
LEMMA PutEffect ==
    ASSUME IInv, NEW u \in Var, handles[u] # Nil, NEW place \in Path, NEW data, Put(u, place, data)
    PROVE  LET root == handles[u].root
               spot == handles[u].path \o place
               c == objects[root].class
               y == objects'[root]
           IN /\ handles' = handles
              /\ objects' = [o \in Oid |-> IF o = root THEN y ELSE objects[o]]
              /\ y.class = c /\ y = [class |-> c, data |-> [p \in DOMAIN Layout[c] |-> y.data[p]]]
              /\ \A p \in DOMAIN Layout[c] :
                    y.data[p] = IF IsPrefix(spot, p) THEN data[SubSeq(p, Len(spot) + 1, Len(p))]
                                ELSE objects[root].data[p]
<1>. DEFINE h == handles[u]
            x == objects[h.root]
            spot == h.path \o place
            e(p) == IF IsPrefix(spot, p) THEN data[SubSeq(p, Len(spot) + 1, Len(p))] ELSE x.data[p]
            y == [class |-> x.class, data |-> [p \in DOMAIN Layout[x.class] |-> e(p)]]
<1>1. h.root \in Oid /\ x = [class |-> x.class, data |-> [p \in DOMAIN Layout[x.class] |-> x.data[p]]]
  BY DEF IInv, ViewInv, Views, Stored, Closed, LaidOut
<1>2. DOMAIN x.data = DOMAIN Layout[x.class] /\ x = [class |-> x.class, data |-> x.data]
  BY <1>1
<1>3. objects' = [objects EXCEPT ![h.root] = y] /\ handles' = handles
  <2>. DEFINE new == [p \in DOMAIN x.data |->
                        IF IsPrefix(spot, p) THEN data[SubSeq(p, Len(spot) + 1, Len(p))] ELSE x.data[p]]
  <2>1. objects' = [objects EXCEPT ![h.root].data = new] /\ handles' = handles
    BY DEF Put
  <2>2. new = [p \in DOMAIN Layout[x.class] |-> e(p)]
    BY <1>2
  <2>3. [x EXCEPT !.data = new] = y
    <3>. HIDE DEF new, e
    <3>. QED
      BY <1>2, <2>2
  <2>. HIDE DEF new, y
  <2>. QED
    BY <2>1, <2>3
<1>. HIDE DEF e
<1>4. /\ y.class = x.class /\ \A p \in DOMAIN Layout[x.class] : y.data[p] = e(p)
      /\ y = [class |-> x.class, data |-> [p \in DOMAIN Layout[x.class] |-> y.data[p]]]
  OBVIOUS
<1>. HIDE DEF y
<1>5. objects' = [o \in Oid |-> IF o = h.root THEN y ELSE objects[o]] /\ objects'[h.root] = y
  BY <1>1, <1>3 DEF IInv, ShapeInv
<1>. QED
  BY <1>3, <1>4, <1>5 DEF e

\* What is put at a place of a handle must be proper for the leaves there.
LEMMA PutStep ==
    ASSUME IInv, NEW u \in Var, handles[u] # Nil, NEW place \in Path, NEW data, NEW S,
           Closed(S), Stored(objects, S),
           \A r \in Path : place \o r \in DOMAIN Layout[handles[u].class]
                             => Proper(Layout[handles[u].class][place \o r], data[r], S),
           Put(u, place, data)
    PROVE  IInv'
<1>. DEFINE h == handles[u]
            x == objects[h.root]
            y == objects'[h.root]
            spot == h.path \o place
            e(p) == IF IsPrefix(spot, p) THEN data[SubSeq(p, Len(spot) + 1, Len(p))] ELSE x.data[p]
<1>1. Views(h, objects) /\ x \in S /\ LaidOut(x, S)
  BY DEF IInv, ViewInv, Views, Stored, Closed
<1>2. /\ handles' = handles /\ objects' = [o \in Oid |-> IF o = h.root THEN y ELSE objects[o]]
      /\ y.class = x.class /\ y = [class |-> x.class, data |-> [p \in DOMAIN Layout[x.class] |-> y.data[p]]]
      /\ \A p \in DOMAIN Layout[x.class] : y.data[p] = e(p)
  BY PutEffect
<1>3. spot \in Path
  BY <1>1, PathConcat DEF Views
<1>4. ASSUME NEW p \in DOMAIN Layout[x.class] PROVE Proper(Layout[x.class][p], e(p), S)
  <2>1. CASE IsPrefix(spot, p)
    <3>1. p \in Path /\ x.class \in Class
      BY <1>1, LeafPath DEF LaidOut
    <3>2. PICK r \in Path : p = spot \o r
      BY <1>3, <2>1, <3>1, PathSplit
    <3>3. SubSeq(p, Len(spot) + 1, Len(p)) = r
      BY <1>3, <3>2, PathConcat
    <3>4. p = h.path \o (place \o r) /\ place \o r \in Path
      <4>1. h.path \in Path
        BY <1>1 DEF Views
      <4>2. spot \o r = h.path \o (place \o r)
        BY <4>1, PathAssociative
      <4>3. place \o r \in Path
        BY PathConcat
      <4>. QED
        BY <3>2, <4>2, <4>3
    <3>5. place \o r \in DOMAIN Layout[h.class] /\ Layout[x.class][p] = Layout[h.class][place \o r]
      BY <1>1, <3>4 DEF Views
    <3>6. Proper(Layout[h.class][place \o r], data[r], S)
      BY <3>5
    <3>. QED
      BY <2>1, <3>3, <3>5, <3>6
  <2>2. CASE ~IsPrefix(spot, p)
    BY <1>1, <2>2 DEF LaidOut
  <2>. QED
    BY <2>1, <2>2
<1>. HIDE DEF e, y
<1>5. LaidOut(y, S)
  BY <1>1, <1>2, <1>4 DEF LaidOut
<1>6. Closed(S \cup {y}) /\ Stored(objects', S \cup {y})
  BY <1>2, <1>5, ClosedWith DEF Stored
<1>7. ShapeInv'
  BY <1>2 DEF ShapeInv, IInv
<1>8. ViewInv'
  <2>. SUFFICES ASSUME NEW w \in Var, handles[w] # Nil PROVE Views(handles[w], objects')
    BY <1>2 DEF ViewInv, Views
  <2>1. Views(handles[w], objects)
    BY DEF IInv, ViewInv
  <2>2. y # Nil
    BY <1>1, <1>2, ValueAssumption DEF LaidOut, Nil
  <2>3. objects'[handles[w].root] # Nil /\ objects'[handles[w].root].class = objects[handles[w].root].class
    BY <1>2, <2>1, <2>2 DEF Views
  <2>. QED
    BY <2>1, <2>3 DEF Views
<1>. QED
  BY <1>6, <1>7, <1>8 DEF IInv, Stored, Closed, LaidOut, Proper

\* The same for what is one leaf.
LEMMA LeafStep ==
    ASSUME IInv, NEW u \in Var, handles[u] # Nil, NEW place \in DOMAIN Layout[handles[u].class], NEW d, NEW S,
           Closed(S), Stored(objects, S), Proper(Layout[handles[u].class][place], d, S),
           Put(u, place, Leaf(d))
    PROVE  IInv'
<1>. DEFINE c == handles[u].class
<1>1. c \in Class
  BY DEF IInv, ViewInv, Views
<1>2. place \in Path /\ \A q \in DOMAIN Layout[c] : IsPrefix(place, q) => place = q
  BY <1>1, LeafPath
<1>3. ASSUME NEW r \in Path, place \o r \in DOMAIN Layout[c]
      PROVE  Proper(Layout[c][place \o r], Leaf(d)[r], S)
  <2>1. IsPrefix(place, place \o r)
    BY <1>2, PathConcat
  <2>2. place = place \o r
    BY <1>2, <1>3, <2>1
  <2>3. r = <<>>
    BY <1>2, <2>2, PathAlgebra
  <2>4. Leaf(d)[r] = d
    BY <2>3 DEF Leaf
  <2>. QED
    BY <2>2, <2>4
<1>. QED
  BY <1>2, <1>3, PutStep

-----------------------------------------------------------------------------
(* The attributes of a handle *)

LEMMA HasIs ==
    ASSUME IInv, NEW u \in Var, NEW a, NEW kinds, Has(u, a, kinds)
    PROVE  /\ handles[u] # Nil /\ Views(handles[u], objects) /\ handles[u].class \in Class
           /\ a \in DOMAIN Attribute[handles[u].class] /\ a \in STRING
           /\ Attribute[handles[u].class][a].kind \in kinds
<1>1. handles[u] # Nil /\ a \in DOMAIN Attribute[handles[u].class]
  BY DEF Has, Names
<1>2. Views(handles[u], objects) /\ handles[u].class \in Class
  BY <1>1 DEF IInv, ViewInv, Views
<1>3. a \in STRING
  BY <1>1, <1>2, AttributeAssumption
<1>. QED
  BY <1>1, <1>2, <1>3 DEF Has

LEMMA LeafOfAttribute ==
    ASSUME IInv, NEW u \in Var, NEW a, NEW kinds, Has(u, a, kinds), "part" \notin kinds, "payload" \notin kinds
    PROVE  /\ <<a>> \in DOMAIN Layout[handles[u].class]
           /\ Layout[handles[u].class][<<a>>] = Attribute[handles[u].class][a]
<1>1. /\ handles[u].class \in Class /\ a \in DOMAIN Attribute[handles[u].class]
      /\ Attribute[handles[u].class][a].kind \notin {"part", "payload"}
  BY HasIs
<1>. QED
  BY <1>1, AttributeAssumption

LEMMA PayloadIs ==
    ASSUME IInv, NEW u \in Var, NEW a, Has(u, a, {"payload"})
    PROVE  /\ {<<"id">>, <<"data">>} \subseteq DOMAIN Layout[handles[u].class]
           /\ Layout[handles[u].class][<<"id">>].kind = "plain"
           /\ Layout[handles[u].class][<<"data">>].kind = "bytes"
           /\ ClassOf(u, a) = "MessagePayload"
<1>1. /\ handles[u].class \in Class /\ a \in DOMAIN Attribute[handles[u].class]
      /\ Attribute[handles[u].class][a].kind = "payload"
  BY HasIs
<1>. QED
  BY <1>1, AttributeAssumption DEF ClassOf

LEMMA VariantIs ==
    ASSUME IInv, NEW u \in Var, handles[u] # Nil, Alternatives[handles[u].class] # {}
    PROVE  /\ <<>> \in DOMAIN Layout[handles[u].class]
           /\ Layout[handles[u].class][<<>>] = [kind |-> "variant", class |-> handles[u].class]
<1>1. handles[u].class \in Class
  BY DEF IInv, ViewInv, Views
<1>. QED
  BY <1>1, LeafAssumption

LEMMA OpaqueIs ==
    ASSUME NEW c \in Class, Alternatives[c] = {}, <<>> \in DOMAIN Layout[c]
    PROVE  Layout[c][<<>>].kind = "opaque"
<1>1. Layout[c][<<>>] = [kind |-> "opaque", class |-> c]
  BY LeafAssumption
<1>. QED
  BY <1>1

\* A part is a place that is laid out as its class is.
LEMMA PartViews ==
    ASSUME IInv, NEW u \in Var, NEW a, Has(u, a, {"part"})
    PROVE  Views([root |-> handles[u].root, path |-> Append(handles[u].path, a), class |-> ClassOf(u, a)], objects)
<1>. DEFINE h == handles[u]
            c == h.class
            b == ClassOf(u, a)
            layout == Layout[objects[h.root].class]
<1>1. /\ Views(h, objects) /\ c \in Class /\ a \in DOMAIN Attribute[c] /\ a \in STRING
      /\ Attribute[c][a].kind = "part"
  BY HasIs
<1>2. /\ b \in Class
      /\ \A p \in DOMAIN Layout[c] : p # <<>> /\ Head(p) = a => Tail(p) \in DOMAIN Layout[b]
      /\ \A q \in DOMAIN Layout[b] : /\ <<a>> \o q \in DOMAIN Layout[c]
                                     /\ Layout[c][<<a>> \o q] = Layout[b][q]
  BY <1>1, AttributeAssumption DEF ClassOf
<1>3. /\ h.root \in Oid /\ h.path \in Path /\ objects[h.root] # Nil
      /\ \A q \in Path :
            /\ q \in DOMAIN Layout[c] => h.path \o q \in DOMAIN layout /\ layout[h.path \o q] = Layout[c][q]
            /\ h.path \o q \in DOMAIN layout => q \in DOMAIN Layout[c]
  BY <1>1 DEF Views
<1>4. <<a>> \in Path /\ Append(h.path, a) = h.path \o <<a>>
  BY <1>1, <1>3, PathOfOne
<1>5. Append(h.path, a) \in Path
  BY <1>3, <1>4, PathConcat
<1>. HIDE DEF b, layout, c
<1>6. ASSUME NEW q \in Path
      PROVE  /\ q \in DOMAIN Layout[b] => /\ Append(h.path, a) \o q \in DOMAIN layout
                                          /\ layout[Append(h.path, a) \o q] = Layout[b][q]
             /\ Append(h.path, a) \o q \in DOMAIN layout => q \in DOMAIN Layout[b]
  <2>1. Append(h.path, a) \o q = h.path \o (<<a>> \o q) /\ <<a>> \o q \in Path
    <3>1. <<a>> \in Path
      BY <1>4
    <3>2. <<a>> \o q \in Path
      BY <3>1, PathConcat
    <3>3. (h.path \o <<a>>) \o q = h.path \o (<<a>> \o q)
      BY <1>3, <3>1, PathAssociative
    <3>. QED
      BY <1>4, <3>2, <3>3
  <2>2. <<a>> \o q # <<>> /\ Head(<<a>> \o q) = a /\ Tail(<<a>> \o q) = q
    BY <1>1, PathOfOne
  <2>. QED
    BY <1>2, <1>3, <2>1, <2>2
<1>. QED
  BY <1>2, <1>3, <1>5, <1>6 DEF Views, layout, b

-----------------------------------------------------------------------------
(* One lemma for each action *)

LEMMA MakeStep ==
    ASSUME IInv, NEW v \in Var, NEW c \in Made, Make(v, c) \/ Fetch(v, c)
    PROVE  IInv'
<1>1. c \in Class
  BY ValueAssumption
<1>2. Fresh[c] \in {Fresh[b] : b \in Class}
  BY <1>1
<1>3. BindNew(v, Fresh[c])
  BY DEF Make, Fetch
<1>. QED
  BY <1>2, <1>3, FreshClosed, BindNewStep

LEMMA AliasStep ==
    ASSUME IInv, NEW v \in Var, NEW u \in Var, Alias(v, u)
    PROVE  IInv'
<1>1. PICK S : Closed(S) /\ Stored(objects, S)
  BY DEF IInv
<1>2. handles[u] # Nil /\ Views(handles[u], objects) /\ Bind(v, handles[u], objects)
  BY DEF Alias, IInv, ViewInv
<1>. QED
  BY <1>1, <1>2, BindStep DEF IInv, ViewInv

LEMMA ReadPartStep ==
    ASSUME IInv, NEW v \in Var, NEW u \in Var, NEW a, ReadPart(v, u, a)
    PROVE  IInv'
<1>. DEFINE h == [root |-> handles[u].root, path |-> Append(handles[u].path, a), class |-> ClassOf(u, a)]
<1>1. PICK S : Closed(S) /\ Stored(objects, S)
  BY DEF IInv
<1>2. Views(h, objects) /\ Bind(v, h, objects)
  BY PartViews DEF ReadPart
<1>. HIDE DEF h
<1>. QED
  BY <1>1, <1>2, BindStep DEF IInv, ViewInv

LEMMA ReadCopyStep ==
    ASSUME IInv, NEW v \in Var, NEW u \in Var, NEW a, ReadCopy(v, u, a)
    PROVE  IInv'
<1>. DEFINE d == At(u, <<a>>)
<1>0. PICK S : Closed(S) /\ Stored(objects, S)
  BY DEF IInv
<1>1. Has(u, a, {"optional", "ref"})
  BY DEF ReadCopy
<1>2. handles[u] # Nil /\ Attribute[handles[u].class][a].kind \in {"optional", "ref"}
  BY <1>1, HasIs
<1>3. Proper(Attribute[handles[u].class][a], d, S)
  BY <1>0, <1>1, <1>2, LeafOfAttribute, AtProper DEF IInv
<1>4. CASE d = <<>>
  BY <1>4, UnbindStep DEF ReadCopy
<1>5. CASE d # <<>>
  <2>1. PICK x \in S : d = <<x>>
    BY <1>2, <1>3, <1>5 DEF Proper
  <2>2. BindNew(v, x)
    BY <1>5, <2>1 DEF ReadCopy
  <2>. QED
    BY <1>0, <2>2, BindNewStep
<1>. QED
  BY <1>4, <1>5

LEMMA ReadItemStep ==
    ASSUME IInv, NEW v \in Var, NEW u \in Var, NEW a, NEW i, ReadItem(v, u, a, i)
    PROVE  IInv'
<1>. DEFINE d == At(u, <<a>>)
<1>0. PICK S : Closed(S) /\ Stored(objects, S)
  BY DEF IInv
<1>1. Has(u, a, {"list"}) /\ i \in 1..Len(d) /\ BindNew(v, d[i])
  BY DEF ReadItem
<1>2. handles[u] # Nil /\ Attribute[handles[u].class][a].kind = "list"
  BY <1>1, HasIs
<1>3. Proper(Attribute[handles[u].class][a], d, S)
  BY <1>0, <1>1, <1>2, LeafOfAttribute, AtProper DEF IInv
<1>4. PICK n \in 0..MaxLen : d \in [1..n -> {x \in S : x.class = Attribute[handles[u].class][a].class}]
  BY <1>2, <1>3 DEF Proper
<1>5. d[i] \in S
  BY <1>1, <1>4, ValueAssumption
<1>. QED
  BY <1>0, <1>1, <1>5, BindNewStep

LEMMA WrapStep ==
    ASSUME IInv, NEW v \in Var, NEW u \in Var, NEW c \in Made, Wrap(v, c, u)
    PROVE  IInv'
<1>. DEFINE x == Seen(handles[u])
            y == [class |-> c, data |-> Leaf(<<x>>)]
<1>0. PICK S : Closed(S) /\ Stored(objects, S)
  BY DEF IInv
<1>1. handles[u] # Nil /\ handles[u].class \in Alternatives[c] /\ BindNew(v, y)
  BY DEF Wrap
<1>2. LaidOut(x, S) /\ x.class \in Alternatives[c]
  BY <1>0, <1>1, SeenLaidOut DEF IInv
<1>3. /\ c \in Class /\ Layout[c][<<>>] = [kind |-> "variant", class |-> c]
      /\ DOMAIN Layout[c] = {<<>>}
  <2>1. c \in Class
    BY ValueAssumption
  <2>2. <<>> \in DOMAIN Layout[c] /\ Layout[c][<<>>] = [kind |-> "variant", class |-> c]
    BY <1>1, <2>1, LeafAssumption
  <2>3. ASSUME NEW q \in DOMAIN Layout[c] PROVE q = <<>>
    <3>1. q \in Path /\ <<>> \o q = q
      BY <2>1, LeafPath, PathAlgebra
    <3>2. IsPrefix(<<>>, q)
      BY <3>1, EmptyIsPrefix
    <3>. QED
      BY <2>1, <2>2, <3>2, LeafPath
  <2>. QED
    BY <2>1, <2>2, <2>3
<1>. HIDE DEF x
<1>4. LaidOut(y, S \cup {x})
  <2>1. y.class = c /\ y.data = Leaf(<<x>>) /\ Leaf(<<x>>) = [p \in {<<>>} |-> <<x>>]
    BY DEF Leaf
  <2>2. y = [class |-> y.class, data |-> [p \in DOMAIN Layout[y.class] |-> y.data[p]]]
    BY <1>3, <2>1
  <2>3. Proper(Layout[c][<<>>], <<x>>, S \cup {x})
    BY <1>2, <1>3 DEF Proper
  <2>4. y.data[<<>>] = <<x>>
    BY <2>1
  <2>. HIDE DEF y
  <2>. QED
    BY <1>3, <2>1, <2>2, <2>3, <2>4 DEF LaidOut
<1>. HIDE DEF y
<1>5. Closed((S \cup {x}) \cup {y})
  BY <1>0, <1>2, <1>4, ClosedWith
<1>. QED
  BY <1>1, <1>5, BindNewStep

LEMMA ReadAlternativeStep ==
    ASSUME IInv, NEW v \in Var, NEW u \in Var, NEW a, ReadAlternative(v, u, a)
    PROVE  IInv'
<1>. DEFINE c == handles[u].class
            d == At(u, <<>>)
<1>0. PICK S : Closed(S) /\ Stored(objects, S)
  BY DEF IInv
<1>1. handles[u] # Nil /\ c \in Class /\ Alternatives[c] # {}
  BY ReaderAssumption DEF ReadAlternative, IInv, ViewInv, Views
<1>2. Proper([kind |-> "variant", class |-> c], d, S)
  BY <1>0, <1>1, VariantIs, AtProper DEF IInv
<1>3. PICK x \in S : d = <<x>>
  BY <1>2 DEF Proper
<1>4. BindNew(v, x) \/ Unbind(v)
  BY <1>3 DEF ReadAlternative
<1>. QED
  BY <1>0, <1>4, BindNewStep, UnbindStep

LEMMA ReadPayloadStep ==
    ASSUME IInv, NEW v \in Var, NEW u \in Var, NEW a, ReadPayload(v, u, a)
    PROVE  IInv'
<1>. DEFINE d == At(u, <<"data">>)
<1>0. PICK S : Closed(S) /\ Stored(objects, S)
  BY DEF IInv
<1>1. Has(u, a, {"payload"})
  BY DEF ReadPayload
<1>2. handles[u] # Nil
  BY <1>1, HasIs
<1>3. Proper(Layout[handles[u].class][<<"data">>], d, S) /\ Layout[handles[u].class][<<"data">>].kind = "bytes"
  BY <1>0, <1>1, <1>2, PayloadIs, AtProper DEF IInv
<1>4. CASE At(u, <<"id">>) # Messaging
  BY <1>4, UnbindStep DEF ReadPayload
<1>5. CASE At(u, <<"id">>) = Messaging
  <2>1. d \notin Datum \cup {<<>>} /\ BindNew(v, d[1])
    BY <1>5 DEF ReadPayload
  <2>2. PICK x \in S : d = <<x>>
    BY <1>3, <2>1 DEF Proper
  <2>3. BindNew(v, x)
    BY <2>1, <2>2
  <2>. QED
    BY <1>0, <2>3, BindNewStep
<1>. QED
  BY <1>4, <1>5

LEMMA SetDatumStep ==
    ASSUME IInv, NEW u \in Var, NEW a, NEW n \in Datum, SetDatum(u, a, n)
    PROVE  IInv'
<1>0. PICK S : Closed(S) /\ Stored(objects, S)
  BY DEF IInv
<1>1. Has(u, a, {"plain", "maybe"}) /\ Put(u, <<a>>, Leaf(n))
  BY DEF SetDatum
<1>2. handles[u] # Nil /\ Attribute[handles[u].class][a].kind \in {"plain", "maybe"}
  BY <1>1, HasIs
<1>3. Proper(Attribute[handles[u].class][a], n, S)
  BY <1>2 DEF Proper
<1>. QED
  BY <1>0, <1>1, <1>2, <1>3, LeafOfAttribute, LeafStep

LEMMA SetPartStep ==
    ASSUME IInv, NEW u \in Var, NEW a, NEW w \in Var, SetPart(u, a, w)
    PROVE  IInv'
<1>. DEFINE c == handles[u].class
            b == ClassOf(u, a)
            x == CopyAs(w, b)
<1>0. PICK S : Closed(S) /\ Stored(objects, S)
  BY DEF IInv
<1>1. Has(u, a, {"part"}) /\ IsA(w, b) /\ Put(u, <<a>>, x.data)
  BY DEF SetPart
<1>2. /\ handles[u] # Nil /\ c \in Class /\ a \in DOMAIN Attribute[c] /\ a \in STRING
      /\ Attribute[c][a].kind = "part"
  BY <1>1, HasIs
<1>3. /\ \A p \in DOMAIN Layout[c] : p # <<>> /\ Head(p) = a => Tail(p) \in DOMAIN Layout[b]
      /\ \A q \in DOMAIN Layout[b] : Layout[c][<<a>> \o q] = Layout[b][q]
  BY <1>2, AttributeAssumption DEF ClassOf
<1>4. LaidOut(x, S) /\ x.class = b
  BY <1>0, <1>1, IsALaidOut DEF IInv
<1>. HIDE DEF b, x
<1>5. ASSUME NEW r \in Path, <<a>> \o r \in DOMAIN Layout[c]
      PROVE  Proper(Layout[c][<<a>> \o r], x.data[r], S)
  <2>1. <<a>> \o r # <<>> /\ Head(<<a>> \o r) = a /\ Tail(<<a>> \o r) = r
    BY <1>2, PathOfOne
  <2>2. r \in DOMAIN Layout[b]
    BY <1>3, <1>5, <2>1
  <2>. QED
    BY <1>3, <1>4, <2>2 DEF LaidOut
<1>6. <<a>> \in Path
  BY <1>2, PathOfOne
<1>. QED
  BY <1>0, <1>1, <1>2, <1>5, <1>6, PutStep

LEMMA SetCopyStep ==
    ASSUME IInv, NEW u \in Var, NEW a, NEW w \in Var, SetCopy(u, a, w)
    PROVE  IInv'
<1>. DEFINE x == CopyAs(w, ClassOf(u, a))
<1>0. PICK S : Closed(S) /\ Stored(objects, S)
  BY DEF IInv
<1>1. Has(u, a, {"optional", "ref"}) /\ IsA(w, ClassOf(u, a)) /\ Put(u, <<a>>, Leaf(<<x>>))
  BY DEF SetCopy
<1>2. handles[u] # Nil /\ Attribute[handles[u].class][a].kind \in {"optional", "ref"}
  BY <1>1, HasIs
<1>3. LaidOut(x, S) /\ x.class = Attribute[handles[u].class][a].class
  BY <1>0, <1>1, IsALaidOut DEF IInv, ClassOf
<1>4. Closed(S \cup {x}) /\ Stored(objects, S \cup {x})
  BY <1>0, <1>3, ClosedWith DEF Stored
<1>. HIDE DEF x
<1>5. Proper(Attribute[handles[u].class][a], <<x>>, S \cup {x})
  BY <1>2, <1>3 DEF Proper
<1>. QED
  BY <1>1, <1>2, <1>4, <1>5, LeafOfAttribute, LeafStep

LEMMA SetBytesStep ==
    ASSUME IInv, NEW u \in Var, NEW a, NEW b \in Datum \cup {<<>>} \cup UNION {BytesOf(w) : w \in Var},
           SetBytes(u, a, b)
    PROVE  IInv'
<1>0. PICK S : Closed(S) /\ Stored(objects, S)
  BY DEF IInv
<1>1. Has(u, a, {"bytes"}) /\ Put(u, <<a>>, Leaf(b))
  BY DEF SetBytes
<1>2. handles[u] # Nil /\ Attribute[handles[u].class][a].kind = "bytes"
  BY <1>1, HasIs
<1>3. Proper(Attribute[handles[u].class][a], b, S)
  <2>1. CASE b \in Datum \cup {<<>>}
    BY <1>2, <2>1 DEF Proper
  <2>2. ASSUME NEW w \in Var, b \in BytesOf(w) PROVE Proper(Attribute[handles[u].class][a], b, S)
    <3>1. PICK e \in Names(w) : b = At(w, <<e>>) /\ Attribute[handles[w].class][e].kind = "bytes"
      BY <2>2 DEF BytesOf
    <3>2. Has(w, e, {"bytes"})
      BY <3>1 DEF Has
    <3>3. Proper(Attribute[handles[w].class][e], b, S)
      BY <1>0, <3>1, <3>2, HasIs, LeafOfAttribute, AtProper DEF IInv
    <3>. QED
      BY <1>2, <3>1, <3>3 DEF Proper
  <2>. QED
    BY <2>1, <2>2
<1>. QED
  BY <1>0, <1>1, <1>2, <1>3, LeafOfAttribute, LeafStep

LEMMA SetPayloadStep ==
    ASSUME IInv, NEW u \in Var, NEW a, NEW w \in Var, SetPayload(u, a, w)
    PROVE  IInv'
<1>. DEFINE c == handles[u].class
            x == CopyAs(w, ClassOf(u, a))
<1>0. PICK S : Closed(S) /\ Stored(objects, S)
  BY DEF IInv
<1>1. Has(u, a, {"payload"}) /\ IsA(w, ClassOf(u, a))
  BY DEF SetPayload
<1>2. PICK n \in {At(u, <<"id">>), Messaging} :
         Put(u, <<>>, [Seen(handles[u]).data EXCEPT ![<<"data">>] = <<x>>, ![<<"id">>] = n])
  BY DEF SetPayload
<1>3. /\ handles[u] # Nil /\ c \in Class
      /\ {<<"id">>, <<"data">>} \subseteq DOMAIN Layout[c]
      /\ Layout[c][<<"id">>].kind = "plain" /\ Layout[c][<<"data">>].kind = "bytes"
      /\ ClassOf(u, a) = "MessagePayload"
  BY <1>1, HasIs, PayloadIs
<1>4. LaidOut(x, S) /\ x.class = "MessagePayload"
  BY <1>0, <1>1, <1>3, IsALaidOut DEF IInv
<1>. HIDE DEF x
<1>5. Closed(S \cup {x}) /\ Stored(objects, S \cup {x})
  BY <1>0, <1>4, ClosedWith DEF Stored
<1>. DEFINE T == S \cup {x}
            d == Seen(handles[u]).data
            e == [d EXCEPT ![<<"data">>] = <<x>>, ![<<"id">>] = n]
<1>6. n \in Datum
  <2>1. Proper(Layout[c][<<"id">>], At(u, <<"id">>), S)
    BY <1>0, <1>3, AtProper DEF IInv
  <2>. QED
    BY <1>3, <2>1, ValueAssumption DEF Proper
<1>7. ASSUME NEW r \in DOMAIN Layout[c] PROVE Proper(Layout[c][r], e[r], T)
  <2>1. DOMAIN d = DOMAIN Layout[c] /\ d[r] = At(u, r)
    BY DEF Seen, At
  <2>2. e[r] = IF r = <<"id">> THEN n ELSE IF r = <<"data">> THEN <<x>> ELSE d[r]
    <3>. HIDE DEF d
    <3>. QED
      BY <2>1
  <2>3. CASE r = <<"id">>
    BY <1>3, <1>6, <2>2, <2>3 DEF Proper
  <2>4. CASE r = <<"data">> /\ r # <<"id">>
    BY <1>3, <1>4, <2>2, <2>4 DEF Proper
  <2>5. CASE r # <<"data">> /\ r # <<"id">>
    <3>1. Proper(Layout[c][r], d[r], T)
      BY <1>3, <1>5, <2>1, AtProper DEF IInv
    <3>. QED
      BY <2>2, <2>5, <3>1
  <2>. QED
    BY <2>3, <2>4, <2>5
<1>. HIDE DEF e, T
<1>8. ASSUME NEW r \in Path, <<>> \o r \in DOMAIN Layout[c] PROVE Proper(Layout[c][<<>> \o r], e[r], T)
  <2>1. <<>> \o r = r
    BY PathAlgebra
  <2>. QED
    BY <1>7, <1>8, <2>1
<1>9. <<>> \in Path /\ Put(u, <<>>, e) /\ Closed(T) /\ Stored(objects, T)
  BY <1>2, <1>5, PathAlgebra DEF e, T
<1>. QED
  BY <1>3, <1>8, <1>9, PutStep

LEMMA SetListStep ==
    ASSUME IInv, NEW u \in Var, NEW a, NEW list \in ItemLists, SetList(u, a, list)
    PROVE  IInv'
<1>. DEFINE b == ClassOf(u, a)
            d == [i \in 1..Len(list) |-> CopyAs(list[i], b)]
<1>0. PICK S : Closed(S) /\ Stored(objects, S)
  BY DEF IInv
<1>1. /\ Has(u, a, {"list"}) /\ Put(u, <<a>>, Leaf(d))
      /\ \A i \in 1..Len(list) : IsA(list[i], b)
  BY DEF SetList
<1>2. handles[u] # Nil /\ Attribute[handles[u].class][a].kind = "list"
  BY <1>1, HasIs
<1>3. Len(list) \in 0..MaxLen /\ \A i \in 1..Len(list) : list[i] \in Var
  <2>1. PICK n \in 0..MaxLen : list \in [1..n -> Var]
    BY DEF ItemLists
  <2>2. Len(list) = n
    BY <2>1, ValueAssumption
  <2>. QED
    BY <2>1, <2>2
<1>. DEFINE T == S \cup {CopyAs(list[i], b) : i \in 1..Len(list)}
<1>4. ASSUME NEW i \in 1..Len(list) PROVE LaidOut(CopyAs(list[i], b), S) /\ CopyAs(list[i], b).class = b
  BY <1>0, <1>1, <1>3, IsALaidOut DEF IInv
<1>5. Closed(T) /\ Stored(objects, T)
  BY <1>0, <1>4, LaidOutOfMore DEF Closed, Stored
<1>6. d \in [1..Len(list) -> {x \in T : x.class = Attribute[handles[u].class][a].class}]
  BY <1>4 DEF ClassOf
<1>. HIDE DEF T, d
<1>7. Proper(Attribute[handles[u].class][a], d, T)
  BY <1>2, <1>3, <1>6 DEF Proper
<1>. QED
  BY <1>1, <1>2, <1>5, <1>7, LeafOfAttribute, LeafStep

LEMMA SetFeeStep ==
    ASSUME IInv, NEW u \in Var, NEW n \in Datum, SetFee(u, n)
    PROVE  IInv'
<1>. DEFINE amount == <<"fee", "amount">>
            asset == <<"fee", "asset_id">>
            d == At(u, <<>>)
            c == d[1].class
            e == [d[1].data EXCEPT ![amount] = n, ![asset] = Zero]
            y == [d[1] EXCEPT !.data = e]
<1>0. PICK S : Closed(S) /\ Stored(objects, S)
  BY DEF IInv
<1>1. handles[u] # Nil /\ handles[u].class = "Operation" /\ Put(u, <<>>, Leaf(<<y>>))
  BY DEF SetFee
<1>2. /\ <<>> \in DOMAIN Layout[handles[u].class]
      /\ Layout[handles[u].class][<<>>] = [kind |-> "variant", class |-> "Operation"]
  BY <1>1, NamedAssumption, VariantIs
<1>3. Proper([kind |-> "variant", class |-> "Operation"], d, S)
  BY <1>0, <1>1, <1>2, AtProper DEF IInv
<1>4. d[1] \in S /\ c \in Alternatives["Operation"]
  <2>1. PICK x \in S : d = <<x>> /\ x.class \in Alternatives["Operation"]
    BY <1>3 DEF Proper
  <2>. QED
    BY <2>1
<1>5. /\ amount \in DOMAIN Layout[c] /\ Layout[c][amount].kind = "plain"
      /\ asset \in DOMAIN Layout[c] /\ Layout[c][asset].kind = "opaque"
  BY <1>4, NamedAssumption
<1>. DEFINE x == d[1]
<1>6. LaidOut(x, S)
  BY <1>0, <1>4 DEF Closed
<1>. HIDE DEF x
<1>7. /\ x = [class |-> c, data |-> [p \in DOMAIN Layout[c] |-> x.data[p]]]
      /\ c \in Class /\ \A p \in DOMAIN Layout[c] : Proper(Layout[c][p], x.data[p], S)
  BY <1>6 DEF LaidOut, x
<1>8. e = [p \in DOMAIN Layout[c] |-> IF p = asset THEN Zero ELSE IF p = amount THEN n ELSE x.data[p]]
  <2>1. DOMAIN x.data = DOMAIN Layout[c]
    BY <1>7
  <2>. HIDE DEF amount, asset
  <2>. QED
    BY <2>1 DEF x
<1>. HIDE DEF e
<1>9. ASSUME NEW p \in DOMAIN Layout[c] PROVE Proper(Layout[c][p], e[p], S)
  <2>. HIDE DEF amount, asset
  <2>1. CASE p = asset
    BY <1>5, <2>1 DEF Proper
  <2>2. CASE p = amount /\ p # asset
    BY <1>5, <1>8, <2>2 DEF Proper
  <2>3. CASE p # amount /\ p # asset
    BY <1>7, <1>8, <2>3
  <2>. QED
    BY <2>1, <2>2, <2>3
<1>10. y = [class |-> c, data |-> e]
  BY <1>7 DEF x
<1>. HIDE DEF y
<1>11. y.class = c /\ y.data = e /\ e = [p \in DOMAIN Layout[c] |-> e[p]]
  BY <1>8, <1>10
<1>12. LaidOut(y, S)
  BY <1>7, <1>9, <1>10, <1>11 DEF LaidOut
<1>13. Closed(S \cup {y}) /\ Stored(objects, S \cup {y})
  BY <1>0, <1>12, ClosedWith DEF Stored
<1>14. Proper([kind |-> "variant", class |-> "Operation"], <<y>>, S \cup {y})
  BY <1>4, <1>11 DEF Proper
<1>. QED
  BY <1>1, <1>2, <1>13, <1>14, LeafStep

\* Whatever is a signed transaction has its list of signatures.
LEMMA SignaturesIs ==
    ASSUME IInv, NEW u \in Var, IsA(u, "SignedTransaction")
    PROVE  /\ handles[u] # Nil /\ <<"signatures">> \in DOMAIN Layout[handles[u].class]
           /\ Layout[handles[u].class][<<"signatures">>].kind = "list"
           /\ Layout[handles[u].class][<<"signatures">>].class = "CompactSignature"
<1>1. handles[u] # Nil /\ handles[u].class \in Class /\ "SignedTransaction" \in Ancestors[handles[u].class]
  BY DEF IsA, IInv, ViewInv, Views
<1>2. /\ <<"signatures">> \in DOMAIN Layout["SignedTransaction"]
      /\ Layout["SignedTransaction"][<<"signatures">>].kind = "list"
      /\ Layout["SignedTransaction"][<<"signatures">>].class = "CompactSignature"
  BY NamedAssumption
<1>. QED
  BY <1>1, <1>2, BaseAssumption

LEMMA SignStep ==
    ASSUME IInv, NEW u \in Var, Sign(u)
    PROVE  IInv'
<1>. DEFINE place == <<"signatures">>
            d == At(u, place)
            y == [class |-> "CompactSignature", data |-> Leaf(Digest(u))]
            slot == Layout[handles[u].class][place]
<1>0. PICK S : Closed(S) /\ Stored(objects, S)
  BY DEF IInv
<1>1. /\ handles[u] # Nil /\ IsA(u, "SignedTransaction") /\ Len(d) < MaxLen
      /\ Put(u, place, Leaf(Append(d, y)))
  BY DEF Sign, IsA
<1>2. place \in DOMAIN Layout[handles[u].class] /\ slot.kind = "list" /\ slot.class = "CompactSignature"
  BY <1>1, SignaturesIs
<1>3. Proper(slot, d, S)
  BY <1>0, <1>1, <1>2, AtProper DEF IInv
<1>4. LaidOut(y, S)
  <2>1. /\ "CompactSignature" \in Class /\ DOMAIN Layout["CompactSignature"] = {<<>>}
        /\ Layout["CompactSignature"][<<>>].kind = "opaque"
    <3>1. /\ "CompactSignature" \in Class /\ DOMAIN Layout["CompactSignature"] = {<<>>}
          /\ Alternatives["CompactSignature"] = {}
      BY NamedAssumption
    <3>. QED
      BY <3>1, OpaqueIs
  <2>2. y.class = "CompactSignature" /\ y.data = [p \in {<<>>} |-> Digest(u)]
    BY DEF Leaf
  <2>3. y = [class |-> "CompactSignature", data |-> y.data]
    BY <2>2
  <2>. HIDE DEF y
  <2>4. y.data = [p \in DOMAIN Layout["CompactSignature"] |-> y.data[p]]
    BY <2>1, <2>2
  <2>5. ASSUME NEW p \in DOMAIN Layout["CompactSignature"]
        PROVE  Proper(Layout["CompactSignature"][p], y.data[p], S)
    BY <2>1 DEF Proper
  <2>. QED
    BY <2>1, <2>2, <2>3, <2>4, <2>5 DEF LaidOut
<1>5. Closed(S \cup {y}) /\ Stored(objects, S \cup {y})
  BY <1>0, <1>4, ClosedWith DEF Stored
<1>6. y.class = "CompactSignature"
  OBVIOUS
<1>. HIDE DEF y, slot, d, place
<1>7. Proper(slot, Append(d, y), S \cup {y})
  <2>. DEFINE T == {x \in S \cup {y} : x.class = slot.class}
  <2>1. PICK n \in 0..MaxLen : d \in [1..n -> {x \in S : x.class = slot.class}]
    BY <1>2, <1>3 DEF Proper
  <2>2. d \in [1..n -> T] /\ y \in T /\ n \in Nat /\ MaxLen \in Nat
    BY <1>2, <1>6, <2>1, ValueAssumption
  <2>. HIDE DEF T
  <2>3. d \in Seq(T) /\ Len(d) = n
    BY <2>2, SeqDef
  <2>4. Append(d, y) \in Seq(T) /\ Len(Append(d, y)) = n + 1
    BY <2>2, <2>3, AppendProperties
  <2>5. Append(d, y) \in [1..n + 1 -> T]
    BY <2>4, LenProperties
  <2>6. n + 1 \in 0..MaxLen
    BY <1>1, <2>2, <2>3
  <2>. QED
    BY <1>2, <2>5, <2>6 DEF Proper, T
<1>. QED
  BY <1>1, <1>2, <1>5, <1>7, LeafStep DEF slot

\* Whatever is a transaction has the two numbers of its reference block.
LEMMA ReferenceIs ==
    ASSUME IInv, NEW u \in Var, IsA(u, "Transaction"), NEW half \in {<<"ref_block_num">>, <<"ref_block_prefix">>}
    PROVE  half \in DOMAIN Layout[handles[u].class] /\ Layout[handles[u].class][half].kind = "plain"
<1>1. handles[u].class \in Class /\ "Transaction" \in Ancestors[handles[u].class]
  BY DEF IsA, IInv, ViewInv, Views
<1>2. half \in DOMAIN Layout["Transaction"] /\ Layout["Transaction"][half].kind = "plain"
  BY NamedAssumption
<1>. QED
  BY <1>1, <1>2, BaseAssumption

LEMMA SetReferenceBlockStep ==
    ASSUME IInv, NEW u \in Var, NEW n \in Datum, SetReferenceBlock(u, n)
    PROVE  IInv'
<1>. DEFINE c == handles[u].class
            d == Seen(handles[u]).data
            num == <<"ref_block_num">>
            prefix == <<"ref_block_prefix">>
            e == [d EXCEPT ![num] = n, ![prefix] = n]
<1>0. PICK S : Closed(S) /\ Stored(objects, S)
  BY DEF IInv
<1>1. handles[u] # Nil /\ c \in Class /\ IsA(u, "Transaction") /\ Put(u, <<>>, e)
  BY DEF SetReferenceBlock, IsA, IInv, ViewInv, Views
<1>2. \A half \in {num, prefix} : half \in DOMAIN Layout[c] /\ Layout[c][half].kind = "plain"
  BY <1>1, ReferenceIs
<1>3. ASSUME NEW r \in DOMAIN Layout[c] PROVE Proper(Layout[c][r], e[r], S)
  <2>1. DOMAIN d = DOMAIN Layout[c] /\ d[r] = At(u, r)
    BY DEF Seen, At
  <2>2. e[r] = IF r \in {num, prefix} THEN n ELSE d[r]
    <3>. HIDE DEF d, num, prefix
    <3>. QED
      BY <2>1
  <2>. HIDE DEF e, num, prefix
  <2>3. CASE r \in {num, prefix}
    BY <1>2, <2>2, <2>3 DEF Proper
  <2>4. CASE r \notin {num, prefix}
    <3>1. Proper(Layout[c][r], d[r], S)
      BY <1>0, <1>1, <2>1, AtProper DEF IInv
    <3>. QED
      BY <2>2, <2>4, <3>1
  <2>. QED
    BY <2>3, <2>4
<1>. HIDE DEF e
<1>4. ASSUME NEW r \in Path, <<>> \o r \in DOMAIN Layout[c] PROVE Proper(Layout[c][<<>> \o r], e[r], S)
  <2>1. <<>> \o r = r
    BY PathAlgebra
  <2>. QED
    BY <1>3, <1>4, <2>1
<1>. QED
  BY <1>0, <1>1, <1>4, PathAlgebra, PutStep

\* Whatever is a signed block header has the place of its signature.
LEMMA MinerSignatureIs ==
    ASSUME IInv, NEW u \in Var, IsA(u, "SignedBlockHeader")
    PROVE  /\ handles[u] # Nil /\ <<"miner_signature">> \in DOMAIN Layout[handles[u].class]
           /\ Layout[handles[u].class][<<"miner_signature">>].kind = "opaque"
<1>1. handles[u] # Nil /\ handles[u].class \in Class /\ "SignedBlockHeader" \in Ancestors[handles[u].class]
  BY DEF IsA, IInv, ViewInv, Views
<1>2. /\ <<"miner_signature">> \in DOMAIN Layout["SignedBlockHeader"]
      /\ Layout["SignedBlockHeader"][<<"miner_signature">>].kind = "opaque"
  BY NamedAssumption
<1>. QED
  BY <1>1, <1>2, BaseAssumption

LEMMA SignHeaderStep ==
    ASSUME IInv, NEW u \in Var, SignHeader(u)
    PROVE  IInv'
<1>. DEFINE place == <<"miner_signature">>
            slot == Layout[handles[u].class][place]
<1>0. PICK S : Closed(S) /\ Stored(objects, S)
  BY DEF IInv
<1>1. PICK d : IsA(u, "SignedBlockHeader") /\ Put(u, place, Leaf(d))
  BY DEF SignHeader
<1>2. handles[u] # Nil /\ place \in DOMAIN Layout[handles[u].class] /\ slot.kind = "opaque"
  BY <1>1, MinerSignatureIs
<1>3. Proper(slot, d, S)
  BY <1>2 DEF Proper
<1>. HIDE DEF place
<1>. QED
  BY <1>0, <1>1, <1>2, <1>3, LeafStep

-----------------------------------------------------------------------------
(* The theorems *)

LEMMA InvInit == Init => IInv
<1>. SUFFICES ASSUME Init PROVE IInv
  OBVIOUS
<1>1. ShapeInv /\ ViewInv
  BY DEF Init, ShapeInv, ViewInv
<1>2. Closed({}) /\ Stored(objects, {})
  BY DEF Init, Closed, Stored
<1>. QED
  BY <1>1, <1>2 DEF IInv

LEMMA InvNext == IInv /\ [Next]_vars => IInv'
<1>. SUFFICES ASSUME IInv, [Next]_vars PROVE IInv'
  OBVIOUS
<1>1. CASE UNCHANGED vars
  BY <1>1 DEF vars, IInv, ShapeInv, ViewInv, Views, Stored, Closed, LaidOut, Proper
<1>2. ASSUME NEW v \in Var, Del(v) \/ \E c \in Made : Make(v, c) \/ Fetch(v, c) PROVE IInv'
  BY <1>2, UnbindStep, MakeStep DEF Del
<1>3. ASSUME NEW v \in Var, NEW u \in Var, Reads(v, u) PROVE IInv'
  BY <1>3, AliasStep, WrapStep, ReadPartStep, ReadCopyStep, ReadPayloadStep, ReadItemStep,
     ReadAlternativeStep DEF Reads
<1>4. ASSUME NEW u \in Var, NEW a, Assigns(u, a) PROVE IInv'
  BY <1>4, SetDatumStep, SetPartStep, SetCopyStep, SetPayloadStep, SetBytesStep, SetListStep DEF Assigns
<1>5. ASSUME NEW u \in Var, Writes(u) PROVE IInv'
  BY <1>4, <1>5, SetFeeStep, SignStep, SetReferenceBlockStep, SignHeaderStep DEF Writes
<1>. QED
  BY <1>1, <1>2, <1>3, <1>5 DEF Next

\* Every variable refers to a place that is laid out as its class is, in an object
\* that is laid out as its own class is, all the way down: this is what no assignment,
\* rebinding or deletion disturbs (module.hpp:27-131, operation.cpp:7-46).
THEOREM InductiveInvariant == Spec => []IInv
  BY InvInit, InvNext, PTL DEF Spec

LEMMA HoldsProper ==
    ASSUME NEW slot, NEW d, NEW S, Proper(slot, d, S)
    PROVE  Holds(slot, d)
<1>1. CASE slot.kind = "list"
  <2>1. PICK n \in 0..MaxLen : d \in [1..n -> {x \in S : x.class = slot.class}]
    BY <1>1 DEF Proper
  <2>2. Len(d) = n /\ \A i \in 1..n : d[i].class = slot.class
    BY <2>1, ValueAssumption
  <2>3. n \in Nat /\ n <= MaxLen
    BY <2>1, ValueAssumption
  <2>4. Len(d) <= MaxLen /\ \A i \in 1..Len(d) : d[i].class = slot.class
    BY <2>2, <2>3
  <2>. QED
    BY <1>1, <2>4 DEF Holds
<1>2. CASE slot.kind \in {"optional", "ref", "variant", "bytes"}
  <2>1. ASSUME NEW x, d = <<x>> PROVE Len(d) = 1 /\ d[1] = x /\ \A i \in 1..Len(d) : d[i] = x
    BY <2>1
  <2>2. ASSUME d = <<>> PROVE Len(d) = 0
    BY <2>2
  <2>3. CASE slot.kind = "optional"
    BY <2>1, <2>2, <2>3 DEF Proper, Holds
  <2>4. CASE slot.kind = "ref"
    BY <2>1, <2>4 DEF Proper, Holds
  <2>5. CASE slot.kind = "variant"
    BY <2>1, <2>5 DEF Proper, Holds
  <2>6. CASE slot.kind = "bytes"
    BY <2>1, <2>6 DEF Proper, Holds
  <2>. QED
    BY <1>2, <2>3, <2>4, <2>5, <2>6
<1>3. CASE slot.kind \notin {"list", "optional", "ref", "variant", "bytes"}
  BY <1>3 DEF Proper, Holds
<1>. QED
  BY <1>1, <1>2, <1>3

LEMMA InvTypeOK == IInv => TypeOK
<1>. SUFFICES ASSUME IInv PROVE TypeOK
  OBVIOUS
<1>0. PICK S : Closed(S) /\ Stored(objects, S)
  BY DEF IInv
<1>1. ASSUME NEW o \in Oid, objects[o] # Nil
      PROVE  /\ objects[o].class \in Class
             /\ DOMAIN objects[o].data = DOMAIN Layout[objects[o].class]
             /\ \A p \in DOMAIN objects[o].data : Holds(Layout[objects[o].class][p], objects[o].data[p])
  <2>. DEFINE x == objects[o]
  <2>1. LaidOut(x, S)
    BY <1>0, <1>1 DEF Closed, Stored
  <2>. HIDE DEF x
  <2>2. x.class \in Class /\ x = [class |-> x.class, data |-> [p \in DOMAIN Layout[x.class] |-> x.data[p]]]
    BY <2>1 DEF LaidOut
  <2>3. DOMAIN x.data = DOMAIN Layout[x.class]
    BY <2>2
  <2>4. \A p \in DOMAIN x.data : Holds(Layout[x.class][p], x.data[p])
    BY <2>1, <2>3, HoldsProper DEF LaidOut
  <2>. QED
    BY <2>2, <2>3, <2>4 DEF x
<1>2. \A v \in Var : handles[v] # Nil => handles[v].root \in Oid /\ handles[v].class \in Class
  BY DEF IInv, ViewInv, Views
<1>. QED
  BY <1>1, <1>2 DEF TypeOK

LEMMA InvNoDangling == IInv => NoDangling
<1>. SUFFICES ASSUME IInv, NEW v \in Var, handles[v] # Nil
              PROVE  /\ objects[handles[v].root] # Nil
                     /\ \A p \in DOMAIN Layout[handles[v].class] :
                           handles[v].path \o p \in DOMAIN objects[handles[v].root].data
  BY DEF NoDangling
<1>1. Views(handles[v], objects)
  BY DEF IInv, ViewInv
<1>2. /\ DOMAIN objects[handles[v].root].data = DOMAIN Layout[objects[handles[v].root].class]
  BY <1>1, InvTypeOK DEF TypeOK, Views
<1>. QED
  BY <1>1, <1>2, LeafPath DEF Views

\* Every alternative has a reader but AssetNameEquals, whose reader is hidden by a second
\* property of its name.
AlternativesHaveReaders ==
    \A c \in Class : \A b \in Alternatives[c] \ {"AssetNameEquals"} :
        \E a \in DOMAIN Reader[c] : Reader[c][a] = b

LEMMA InvReadable == AlternativesHaveReaders /\ IInv => Readable
<1>. SUFFICES ASSUME AlternativesHaveReaders, IInv, NEW v \in Var,
                     handles[v] # Nil, Alternatives[handles[v].class] # {}
              PROVE  LET held == At(v, <<>>)[1].class
                     IN \/ \E a \in DOMAIN Reader[handles[v].class] :
                              Reader[handles[v].class][a] = held
                        \/ held = "AssetNameEquals"
  BY DEF Readable
<1>. DEFINE c == handles[v].class
            d == At(v, <<>>)
<1>1. PICK S : Closed(S) /\ Stored(objects, S)
  BY DEF IInv
<1>2. Proper([kind |-> "variant", class |-> c], d, S)
  BY <1>1, VariantIs, AtProper DEF IInv
<1>3. PICK x \in S : d = <<x>> /\ x.class \in Alternatives[c]
  BY <1>2 DEF Proper
<1>4. c \in Class /\ d[1].class \in Alternatives[c]
  BY <1>3 DEF IInv, ViewInv, Views
<1>. QED
  BY <1>4 DEF AlternativesHaveReaders

\* The data of every object is laid out as its class is.
THEOREM TypeCorrect == Spec => []TypeOK
  BY InductiveInvariant, InvTypeOK, PTL

\* No view dangles, for any classes, any program and any storage.
THEOREM NoDanglingCorrect == Spec => []NoDangling
  BY InductiveInvariant, InvNoDangling, PTL

\* If the table gives each alternative a reader, no program makes a variant that cannot
\* be read back: the alternatives are not mixed up by copying, listing, wrapping,
\* reading or set_fee (operation.cpp:80-171), whatever the classes and the storage.
THEOREM ReadableCorrect ==
    ASSUME AlternativesHaveReaders
    PROVE  Spec => []Readable
<1>1. IInv => Readable
  BY InvReadable
<1>. QED
  BY <1>1, InductiveInvariant, PTL

-----------------------------------------------------------------------------
(* Writes are local *)

\* Binding a variable changes nothing that another variable shows.
LEMMA BindQuiet ==
    ASSUME IInv, NEW v \in Var, NEW h, NEW store, Bind(v, h, store),
           \A w \in Var : handles[w] # Nil => store[handles[w].root] = objects[handles[w].root]
    PROVE  Changed = {}
<1>. SUFFICES ASSUME NEW w \in Var, handles[w] # Nil, handles'[w] = handles[w]
              PROVE  Seen(handles[w])' = Seen(handles[w])
  BY DEF Changed
<1>1. handles[w].root \in Oid
  BY DEF IInv, ViewInv, Views
<1>2. objects'[handles[w].root] = objects[handles[w].root]
  BY <1>1 DEF Bind
<1>. QED
  BY <1>2 DEF Seen

LEMMA BindNewQuiet ==
    ASSUME IInv, NEW v \in Var, NEW value, BindNew(v, value)
    PROVE  Changed = {}
<1>1. PICK o \in Oid : /\ objects[o] = Nil
                       /\ Bind(v, [root |-> o, path |-> <<>>, class |-> value.class], [objects EXCEPT ![o] = value])
  BY DEF BindNew
<1>2. \A w \in Var : handles[w] # Nil => [objects EXCEPT ![o] = value][handles[w].root] = objects[handles[w].root]
  BY <1>1 DEF IInv, ShapeInv, ViewInv, Views
<1>. QED
  BY <1>1, <1>2, BindQuiet

LEMMA ReadsQuiet ==
    ASSUME IInv, NEW v \in Var, NEW u \in Var,
           Del(v) \/ (\E c \in Made : Make(v, c) \/ Fetch(v, c)) \/ Reads(v, u)
    PROVE  Changed = {}
<1>1. ASSUME NEW h, Bind(v, h, objects) PROVE Changed = {}
  BY <1>1, BindQuiet
<1>2. ASSUME NEW value, BindNew(v, value) PROVE Changed = {}
  BY <1>2, BindNewQuiet
<1>3. (\E h : Bind(v, h, objects)) \/ \E value : BindNew(v, value)
  BY DEF Del, Make, Fetch, Reads, Unbind, Alias, Wrap, ReadPart, ReadCopy, ReadPayload, ReadItem, ReadAlternative
<1>. QED
  BY <1>1, <1>2, <1>3

\* Who sees a Put change what he shows refers to an overlapping place.
LEMMA PutChanges ==
    ASSUME IInv, NEW u \in Var, handles[u] # Nil, NEW place \in Path, NEW data, Put(u, place, data),
           NEW v \in Changed
    PROVE  /\ handles[v].root = handles[u].root /\ handles[v].path \in Path /\ v \in Var
           /\ \E p \in Path : /\ handles[v].path \o p \in DOMAIN Layout[objects[handles[u].root].class]
                              /\ p \in DOMAIN Layout[handles[v].class]
                              /\ IsPrefix(handles[u].path \o place, handles[v].path \o p)
                              /\ objects'[handles[u].root].data[handles[v].path \o p]
                                   # objects[handles[u].root].data[handles[v].path \o p]
<1>. DEFINE h == handles[u]
            g == handles[v]
            x == objects[h.root]
            y == objects'[h.root]
            spot == h.path \o place
<1>1. v \in Var /\ g # Nil /\ handles'[v] = g /\ Seen(g)' # Seen(g)
  BY DEF Changed
<1>2. Views(g, objects)
  BY <1>1 DEF IInv, ViewInv
<1>3. /\ objects' = [o \in Oid |-> IF o = h.root THEN y ELSE objects[o]]
      /\ \A p \in DOMAIN Layout[x.class] :
            y.data[p] = IF IsPrefix(spot, p) THEN data[SubSeq(p, Len(spot) + 1, Len(p))] ELSE x.data[p]
  BY PutEffect
<1>4. PICK p \in DOMAIN Layout[g.class] : objects'[g.root].data[g.path \o p] # objects[g.root].data[g.path \o p]
  BY <1>1 DEF Seen
<1>5. g.root = h.root /\ g.root \in Oid /\ g.path \in Path /\ g.class \in Class
  BY <1>2, <1>3, <1>4 DEF Views
<1>6. p \in Path
  BY <1>5, LeafPath
<1>7. g.path \o p \in DOMAIN Layout[x.class]
  BY <1>2, <1>5, <1>6 DEF Views
<1>8. IsPrefix(spot, g.path \o p)
  BY <1>3, <1>4, <1>5, <1>7
<1>. QED
  BY <1>1, <1>4, <1>5, <1>6, <1>7, <1>8

LEMMA PutWithin ==
    ASSUME IInv, NEW u \in Var, handles[u] # Nil, NEW place \in Path, NEW data, Put(u, place, data)
    PROVE  Within(u, place)
<1>. SUFFICES ASSUME NEW v \in Changed
              PROVE  /\ handles[u].root = handles[v].root
                     /\ Overlap(handles[u].path \o place, handles[v].path)
  BY DEF Within
<1>1. handles[v].root = handles[u].root /\ handles[v].path \in Path
  BY PutChanges
<1>2. PICK p \in Path : IsPrefix(handles[u].path \o place, handles[v].path \o p)
  BY PutChanges
<1>3. handles[u].path \o place \in Path /\ handles[v].path \o p \in Path
  BY <1>1, PathConcat DEF IInv, ViewInv, Views
<1>4. IsPrefix(handles[v].path, handles[v].path \o p)
  BY <1>1, PathConcat
<1>. QED
  BY <1>1, <1>2, <1>3, <1>4, PathOverlap

\* What begins a path with one name more is that path or begins the shorter one.
LEMMA PrefixOfLonger ==
    ASSUME NEW p \in Path, NEW s \in Path, NEW a \in STRING, IsPrefix(s, p \o <<a>>)
    PROVE  s = p \o <<a>> \/ IsPrefix(s, p)
<1>. DEFINE t == p \o <<a>>
<1>1. <<a>> \in Path /\ Len(<<a>>) = 1
  BY PathOfOne
<1>2. t \in Path /\ Len(t) = Len(p) + 1 /\ \A i \in 1..Len(p) : t[i] = p[i]
  <2>1. /\ t \in Path /\ Len(t) = Len(p) + Len(<<a>>)
        /\ \A i \in 1..Len(p) + Len(<<a>>) : t[i] = IF i <= Len(p) THEN p[i] ELSE <<a>>[i - Len(p)]
    BY <1>1, ConcatProperties DEF Path
  <2>2. Len(p) \in Nat
    BY LenProperties DEF Path
  <2>. HIDE DEF t
  <2>. QED
    BY <1>1, <2>1, <2>2
<1>. HIDE DEF t
<1>3. Len(s) <= Len(t) /\ \A i \in 1..Len(s) : s[i] = t[i]
  BY <1>2, PrefixByItem DEF t
<1>4. Len(s) \in Nat /\ Len(p) \in Nat
  BY LenProperties DEF Path
<1>5. CASE Len(s) = Len(t)
  BY <1>2, <1>3, <1>5, SeqEqual DEF Path, t
<1>6. CASE Len(s) # Len(t)
  <2>1. Len(s) <= Len(p) /\ \A i \in 1..Len(s) : s[i] = p[i]
    BY <1>2, <1>3, <1>4, <1>6
  <2>. QED
    BY <2>1, PrefixByItem
<1>. QED
  BY <1>5, <1>6

\* Nobody refers to a leaf that is a number or bytes: such a leaf is a value.
LEMMA NoViewOfValue ==
    ASSUME IInv, NEW v \in Var, handles[v] # Nil
    PROVE  <<>> \in DOMAIN Layout[handles[v].class]
              => Layout[objects[handles[v].root].class][handles[v].path].kind \in {"opaque", "variant"}
<1>. DEFINE h == handles[v]
<1>. SUFFICES ASSUME <<>> \in DOMAIN Layout[h.class]
              PROVE  Layout[objects[h.root].class][h.path].kind \in {"opaque", "variant"}
  OBVIOUS
<1>1. Views(h, objects) /\ h.class \in Class /\ h.path \in Path
  BY DEF IInv, ViewInv, Views
<1>2. h.path \o <<>> = h.path /\ <<>> \in Path
  BY <1>1, PathAlgebra
<1>3. Layout[objects[h.root].class][h.path] = Layout[h.class][<<>>]
  BY <1>1, <1>2 DEF Views
<1>4. Layout[h.class][<<>>] = [kind |-> IF Alternatives[h.class] = {} THEN "opaque" ELSE "variant", class |-> h.class]
  BY <1>1, LeafAssumption
<1>5. Layout[h.class][<<>>].kind \in {"opaque", "variant"}
  BY <1>4
<1>. QED
  BY <1>3, <1>5

\* The leaves that SetPayload changes.
LEMMA PayloadChanges ==
    ASSUME IInv, NEW u \in Var, NEW a, NEW w \in Var, SetPayload(u, a, w),
           NEW r \in DOMAIN Layout[handles[u].class],
           objects'[handles[u].root].data[handles[u].path \o r] # objects[handles[u].root].data[handles[u].path \o r]
    PROVE  r \in {<<"id">>, <<"data">>}
<1>. DEFINE c == handles[u].class
            x == <<CopyAs(w, ClassOf(u, a))>>
            d == Seen(handles[u]).data
            root == handles[u].root
            path == handles[u].path
<1>1. Has(u, a, {"payload"})
  BY DEF SetPayload
<1>2. handles[u] # Nil /\ Views(handles[u], objects) /\ c \in Class
  BY <1>1, HasIs
<1>3. PICK n : Put(u, <<>>, [d EXCEPT ![<<"data">>] = x, ![<<"id">>] = n])
  BY DEF SetPayload
<1>. DEFINE e == [d EXCEPT ![<<"data">>] = x, ![<<"id">>] = n]
<1>4. r \in Path /\ path \in Path /\ <<>> \in Path /\ path \o <<>> = path
  BY <1>2, LeafPath, PathAlgebra DEF Views
<1>5. path \o r \in DOMAIN Layout[objects[root].class] /\ IsPrefix(path, path \o r)
      /\ SubSeq(path \o r, Len(path) + 1, Len(path \o r)) = r
  BY <1>2, <1>4, PathConcat DEF Views
<1>6. objects'[root].data[path \o r] = e[r]
  <2>1. Put(u, <<>>, e)
    BY <1>3
  <2>. HIDE DEF e
  <2>2. \A p \in DOMAIN Layout[objects[root].class] :
           objects'[root].data[p] = IF IsPrefix(path \o <<>>, p)
                                    THEN e[SubSeq(p, Len(path \o <<>>) + 1, Len(p))] ELSE objects[root].data[p]
    BY <1>2, <1>4, <2>1, PutEffect
  <2>. QED
    BY <1>4, <1>5, <2>2
<1>7. DOMAIN d = DOMAIN Layout[c] /\ d[r] = objects[root].data[path \o r]
  BY DEF Seen
<1>. HIDE DEF d, root, path
<1>8. r \notin {<<"id">>, <<"data">>} => e[r] = d[r]
  BY <1>7
<1>. QED
  BY <1>6, <1>7, <1>8 DEF root, path

\* The leaves that SetReferenceBlock changes.
LEMMA ReferenceChanges ==
    ASSUME IInv, NEW u \in Var, NEW n \in Datum, SetReferenceBlock(u, n),
           NEW r \in DOMAIN Layout[handles[u].class],
           objects'[handles[u].root].data[handles[u].path \o r] # objects[handles[u].root].data[handles[u].path \o r]
    PROVE  r \in {<<"ref_block_num">>, <<"ref_block_prefix">>}
<1>. DEFINE c == handles[u].class
            d == Seen(handles[u]).data
            root == handles[u].root
            path == handles[u].path
            e == [d EXCEPT ![<<"ref_block_num">>] = n, ![<<"ref_block_prefix">>] = n]
<1>1. handles[u] # Nil /\ Views(handles[u], objects) /\ c \in Class
  BY DEF SetReferenceBlock, IsA, IInv, ViewInv, Views
<1>2. r \in Path /\ path \in Path /\ <<>> \in Path /\ path \o <<>> = path
  BY <1>1, LeafPath, PathAlgebra DEF Views
<1>3. path \o r \in DOMAIN Layout[objects[root].class] /\ IsPrefix(path, path \o r)
      /\ SubSeq(path \o r, Len(path) + 1, Len(path \o r)) = r
  BY <1>1, <1>2, PathConcat DEF Views
<1>4. objects'[root].data[path \o r] = e[r]
  <2>1. Put(u, <<>>, e)
    BY DEF SetReferenceBlock
  <2>. HIDE DEF e
  <2>2. \A p \in DOMAIN Layout[objects[root].class] :
           objects'[root].data[p] = IF IsPrefix(path \o <<>>, p)
                                    THEN e[SubSeq(p, Len(path \o <<>>) + 1, Len(p))] ELSE objects[root].data[p]
    BY <1>1, <1>2, <2>1, PutEffect
  <2>. QED
    BY <1>2, <1>3, <2>2
<1>5. DOMAIN d = DOMAIN Layout[c] /\ d[r] = objects[root].data[path \o r]
  BY DEF Seen
<1>. HIDE DEF d, root, path
<1>6. r \notin {<<"ref_block_num">>, <<"ref_block_prefix">>} => e[r] = d[r]
  BY <1>5
<1>. QED
  BY <1>4, <1>5, <1>6 DEF root, path

LEMMA PayloadWithin ==
    ASSUME IInv, NEW u \in Var, NEW a, NEW w \in Var, SetPayload(u, a, w)
    PROVE  Within(u, <<a>>)
<1>. DEFINE h == handles[u]
            layout == Layout[objects[h.root].class]
<1>1. Has(u, a, {"payload"})
  BY DEF SetPayload
<1>2. h # Nil /\ Views(h, objects) /\ h.class \in Class /\ a \in STRING /\ h.path \in Path
  BY <1>1, HasIs DEF Views
<1>3. /\ {<<"id">>, <<"data">>} \subseteq DOMAIN Layout[h.class]
      /\ Layout[h.class][<<"id">>].kind = "plain" /\ Layout[h.class][<<"data">>].kind = "bytes"
  BY <1>1, PayloadIs
<1>4. \E data : Put(u, <<>>, data)
  BY DEF SetPayload
<1>5. <<>> \in Path /\ h.path \o <<>> = h.path
  BY <1>2, PathAlgebra
<1>. SUFFICES ASSUME NEW v \in Changed
              PROVE  h.root = handles[v].root /\ Overlap(h.path \o <<a>>, handles[v].path)
  BY DEF Within
<1>. DEFINE g == handles[v]
<1>6. /\ g.root = h.root /\ g.path \in Path /\ v \in Var /\ g # Nil
  BY <1>2, <1>4, <1>5, PutChanges DEF Changed
<1>7. PICK p \in Path : /\ g.path \o p \in DOMAIN layout /\ p \in DOMAIN Layout[g.class]
                        /\ IsPrefix(h.path \o <<>>, g.path \o p)
                        /\ objects'[h.root].data[g.path \o p] # objects[h.root].data[g.path \o p]
  BY <1>2, <1>4, <1>5, PutChanges
<1>8. PICK r \in Path : g.path \o p = h.path \o r
  BY <1>2, <1>5, <1>6, <1>7, PathConcat, PathSplit
<1>9. r \in DOMAIN Layout[h.class] /\ layout[h.path \o r] = Layout[h.class][r]
  BY <1>2, <1>7, <1>8 DEF Views
<1>10. r \in {<<"id">>, <<"data">>}
  BY <1>7, <1>8, <1>9, PayloadChanges
<1>11. PICK b \in STRING : r = <<b>>
  <2>1. PICK b \in {"id", "data"} : r = <<b>>
    BY <1>10
  <2>2. b = r[1] /\ 1 \in 1..Len(r)
    BY <2>1
  <2>3. b \in STRING
    BY <2>2, ElementOfSeq DEF Path
  <2>. QED
    BY <2>1, <2>3
<1>12. layout[h.path \o <<b>>].kind \in {"plain", "bytes"}
  BY <1>3, <1>9, <1>10, <1>11
<1>13. IsPrefix(g.path, h.path \o <<b>>)
  BY <1>6, <1>8, <1>11, PathConcat
<1>14. g.path # h.path \o <<b>>
  <2>. SUFFICES ASSUME g.path = h.path \o <<b>> PROVE FALSE
    OBVIOUS
  <2>1. g.path \o p = g.path \o <<>> /\ g.path \o <<>> = g.path
    BY <1>6, <1>8, <1>11, PathAlgebra
  <2>2. p = <<>>
    BY <1>5, <1>6, <2>1, PathAlgebra
  <2>3. layout[g.path].kind \in {"opaque", "variant"}
    BY <1>6, <1>7, <2>2, NoViewOfValue
  <2>. QED
    BY <1>12, <2>3
<1>15. IsPrefix(g.path, h.path)
  BY <1>2, <1>6, <1>13, <1>14, PrefixOfLonger
<1>16. <<a>> \in Path /\ h.path \o <<a>> \in Path /\ IsPrefix(h.path, h.path \o <<a>>)
  BY <1>2, PathOfOne, PathConcat
<1>17. IsPrefix(g.path, h.path \o <<a>>)
  BY <1>2, <1>6, <1>15, <1>16, PrefixExtended
<1>. QED
  BY <1>6, <1>17 DEF Overlap

LEMMA AssignsWithin ==
    ASSUME IInv, NEW u \in Var, NEW a \in Names(u), Assigns(u, a)
    PROVE  handles[u] # Nil /\ Within(u, <<a>>)
<1>1. handles[u] # Nil /\ a \in DOMAIN Attribute[handles[u].class]
  BY DEF Names
<1>2. a \in STRING
  BY <1>1, AttributeAssumption DEF IInv, ViewInv, Views
<1>3. <<a>> \in Path
  BY <1>2, PathOfOne
<1>4. CASE \E w \in Var : SetPayload(u, a, w)
  BY <1>1, <1>4, PayloadWithin
<1>5. CASE ~\E w \in Var : SetPayload(u, a, w)
  <2>1. \E data : Put(u, <<a>>, data)
    BY <1>5 DEF Assigns, SetDatum, SetPart, SetCopy, SetBytes, SetList
  <2>. QED
    BY <1>1, <1>3, <2>1, PutWithin
<1>. QED
  BY <1>4, <1>5

Local ==
    Changed # {} =>
       \E u \in Var :
          /\ handles[u] # Nil
          /\ \/ \E a \in Names(u) : Within(u, <<a>>) /\ Assigns(u, a)
             \/ Within(u, <<>>) /\ \E n \in Datum : SetFee(u, n) \/ SetReferenceBlock(u, n)
             \/ Within(u, <<"signatures">>) /\ Sign(u)
             \/ Within(u, <<"miner_signature">>) /\ SignHeader(u)

LEMMA StepLocal == IInv /\ [Next]_vars => [Local]_vars
<1>. SUFFICES ASSUME IInv, Next PROVE Local
  BY DEF Local
<1>1. ASSUME NEW v \in Var, Del(v) \/ \E c \in Made : Make(v, c) \/ Fetch(v, c) PROVE Changed = {}
  BY <1>1, ReadsQuiet
<1>2. ASSUME NEW v \in Var, NEW u \in Var, Reads(v, u) PROVE Changed = {}
  BY <1>2, ReadsQuiet
<1>3. ASSUME NEW u \in Var, Writes(u) PROVE Local
  <2>1. CASE \E a \in Names(u) : Assigns(u, a)
    BY <2>1, AssignsWithin DEF Local
  <2>2. CASE \E n \in Datum : SetFee(u, n) \/ SetReferenceBlock(u, n)
    <3>1. handles[u] # Nil /\ \E data : Put(u, <<>>, data)
      BY <2>2 DEF SetFee, SetReferenceBlock, IsA
    <3>2. Within(u, <<>>)
      BY <3>1, PutWithin, PathAlgebra
    <3>. QED
      BY <2>2, <3>1, <3>2 DEF Local
  <2>3. CASE Sign(u)
    <3>1. handles[u] # Nil /\ \E data : Put(u, <<"signatures">>, data)
      BY <2>3 DEF Sign, IsA
    <3>2. <<"signatures">> \in Path
      BY NamedAssumption, LeafPath
    <3>3. Within(u, <<"signatures">>)
      BY <3>1, <3>2, PutWithin
    <3>. QED
      BY <2>3, <3>1, <3>3 DEF Local
  <2>4. CASE SignHeader(u)
    <3>1. handles[u] # Nil /\ \E data : Put(u, <<"miner_signature">>, data)
      BY <2>4 DEF SignHeader, IsA
    <3>2. <<"miner_signature">> \in Path
      BY NamedAssumption, LeafPath
    <3>3. Within(u, <<"miner_signature">>)
      BY <3>1, <3>2, PutWithin
    <3>. QED
      BY <2>4, <3>1, <3>3 DEF Local
  <2>. QED
    BY <1>3, <2>1, <2>2, <2>3, <2>4 DEF Writes
<1>. QED
  BY <1>1, <1>2, <1>3 DEF Next, Local

\* A step changes what a variable shows only by a write to a place that lies in,
\* around or at it, for any classes and any program.
THEOREM WriteIsLocalCorrect == Spec => WriteIsLocal
<1>1. Spec => [][Local]_vars
  BY InductiveInvariant, StepLocal, PTL DEF Spec
<1>. QED
  BY <1>1 DEF Local, WriteIsLocal

-----------------------------------------------------------------------------
(* What is set stays set *)

\* A step takes the value of an optional attribute away.
Unset(o, p) ==
    /\ objects[o] # Nil /\ objects'[o] # Nil /\ p \in DOMAIN objects[o].data
    /\ Layout[objects[o].class][p].kind \in {"optional", "maybe"}
    /\ objects[o].data[p] # <<>> /\ objects'[o].data[p] = <<>>

LEMMA ReadsKeep ==
    ASSUME IInv, NEW v \in Var, NEW u \in Var, NEW o \in Oid, NEW p,
           Del(v) \/ (\E c \in Made : Make(v, c) \/ Fetch(v, c)) \/ Reads(v, u)
    PROVE  ~Unset(o, p)
<1>1. ASSUME NEW h, Bind(v, h, objects) PROVE ~Unset(o, p)
  BY <1>1 DEF Bind, Unset
<1>2. ASSUME NEW value, BindNew(v, value) PROVE ~Unset(o, p)
  <2>1. PICK n \in Oid : /\ objects[n] = Nil
                         /\ Bind(v, [root |-> n, path |-> <<>>, class |-> value.class], [objects EXCEPT ![n] = value])
    BY <1>2 DEF BindNew
  <2>2. objects[o] # Nil => [objects EXCEPT ![n] = value][o] = objects[o]
    BY <2>1 DEF IInv, ShapeInv
  <2>. QED
    BY <2>1, <2>2 DEF Bind, Unset
<1>3. (\E h : Bind(v, h, objects)) \/ \E value : BindNew(v, value)
  BY DEF Del, Make, Fetch, Reads, Unbind, Alias, Wrap, ReadPart, ReadCopy, ReadPayload, ReadItem, ReadAlternative
<1>. QED
  BY <1>1, <1>2, <1>3

\* Where the data unsets p: at leaf r of the place.
Unsets(u, place, r, p, data) ==
    /\ p = handles[u].path \o (place \o r)
    /\ place \o r \in DOMAIN Layout[handles[u].class]
    /\ Layout[handles[u].class][place \o r].kind \in {"optional", "maybe"}
    /\ data[r] = <<>>

\* What a Put unsets is among what it puts.
LEMMA PutUnsets ==
    ASSUME IInv, NEW u \in Var, handles[u] # Nil, NEW place \in Path, NEW data, Put(u, place, data),
           NEW o \in Oid, NEW p, Unset(o, p)
    PROVE  /\ o = handles[u].root /\ p \in Path /\ handles[u].path \in Path
           /\ \E r \in Path : Unsets(u, place, r, p, data)
<1>. DEFINE h == handles[u]
            x == objects[h.root]
            spot == h.path \o place
<1>1. Views(h, objects) /\ h.path \in Path
  BY DEF IInv, ViewInv, Views
<1>2. /\ objects' = [b \in Oid |-> IF b = h.root THEN objects'[h.root] ELSE objects[b]]
      /\ \A q \in DOMAIN Layout[x.class] :
            objects'[h.root].data[q] = IF IsPrefix(spot, q) THEN data[SubSeq(q, Len(spot) + 1, Len(q))] ELSE x.data[q]
  BY PutEffect
<1>3. o = h.root
  BY <1>2 DEF Unset
<1>4. x.class \in Class /\ p \in DOMAIN Layout[x.class] /\ p \in Path
  BY <1>3, InvTypeOK, LeafPath DEF Unset, TypeOK
<1>5. IsPrefix(spot, p) /\ data[SubSeq(p, Len(spot) + 1, Len(p))] = <<>>
  BY <1>2, <1>3, <1>4 DEF Unset
<1>6. spot \in Path
  BY <1>1, PathConcat
<1>7. PICK r \in Path : p = spot \o r
  BY <1>4, <1>5, <1>6, PathSplit
<1>8. SubSeq(p, Len(spot) + 1, Len(p)) = r
  BY <1>6, <1>7, PathConcat
<1>9. p = h.path \o (place \o r) /\ place \o r \in Path
  <2>1. spot \o r = h.path \o (place \o r)
    BY <1>1, PathAssociative
  <2>2. place \o r \in Path
    BY PathConcat
  <2>. QED
    BY <1>7, <2>1, <2>2
<1>10. place \o r \in DOMAIN Layout[h.class] /\ Layout[x.class][p] = Layout[h.class][place \o r]
  BY <1>1, <1>4, <1>9 DEF Views
<1>. QED
  BY <1>1, <1>3, <1>4, <1>5, <1>8, <1>9, <1>10 DEF Unset, Unsets

LEMMA LeafUnsets ==
    ASSUME IInv, NEW u \in Var, handles[u] # Nil, NEW place \in DOMAIN Layout[handles[u].class], NEW d,
           Put(u, place, Leaf(d)), NEW o \in Oid, NEW p, Unset(o, p)
    PROVE  Layout[handles[u].class][place].kind \in {"optional", "maybe"} /\ d = <<>>
<1>1. handles[u].class \in Class
  BY DEF IInv, ViewInv, Views
<1>2. place \in Path /\ \A q \in DOMAIN Layout[handles[u].class] : IsPrefix(place, q) => place = q
  BY <1>1, LeafPath
<1>3. PICK r \in Path : Unsets(u, place, r, p, Leaf(d))
  BY <1>2, PutUnsets
<1>4. place = place \o r
  BY <1>2, <1>3, PathConcat DEF Unsets
<1>5. r = <<>>
  BY <1>2, <1>4, PathAlgebra
<1>6. Leaf(d)[r] = d
  BY <1>5 DEF Leaf
<1>. QED
  BY <1>3, <1>4, <1>6 DEF Unsets

LEMMA SetPartUnsets ==
    ASSUME IInv, NEW u \in Var, NEW a, NEW w \in Var, SetPart(u, a, w), NEW o \in Oid, NEW p, Unset(o, p)
    PROVE  handles[u].root = o /\ IsStrictPrefix(Append(handles[u].path, a), p)
<1>. DEFINE h == handles[u]
            c == h.class
            b == ClassOf(u, a)
<1>1. Has(u, a, {"part"}) /\ \E data : Put(u, <<a>>, data)
  BY DEF SetPart
<1>2. /\ h # Nil /\ c \in Class /\ a \in DOMAIN Attribute[c] /\ a \in STRING
      /\ Attribute[c][a].kind = "part"
  BY <1>1, HasIs
<1>3. /\ b \in Class
      /\ \A q \in DOMAIN Layout[c] : q # <<>> /\ Head(q) = a => Tail(q) \in DOMAIN Layout[b]
      /\ \A q \in DOMAIN Layout[b] : Layout[c][<<a>> \o q] = Layout[b][q]
  BY <1>2, AttributeAssumption DEF ClassOf
<1>4. <<a>> \in Path
  BY <1>2, PathOfOne
<1>5. o = h.root /\ p \in Path /\ h.path \in Path
  BY <1>1, <1>2, <1>4, PutUnsets
<1>6. PICK r \in Path : /\ p = h.path \o (<<a>> \o r) /\ <<a>> \o r \in DOMAIN Layout[c]
                        /\ Layout[c][<<a>> \o r].kind \in {"optional", "maybe"}
  <2>1. PICK data : Put(u, <<a>>, data)
    BY <1>1
  <2>2. \E r \in Path : Unsets(u, <<a>>, r, p, data)
    BY <1>2, <1>4, <2>1, PutUnsets
  <2>. QED
    BY <2>2 DEF Unsets
<1>7. Append(h.path, a) = h.path \o <<a>> /\ h.path \o <<a>> \in Path
  BY <1>2, <1>4, <1>5, PathOfOne, PathConcat
<1>8. p = Append(h.path, a) \o r
  <2>1. (h.path \o <<a>>) \o r = h.path \o (<<a>> \o r)
    BY <1>4, <1>5, PathAssociative
  <2>. QED
    BY <1>6, <1>7, <2>1
<1>9. IsPrefix(Append(h.path, a), p)
  BY <1>7, <1>8, PathConcat
<1>10. r # <<>>
  <2>1. r \in DOMAIN Layout[b] /\ Layout[c][<<a>> \o r] = Layout[b][r]
    <3>1. <<a>> \o r # <<>> /\ Head(<<a>> \o r) = a /\ Tail(<<a>> \o r) = r
      BY <1>2, PathOfOne
    <3>2. r \in DOMAIN Layout[b]
      BY <1>3, <1>6, <3>1
    <3>. QED
      BY <1>3, <3>2
  <2>. SUFFICES ASSUME r = <<>> PROVE FALSE
    OBVIOUS
  <2>2. Layout[b][<<>>] = [kind |-> IF Alternatives[b] = {} THEN "opaque" ELSE "variant", class |-> b]
    BY <1>3, <2>1, LeafAssumption
  <2>3. Layout[b][<<>>].kind \in {"opaque", "variant"}
    BY <2>2
  <2>. QED
    BY <1>6, <2>1, <2>3
<1>11. Append(h.path, a) # p
  <2>. SUFFICES ASSUME Append(h.path, a) = p PROVE FALSE
    OBVIOUS
  <2>1. p \o <<>> = p \o r /\ <<>> \in Path
    BY <1>5, <1>8, PathAlgebra
  <2>2. r = <<>>
    BY <1>5, <2>1, PathAlgebra
  <2>. QED
    BY <1>10, <2>2
<1>. QED
  BY <1>5, <1>9, <1>11 DEF IsStrictPrefix

LEMMA OthersUnsetNothing ==
    ASSUME IInv, NEW u \in Var, NEW a, Assigns(u, a), ~\E w \in Var : SetPart(u, a, w), NEW o \in Oid, NEW p
    PROVE  ~Unset(o, p)
<1>. SUFFICES ASSUME Unset(o, p) PROVE FALSE
  OBVIOUS
<1>. DEFINE c == handles[u].class
            slot == Attribute[c][a]
<1>1. ASSUME NEW kinds, "part" \notin kinds, "payload" \notin kinds, Has(u, a, kinds), NEW d, Put(u, <<a>>, Leaf(d))
      PROVE  slot.kind \in kinds \cap {"optional", "maybe"} /\ d = <<>>
  <2>1. <<a>> \in DOMAIN Layout[c] /\ Layout[c][<<a>>] = slot
    BY <1>1, LeafOfAttribute
  <2>2. handles[u] # Nil /\ slot.kind \in kinds
    BY <1>1, HasIs
  <2>. QED
    BY <1>1, <2>1, <2>2, LeafUnsets
<1>2. ASSUME NEW n \in Datum, SetDatum(u, a, n) PROVE FALSE
  <2>1. n = <<>>
    BY <1>1, <1>2 DEF SetDatum
  <2>. QED
    BY <2>1, ValueAssumption
<1>3. ASSUME NEW w \in Var, SetCopy(u, a, w) PROVE FALSE
  <2>1. <<CopyAs(w, ClassOf(u, a))>> = <<>>
    BY <1>1, <1>3 DEF SetCopy
  <2>. QED
    BY <2>1
<1>4. ASSUME NEW b, SetBytes(u, a, b) PROVE FALSE
  <2>1. slot.kind \in {"bytes"} \cap {"optional", "maybe"}
    BY <1>1, <1>4 DEF SetBytes
  <2>. QED
    BY <2>1
<1>5. ASSUME NEW list, SetList(u, a, list) PROVE FALSE
  <2>1. slot.kind \in {"list"} \cap {"optional", "maybe"}
    BY <1>1, <1>5 DEF SetList
  <2>. QED
    BY <2>1
<1>6. ASSUME NEW w \in Var, SetPayload(u, a, w) PROVE FALSE
  <2>1. Has(u, a, {"payload"}) /\ \E data : Put(u, <<>>, data)
    BY <1>6 DEF SetPayload
  <2>2. handles[u] # Nil
    BY <2>1, HasIs
  <2>3. PICK r \in Path : /\ p = handles[u].path \o (<<>> \o r) /\ <<>> \o r \in DOMAIN Layout[c]
                          /\ Layout[c][<<>> \o r].kind \in {"optional", "maybe"}
    <3>1. PICK data : Put(u, <<>>, data)
      BY <2>1
    <3>2. \E r \in Path : Unsets(u, <<>>, r, p, data)
      BY <2>2, <3>1, PutUnsets, PathAlgebra
    <3>. QED
      BY <3>2 DEF Unsets
  <2>4. <<>> \o r = r
    BY PathAlgebra
  <2>5. o = handles[u].root
    BY <2>1, <2>2, PutUnsets, PathAlgebra
  <2>6. r \in {<<"id">>, <<"data">>}
    BY <1>6, <2>3, <2>4, <2>5, PayloadChanges DEF Unset
  <2>. QED
    BY <2>1, <2>3, <2>4, <2>6, PayloadIs
<1>. QED
  BY <1>2, <1>3, <1>4, <1>5, <1>6 DEF Assigns

Kept ==
    \A o \in Oid : objects[o] # Nil /\ objects'[o] # Nil =>
       \A p \in DOMAIN objects[o].data :
          (/\ Layout[objects[o].class][p].kind \in {"optional", "maybe"}
           /\ objects[o].data[p] # <<>> /\ objects'[o].data[p] = <<>>)
          => \E u, w \in Var : \E a \in Names(u) :
               /\ handles[u].root = o
               /\ IsStrictPrefix(Append(handles[u].path, a), p)
               /\ SetPart(u, a, w)

LEMMA StepKeeps == IInv /\ [Next]_vars => [Kept]_vars
<1>. SUFFICES ASSUME IInv, Next, NEW o \in Oid, NEW p, Unset(o, p)
              PROVE  \E u, w \in Var : \E a \in Names(u) :
                        /\ handles[u].root = o
                        /\ IsStrictPrefix(Append(handles[u].path, a), p)
                        /\ SetPart(u, a, w)
  BY DEF Kept, Unset
<1>1. PICK u \in Var : Writes(u)
  BY ReadsKeep DEF Next
<1>2. CASE \E a \in Names(u), w \in Var : SetPart(u, a, w)
  BY <1>2, SetPartUnsets
<1>3. CASE \E a \in Names(u) : Assigns(u, a) /\ ~\E w \in Var : SetPart(u, a, w)
  BY <1>3, OthersUnsetNothing
<1>4. CASE \E n \in Datum : SetFee(u, n)
  <2>1. PICK d : handles[u] # Nil /\ handles[u].class = "Operation" /\ Put(u, <<>>, Leaf(d))
    BY <1>4 DEF SetFee
  <2>2. /\ <<>> \in DOMAIN Layout[handles[u].class]
        /\ Layout[handles[u].class][<<>>] = [kind |-> "variant", class |-> "Operation"]
    BY <2>1, NamedAssumption, VariantIs
  <2>3. Layout[handles[u].class][<<>>].kind \in {"optional", "maybe"}
    BY <2>1, <2>2, LeafUnsets
  <2>. QED
    BY <2>2, <2>3
<1>5. CASE Sign(u)
  <2>1. PICK d : handles[u] # Nil /\ IsA(u, "SignedTransaction") /\ Put(u, <<"signatures">>, Leaf(d))
    BY <1>5 DEF Sign, IsA
  <2>2. /\ <<"signatures">> \in DOMAIN Layout[handles[u].class]
        /\ Layout[handles[u].class][<<"signatures">>].kind = "list"
    BY <2>1, SignaturesIs
  <2>3. Layout[handles[u].class][<<"signatures">>].kind \in {"optional", "maybe"}
    BY <2>1, <2>2, LeafUnsets
  <2>. QED
    BY <2>2, <2>3
<1>6. ASSUME NEW n \in Datum, SetReferenceBlock(u, n) PROVE FALSE
  <2>1. handles[u] # Nil /\ IsA(u, "Transaction") /\ \E data : Put(u, <<>>, data)
    BY <1>6 DEF SetReferenceBlock, IsA
  <2>2. PICK r \in Path : /\ p = handles[u].path \o (<<>> \o r) /\ <<>> \o r \in DOMAIN Layout[handles[u].class]
                          /\ Layout[handles[u].class][<<>> \o r].kind \in {"optional", "maybe"}
    <3>1. PICK data : Put(u, <<>>, data)
      BY <2>1
    <3>2. \E r \in Path : Unsets(u, <<>>, r, p, data)
      BY <2>1, <3>1, PutUnsets, PathAlgebra
    <3>. QED
      BY <3>2 DEF Unsets
  <2>3. <<>> \o r = r
    BY PathAlgebra
  <2>4. o = handles[u].root
    BY <2>1, PutUnsets, PathAlgebra
  <2>5. r \in {<<"ref_block_num">>, <<"ref_block_prefix">>}
    BY <1>6, <2>2, <2>3, <2>4, ReferenceChanges DEF Unset
  <2>. QED
    BY <2>1, <2>2, <2>3, <2>5, ReferenceIs
<1>7. CASE SignHeader(u)
  <2>1. PICK d : handles[u] # Nil /\ IsA(u, "SignedBlockHeader") /\ Put(u, <<"miner_signature">>, Leaf(d))
    BY <1>7 DEF SignHeader, IsA
  <2>2. /\ <<"miner_signature">> \in DOMAIN Layout[handles[u].class]
        /\ Layout[handles[u].class][<<"miner_signature">>].kind = "opaque"
    BY <2>1, MinerSignatureIs
  <2>3. Layout[handles[u].class][<<"miner_signature">>].kind \in {"optional", "maybe"}
    BY <2>1, <2>2, LeafUnsets
  <2>. QED
    BY <2>2, <2>3
<1>. QED
  BY <1>1, <1>2, <1>3, <1>4, <1>5, <1>6, <1>7 DEF Writes

\* No assignment to an optional attribute, nor to anything else but a part it lies in,
\* ever takes its value away.
THEOREM StaysSetCorrect == Spec => StaysSet
<1>1. Spec => [][Kept]_vars
  BY InductiveInvariant, StepKeeps, PTL DEF Spec
<1>. QED
  BY <1>1 DEF Kept, StaysSet
=============================================================================
