------------------------- MODULE AuthorityEditProofs -------------------------
(***************************************************************************)
(* Theorems about AuthorityEdit, for any number of variables, signers and  *)
(* weights, and dicts of any length: its type invariant and its two action *)
(* properties.  The inductive invariant adds that in every dict the items  *)
(* with the dict's own key objects come before those the program put, so   *)
(* that the first item of a signer, which is written last, is the dict's   *)
(* own one if there is one.                                                *)
(***************************************************************************)
EXTENDS AuthorityEdit, SequenceTheorems, SumTheorems

-----------------------------------------------------------------------------
\* The sequences of at most n items are those whose length is at most n.
LEMMA UpToIsBounded ==
    ASSUME NEW n \in Nat, NEW S, NEW s
    PROVE  s \in UpTo(n, S) <=> s \in Seq(S) /\ Len(s) <= n
<1>1. ASSUME s \in UpTo(n, S) PROVE s \in Seq(S) /\ Len(s) <= n
  <2>1. PICK m \in 0..n : s \in [1..m -> S]
    BY <1>1 DEF UpTo
  <2>. QED
    BY <2>1, SeqDef
<1>2. ASSUME s \in Seq(S), Len(s) <= n PROVE s \in UpTo(n, S)
  <2>1. Len(s) \in 0..n /\ s \in [1..Len(s) -> S]
    BY <1>2
  <2>. QED
    BY <2>1 DEF UpTo
<1>. QED
  BY <1>1, <1>2

\* The items of a finite set, put in an order.
LEMMA SetToSeqType ==
    ASSUME NEW S, IsFiniteSet(S)
    PROVE  SetToSeq(S) \in Seq(S) /\ Len(SetToSeq(S)) = Cardinality(S)
<1>1. Cardinality(S) \in Nat /\ ExistsBijection(1..Cardinality(S), S)
  BY FS_CardinalityType
<1>2. PICK f \in [1..Cardinality(S) -> S] : IsInjective(f)
  BY <1>1 DEF ExistsBijection, Bijection, Injection
<1>3. SetToSeq(S) \in [1..Cardinality(S) -> S]
  BY <1>2 DEF SetToSeq
<1>. QED
  BY <1>1, <1>3, SeqDef

LEMMA RemoveAtProperties ==
    ASSUME NEW S, NEW s \in Seq(S), NEW i \in 1..Len(s)
    PROVE  /\ RemoveAt(s, i) \in Seq(S)
           /\ Len(RemoveAt(s, i)) = Len(s) - 1
           /\ \A j \in 1..Len(s) - 1 :
                 RemoveAt(s, i)[j] = IF j < i THEN s[j] ELSE s[j + 1]
<1>0. Len(s) \in Nat /\ i \in Int /\ \A j \in 1..Len(s) : s[j] \in S
  OBVIOUS
<1>. DEFINE front == SubSeq(s, 1, i - 1)
            back == SubSeq(s, i + 1, Len(s))
<1>1. /\ front \in Seq(S) /\ Len(front) = i - 1
      /\ \A j \in 1..i - 1 : front[j] = s[j]
  <2>1. \A j \in 1..i - 1 : s[j] \in S
    BY <1>0
  <2>2. /\ front \in Seq(S) /\ Len(front) = IF 1 <= i - 1 THEN i - 1 - 1 + 1 ELSE 0
        /\ \A j \in 1..i - 1 - 1 + 1 : front[j] = s[1 + j - 1]
    BY <1>0, <2>1, SubSeqProperties
  <2>. HIDE DEF front
  <2>. QED
    BY <1>0, <2>2
<1>2. /\ back \in Seq(S) /\ Len(back) = Len(s) - i
      /\ \A j \in 1..Len(s) - i : back[j] = s[i + j]
  <2>1. \A j \in i + 1..Len(s) : s[j] \in S
    BY <1>0
  <2>2. /\ back \in Seq(S)
        /\ Len(back) = IF i + 1 <= Len(s) THEN Len(s) - (i + 1) + 1 ELSE 0
        /\ \A j \in 1..Len(s) - (i + 1) + 1 : back[j] = s[i + 1 + j - 1]
    BY <1>0, <2>1, SubSeqProperties
  <2>. HIDE DEF back
  <2>. QED
    BY <1>0, <2>2
<1>. HIDE DEF front, back
<1>3. /\ front \o back \in Seq(S)
      /\ Len(front \o back) = Len(front) + Len(back)
      /\ \A j \in 1..Len(front) + Len(back) :
            (front \o back)[j] = IF j <= Len(front) THEN front[j] ELSE back[j - Len(front)]
  BY <1>1, <1>2, ConcatProperties
<1>4. RemoveAt(s, i) = front \o back
  BY DEF RemoveAt, front, back
<1>5. ASSUME NEW j \in 1..Len(s) - 1
      PROVE  (front \o back)[j] = IF j < i THEN s[j] ELSE s[j + 1]
  <2>1. CASE j < i
    BY <1>0, <1>1, <1>2, <1>3, <2>1
  <2>2. CASE ~(j < i)
    <3>1. /\ j - (i - 1) \in 1..Len(s) - i /\ i + (j - (i - 1)) = j + 1
          /\ ~(j <= Len(front)) /\ j - Len(front) = j - (i - 1)
      BY <1>0, <1>1, <2>2
    <3>2. (front \o back)[j] = back[j - (i - 1)]
      BY <1>0, <1>1, <1>2, <1>3, <3>1
    <3>. QED
      BY <1>2, <2>2, <3>1, <3>2
  <2>. QED
    BY <2>1, <2>2
<1>. QED
  BY <1>0, <1>1, <1>2, <1>3, <1>4, <1>5

LEMMA AppendedItem ==
    ASSUME NEW S, NEW s \in Seq(S), NEW x \in S
    PROVE  /\ Append(s, x) \in Seq(S) /\ Len(Append(s, x)) = Len(s) + 1
           /\ \A i \in 1..Len(s) : Append(s, x)[i] = s[i]
           /\ Append(s, x)[Len(s) + 1] = x
  OBVIOUS

-----------------------------------------------------------------------------
\* The items of the dict's own key objects come first.
OwnFirst(items) ==
    \A i \in 1..Len(items) : items[i].own => \A j \in 1..i : items[j].own

Dicts == UpTo(MaxItems, Item)

OwnItemsFirst == \A v \in Var : dict[v] # Nil => OwnFirst(dict[v])

IInv == TypeOK /\ OwnItemsFirst

LEMMA DictType ==
    ASSUME TypeOK, NEW v \in Var, dict[v] # Nil
    PROVE  /\ dict[v] \in Dicts /\ dict[v] \in Seq(Item)
           /\ Len(dict[v]) \in Nat /\ Len(dict[v]) <= MaxItems
<1>1. dict[v] \in Dicts
  BY DEF TypeOK, Dicts
<1>. QED
  BY <1>1, UpToIsBounded, WeightAssumption DEF Dicts

\* A dict that is read has no more items than there are signers, all its own.
LEMMA EncodedType ==
    ASSUME NEW map \in Map
    PROVE  Encoded(map) \in Dicts /\ OwnFirst(Encoded(map))
<1>. DEFINE Signers == {k \in Key : map[k] # Absent}
            item(k) == [key |-> k, value |-> map[k], own |-> TRUE]
            Items == {item(k) : k \in Signers}
            g == [k \in Signers |-> item(k)]
<1>1. IsFiniteSet(Signers) /\ Cardinality(Signers) <= Cardinality(Key)
  BY WeightAssumption, FS_Subset
<1>2. g \in Surjection(Signers, Items)
  BY DEF Surjection
<1>3. IsFiniteSet(Items) /\ Cardinality(Items) <= Cardinality(Signers)
  BY <1>1, <1>2, FS_Surjection
<1>4. \A x \in Items : x \in Item /\ x.own
  <2>1. \A k \in Signers : k \in Key /\ map[k] \in Value
    BY DEF Map
  <2>2. \A k \in Signers : item(k) \in Item /\ item(k).own
    BY <2>1 DEF Item
  <2>. HIDE DEF item, Signers
  <2>. QED
    BY <2>2
<1>5. Encoded(map) = SetToSeq(Items)
  BY DEF Encoded
<1>6. /\ IsFiniteSet(Key) /\ Cardinality(Items) \in Nat /\ Cardinality(Signers) \in Nat
      /\ Cardinality(Key) \in Nat /\ MaxItems \in Nat /\ Cardinality(Key) <= MaxItems
  BY <1>1, <1>3, WeightAssumption, FS_CardinalityType
<1>. HIDE DEF Items, Signers, g
<1>7. SetToSeq(Items) \in Seq(Items) /\ Len(SetToSeq(Items)) = Cardinality(Items)
  BY <1>3, SetToSeqType
<1>8. /\ Encoded(map) \in Seq(Item) /\ Len(Encoded(map)) <= MaxItems
      /\ \A i \in 1..Len(Encoded(map)) : Encoded(map)[i].own
  <2>1. \A i \in 1..Len(SetToSeq(Items)) : SetToSeq(Items)[i] \in Items
    BY <1>7
  <2>2. SetToSeq(Items) \in Seq(Item)
    BY <1>4, <1>7
  <2>3. Len(SetToSeq(Items)) <= MaxItems
    BY <1>1, <1>3, <1>6, <1>7
  <2>. QED
    BY <1>4, <1>5, <2>1, <2>2, <2>3
<1>. QED
  BY <1>6, <1>8, UpToIsBounded DEF Dicts, OwnFirst

\* What the steps of the program make of a dict.
LEMMA EditedDict ==
    ASSUME TypeOK, OwnItemsFirst, NEW v \in Var, dict[v] # Nil
    PROVE  /\ \A i \in 1..Len(dict[v]), w \in Value :
                 LET new == [dict[v] EXCEPT ![i].value = w] IN new \in Dicts /\ OwnFirst(new)
           /\ \A k \in Key, w \in Value : Len(dict[v]) < MaxItems =>
                 LET new == Append(dict[v], [key |-> k, value |-> w, own |-> FALSE])
                 IN new \in Dicts /\ OwnFirst(new)
           /\ \A i \in 1..Len(dict[v]) :
                 LET new == RemoveAt(dict[v], i) IN new \in Dicts /\ OwnFirst(new)
<1>0. /\ dict[v] \in Seq(Item) /\ Len(dict[v]) \in Nat /\ Len(dict[v]) <= MaxItems
      /\ MaxItems \in Nat /\ OwnFirst(dict[v])
  BY DictType, WeightAssumption DEF OwnItemsFirst
<1>. DEFINE d == dict[v]
<1>. HIDE DEF d
<1>1. d \in Seq(Item) /\ Len(d) \in Nat /\ Len(d) <= MaxItems /\ MaxItems \in Nat /\ OwnFirst(d)
  BY <1>0 DEF d
<1>2. ASSUME NEW i \in 1..Len(d), NEW w \in Value
      PROVE  [d EXCEPT ![i].value = w] \in Dicts /\ OwnFirst([d EXCEPT ![i].value = w])
  <2>. DEFINE new == [d EXCEPT ![i].value = w]
  <2>1. d \in [1..Len(d) -> Item]
    BY <1>1
  <2>2. [d[i] EXCEPT !.value = w] \in Item /\ [d[i] EXCEPT !.value = w].own = d[i].own
    BY <2>1 DEF Item
  <2>3. new \in [1..Len(d) -> Item] /\ \A j \in 1..Len(d) : new[j].own = d[j].own
    BY <2>1, <2>2
  <2>. HIDE DEF new
  <2>4. new \in Seq(Item) /\ Len(new) = Len(d)
    BY <1>1, <2>3, SeqDef
  <2>5. new \in Dicts
    BY <1>1, <2>4, UpToIsBounded DEF Dicts
  <2>6. OwnFirst(new)
    BY <1>1, <2>3, <2>4 DEF OwnFirst
  <2>. QED
    BY <2>5, <2>6 DEF new
<1>3. ASSUME NEW k \in Key, NEW w \in Value, Len(d) < MaxItems
      PROVE  LET new == Append(d, [key |-> k, value |-> w, own |-> FALSE])
             IN  new \in Dicts /\ OwnFirst(new)
  <2>. DEFINE x == [key |-> k, value |-> w, own |-> FALSE]
              new == Append(d, x)
  <2>1. x \in Item /\ ~x.own
    BY DEF Item
  <2>. HIDE DEF x
  <2>2. /\ new \in Seq(Item) /\ Len(new) = Len(d) + 1
        /\ \A i \in 1..Len(d) : new[i] = d[i]
        /\ new[Len(d) + 1] = x
    BY <1>1, <2>1, AppendedItem
  <2>. HIDE DEF new
  <2>3. new \in Dicts
    BY <1>1, <1>3, <2>2, UpToIsBounded DEF Dicts
  <2>4. ASSUME NEW i \in 1..Len(new), new[i].own, NEW j \in 1..i PROVE new[j].own
    <3>1. i \in 1..Len(d)
      BY <1>1, <2>1, <2>2, <2>4
    <3>2. j \in 1..Len(d) /\ new[i] = d[i] /\ new[j] = d[j]
      BY <1>1, <2>2, <3>1
    <3>. QED
      BY <1>1, <2>4, <3>1, <3>2 DEF OwnFirst
  <2>. QED
    BY <2>3, <2>4 DEF OwnFirst, new, x
<1>4. ASSUME NEW i \in 1..Len(d) PROVE RemoveAt(d, i) \in Dicts /\ OwnFirst(RemoveAt(d, i))
  <2>. DEFINE new == RemoveAt(d, i)
  <2>1. /\ new \in Seq(Item) /\ Len(new) = Len(d) - 1
        /\ \A j \in 1..Len(d) - 1 : new[j] = IF j < i THEN d[j] ELSE d[j + 1]
    BY <1>1, RemoveAtProperties
  <2>. HIDE DEF new
  <2>2. new \in Dicts
    BY <1>1, <2>1, UpToIsBounded DEF Dicts
  <2>3. ASSUME NEW j \in 1..Len(new), new[j].own, NEW l \in 1..j PROVE new[l].own
    <3>1. PICK a \in 1..Len(d) : new[j] = d[a] /\ a = IF j < i THEN j ELSE j + 1
      BY <1>1, <2>1
    <3>2. PICK b \in 1..Len(d) : new[l] = d[b] /\ b = IF l < i THEN l ELSE l + 1
      BY <1>1, <2>1
    <3>3. b \in 1..a
      BY <3>1, <3>2
    <3>. QED
      BY <1>1, <2>3, <3>1, <3>2, <3>3 DEF OwnFirst
  <2>. QED
    BY <2>2, <2>3 DEF OwnFirst, new
<1>. QED
  BY <1>2, <1>3, <1>4 DEF d

LEMMA TypeInit == Init => TypeOK /\ OwnItemsFirst
<1>. SUFFICES ASSUME Init PROVE TypeOK /\ OwnItemsFirst
  OBVIOUS
<1>1. EmptyMap \in Map
  BY DEF EmptyMap, Map
<1>. QED
  BY <1>1 DEF Init, TypeOK, OwnItemsFirst

\* A step that replaces the dict of one variable.
LEMMA HeldDict ==
    ASSUME TypeOK, OwnItemsFirst, NEW v \in Var, NEW new \in Dicts, OwnFirst(new),
           Hold(v, new)
    PROVE  /\ dict' \in [Var -> Dicts \cup {Nil}]
           /\ \A u \in Var : dict'[u] # Nil => OwnFirst(dict'[u])
<1>1. dict \in [Var -> Dicts \cup {Nil}] /\ \A u \in Var : dict[u] # Nil => OwnFirst(dict[u])
  BY DEF TypeOK, Dicts, OwnItemsFirst
<1>2. dict' = [dict EXCEPT ![v] = new]
  BY DEF Hold
<1>. QED
  BY <1>1, <1>2

LEMMA StepIInv == IInv /\ [Next]_vars => IInv'
<1>. SUFFICES ASSUME TypeOK, OwnItemsFirst, [Next]_vars PROVE TypeOK' /\ OwnItemsFirst'
  BY DEF IInv
<1>0. /\ auths \in Map /\ threshold \in Value
      /\ dict \in [Var -> Dicts \cup {Nil}]
      /\ \A u \in Var : dict[u] # Nil => OwnFirst(dict[u])
  BY DEF TypeOK, Dicts, OwnItemsFirst
<1>. SUFFICES /\ auths' \in Map /\ threshold' \in Value
              /\ dict' \in [Var -> Dicts \cup {Nil}]
              /\ \A u \in Var : dict'[u] # Nil => OwnFirst(dict'[u])
  BY DEF TypeOK, Dicts, OwnItemsFirst
<1>1. ASSUME NEW n \in Value, SetThreshold(n)
      PROVE  UNCHANGED <<auths, dict>> /\ threshold' \in Value
  BY <1>1 DEF SetThreshold
<1>2. ASSUME NEW v \in Var, Read(v)
      PROVE  /\ UNCHANGED <<auths, threshold>>
             /\ Hold(v, Encoded(auths)) /\ Encoded(auths) \in Dicts /\ OwnFirst(Encoded(auths))
  BY <1>0, <1>2, EncodedType DEF Read
<1>3. ASSUME NEW v \in Var, Assign(v)
      PROVE  UNCHANGED <<threshold, dict>> /\ auths' \in Map
  BY <1>3 DEF Assign
<1>4. ASSUME NEW v \in Var, NEW i \in 1..MaxItems, Drop(v, i)
      PROVE  /\ UNCHANGED <<auths, threshold>>
             /\ \E new \in Dicts : OwnFirst(new) /\ Hold(v, new)
  BY <1>4, EditedDict DEF Drop
<1>5. ASSUME NEW v \in Var, NEW i \in 1..MaxItems, NEW w \in Value, Reweigh(v, i, w)
      PROVE  /\ UNCHANGED <<auths, threshold>>
             /\ \E new \in Dicts : OwnFirst(new) /\ Hold(v, new)
  BY <1>5, EditedDict DEF Reweigh
<1>6. ASSUME NEW v \in Var, NEW k \in Key, NEW w \in Value, PutByNewKey(v, k, w)
      PROVE  /\ UNCHANGED <<auths, threshold>>
             /\ \E new \in Dicts : OwnFirst(new) /\ Hold(v, new)
  BY <1>6, EditedDict DEF PutByNewKey
<1>7. CASE UNCHANGED vars
  BY <1>0, <1>7 DEF vars
<1>8. CASE \E n \in Value : SetThreshold(n)
  BY <1>0, <1>1, <1>8
<1>9. CASE \E v \in Var : Assign(v)
  BY <1>0, <1>3, <1>9
<1>10. CASE \E v \in Var : Read(v)
  BY <1>0, <1>2, <1>10, HeldDict
<1>11. CASE \E v \in Var :
               \/ \E i \in 1..MaxItems : Drop(v, i) \/ \E w \in Value : Reweigh(v, i, w)
               \/ \E k \in Key, w \in Value : PutByNewKey(v, k, w)
  <2>1. PICK v \in Var : /\ UNCHANGED <<auths, threshold>>
                         /\ \E new \in Dicts : OwnFirst(new) /\ Hold(v, new)
    BY <1>4, <1>5, <1>6, <1>11
  <2>. QED
    BY <1>0, <2>1, HeldDict
<1>. QED
  BY <1>7, <1>8, <1>9, <1>10, <1>11 DEF Next

\* However dicts are read, edited and assigned, their own items come first.
THEOREM InductiveInvariant == Spec => []IInv
  BY TypeInit, StepIInv, PTL DEF Spec, IInv

\* Type correctness for every value of the constants: a dict never has more items
\* than the bound, and every key object in it names a signer (module.hpp:47-54).
THEOREM TypeCorrect == Spec => []TypeOK
<1>1. IInv => TypeOK
  BY DEF IInv
<1>. QED
  BY <1>1, InductiveInvariant, PTL

-----------------------------------------------------------------------------
\* The item that decides about a signer is the first one that names it.
LEMMA AskedIsFirst ==
    ASSUME TypeOK, NEW v \in Var, dict[v] # Nil, NEW k \in Key, PositionsOf(v, k) # {}
    PROVE  \E i \in 1..Len(dict[v]) :
              /\ FirstWith(dict[v], 0, k, i)
              /\ Asked(v, k) = dict[v][i].value /\ Asked(v, k) \in Value
              /\ \A j \in 1..Len(dict[v]) : dict[v][j].key = k => i <= j
<1>1. dict[v] \in Seq(Item) /\ Len(dict[v]) \in Nat
  BY DictType
<1>2. PositionsOf(v, k) \in SUBSET Nat
  BY <1>1 DEF PositionsOf
<1>3. \E m \in PositionsOf(v, k) : \A n \in PositionsOf(v, k) : m <= n
  BY <1>2, LeastNatural
<1>. DEFINE i == Min(PositionsOf(v, k))
<1>4. i \in PositionsOf(v, k) /\ \A n \in PositionsOf(v, k) : i <= n
  BY <1>3 DEF Min
<1>5. Asked(v, k) = dict[v][i].value
  BY DEF Asked
<1>. HIDE DEF i
<1>6. i \in 1..Len(dict[v]) /\ dict[v][i].key = k
  BY <1>4 DEF PositionsOf
<1>7. dict[v][i] \in Item
  BY <1>1, <1>6
<1>8. \A j \in 1..Len(dict[v]) : dict[v][j].key = k => i <= j
  BY <1>4 DEF PositionsOf
<1>9. FirstWith(dict[v], 0, k, i)
  BY <1>1, <1>6, <1>8 DEF FirstWith
<1>. QED
  BY <1>5, <1>6, <1>7, <1>8, <1>9 DEF Item

\* An assignment leaves a signer its weight, or gives it what the dict asks for.
LEMMA AssignGivesAsked ==
    ASSUME TypeOK, NEW v \in Var, Assign(v), NEW k \in Key
    PROVE  \/ auths'[k] = auths[k]
           \/ PositionsOf(v, k) # {} /\ auths'[k] = Asked(v, k)
<1>1. dict[v] # Nil /\ MergedFrom(auths', auths, dict[v], 0)
  BY DEF Assign
<1>2. CASE PositionsOf(v, k) = {}
  <2>1. \A i \in 0 + 1..Len(dict[v]) : dict[v][i].key # k
    BY <1>2 DEF PositionsOf
  <2>. QED
    BY <1>1, <2>1 DEF MergedFrom
<1>3. CASE PositionsOf(v, k) # {}
  BY <1>1, <1>3, AskedIsFirst DEF MergedFrom
<1>. QED
  BY <1>2, <1>3

\* Every dict can be assigned to every authority, and what comes out is determined:
\* MergedFrom says for each signer what the loop of decode_dict leaves it with.
THEOREM OneMerge ==
    ASSUME TypeOK, NEW v \in Var, dict[v] # Nil
    PROVE  /\ \E merged \in Map : MergedFrom(merged, auths, dict[v], 0)
           /\ \A m1, m2 \in Map :
                 MergedFrom(m1, auths, dict[v], 0) /\ MergedFrom(m2, auths, dict[v], 0) => m1 = m2
<1>. DEFINE d == dict[v]
            Named(k) == PositionsOf(v, k) # {}
            merge == [k \in Key |-> IF Named(k) THEN Asked(v, k) ELSE auths[k]]
<1>1. Len(d) \in Nat /\ auths \in Map
  BY DictType DEF TypeOK
<1>2. ASSUME NEW k \in Key, Named(k)
      PROVE  /\ Asked(v, k) \in Value
             /\ \E i \in 1..Len(d) : FirstWith(d, 0, k, i)
             /\ \A i \in 1..Len(d) : FirstWith(d, 0, k, i) => d[i].value = Asked(v, k)
  <2>1. PICK i \in 1..Len(d) :
                 /\ FirstWith(d, 0, k, i)
                 /\ Asked(v, k) = d[i].value /\ Asked(v, k) \in Value
                 /\ \A j \in 1..Len(d) : d[j].key = k => i <= j
    BY <1>2, AskedIsFirst
  <2>2. ASSUME NEW j \in 1..Len(d), FirstWith(d, 0, k, j) PROVE j = i
    <3>1. d[j].key = k /\ \A l \in 0 + 1..j - 1 : d[l].key # k
      BY <2>2 DEF FirstWith
    <3>2. i <= j /\ d[i].key = k
      BY <2>1, <3>1 DEF FirstWith
    <3>3. ~(i < j)
      BY <1>1, <3>1, <3>2
    <3>. QED
      BY <1>1, <3>2, <3>3
  <2>. QED
    BY <2>1, <2>2
<1>3. \A k \in Key : ~Named(k) => \A i \in 1..Len(d) : d[i].key # k
  BY DEF PositionsOf
<1>4. \A k \in Key : Named(k) => \E i \in 0 + 1..Len(d) : d[i].key = k
  BY DEF PositionsOf
<1>. HIDE DEF d, Named
<1>5. merge \in Map
  BY <1>1, <1>2 DEF Map
<1>6. MergedFrom(merge, auths, d, 0)
  <2>. SUFFICES ASSUME NEW k \in Key
                PROVE  /\ \A i \in 1..Len(d) : FirstWith(d, 0, k, i) => merge[k] = d[i].value
                       /\ (\A i \in 0 + 1..Len(d) : d[i].key # k) => merge[k] = auths[k]
    BY DEF MergedFrom
  <2>1. CASE Named(k)
    BY <1>2, <1>4, <2>1
  <2>2. CASE ~Named(k)
    BY <1>3, <2>2 DEF FirstWith
  <2>. QED
    BY <2>1, <2>2
<1>7. ASSUME NEW m \in Map, MergedFrom(m, auths, d, 0) PROVE m = merge
  <2>1. ASSUME NEW k \in Key PROVE m[k] = merge[k]
    <3>1. CASE Named(k)
      <4>1. PICK i \in 1..Len(d) : FirstWith(d, 0, k, i)
        BY <1>2, <3>1
      <4>. QED
        BY <1>2, <1>7, <3>1, <4>1 DEF MergedFrom
    <3>2. CASE ~Named(k)
      <4>1. \A i \in 0 + 1..Len(d) : d[i].key # k
        BY <1>3, <3>2
      <4>. QED
        BY <1>7, <3>2, <4>1 DEF MergedFrom
    <3>. QED
      BY <3>1, <3>2
  <2>. QED
    BY <1>5, <2>1 DEF Map
<1>. QED
  BY <1>5, <1>6, <1>7 DEF d

\* Only an assignment changes a weight, and it changes nothing else.
LEMMA WhoChangesWeights ==
    ASSUME [Next]_vars, auths' # auths
    PROVE  \E v \in Var : Assign(v) /\ dict[v] # Nil /\ UNCHANGED <<threshold, dict>>
<1>1. CASE UNCHANGED vars
  BY <1>1 DEF vars
<1>2. CASE Next
  BY <1>2 DEF Next, SetThreshold, Read, Assign, Drop, Reweigh, PutByNewKey
<1>. QED
  BY <1>1, <1>2

OwnKeyDecidesStep ==
    \A k \in Key : auths'[k] # auths[k] =>
       \E v \in Var :
          /\ dict[v] # Nil /\ dict'[v] = dict[v] /\ auths'[k] = Asked(v, k)
          /\ HasOwn(v, k) =>
                \E i \in 1..Len(dict[v]) :
                   dict[v][i] = [key |-> k, value |-> auths'[k], own |-> TRUE]

LEMMA OwnKeyDecidesInStep == IInv /\ [Next]_vars => OwnKeyDecidesStep
<1>. SUFFICES ASSUME TypeOK, OwnItemsFirst, [Next]_vars, NEW k \in Key, auths'[k] # auths[k]
              PROVE  \E v \in Var :
                        /\ dict[v] # Nil /\ dict'[v] = dict[v] /\ auths'[k] = Asked(v, k)
                        /\ HasOwn(v, k) =>
                              \E i \in 1..Len(dict[v]) :
                                 dict[v][i] = [key |-> k, value |-> auths'[k], own |-> TRUE]
  BY DEF IInv, OwnKeyDecidesStep
<1>1. PICK v \in Var : Assign(v) /\ dict[v] # Nil /\ UNCHANGED <<threshold, dict>>
  BY WhoChangesWeights
<1>2. PositionsOf(v, k) # {} /\ auths'[k] = Asked(v, k)
  BY <1>1, AssignGivesAsked
<1>3. PICK i \in 1..Len(dict[v]) :
               /\ FirstWith(dict[v], 0, k, i)
               /\ Asked(v, k) = dict[v][i].value
               /\ \A j \in 1..Len(dict[v]) : dict[v][j].key = k => i <= j
  BY <1>1, <1>2, AskedIsFirst
<1>4. CASE HasOwn(v, k)
  <2>1. dict[v] \in Seq(Item) /\ Len(dict[v]) \in Nat
    BY <1>1, DictType
  <2>2. PICK j \in 1..Len(dict[v]) : dict[v][j].key = k /\ dict[v][j].own
    BY <1>4 DEF HasOwn
  <2>3. i \in 1..j
    BY <1>3, <2>1, <2>2
  <2>4. dict[v][i].own
    BY <1>1, <2>2, <2>3 DEF OwnItemsFirst, OwnFirst
  <2>5. dict[v][i] \in Item /\ dict[v][i].key = k
    BY <1>3, <2>1 DEF FirstWith
  <2>6. dict[v][i] = [key |-> k, value |-> auths'[k], own |-> TRUE]
    BY <1>2, <1>3, <2>4, <2>5 DEF Item
  <2>. QED
    BY <1>1, <1>2, <2>6
<1>. QED
  BY <1>1, <1>2, <1>4

\* Whoever assigns and whatever the program put into the dict, the dict's own key
\* object decides about a signer that has one (module.hpp:56-66).
THEOREM OwnKeyDecidesCorrect == Spec => OwnKeyDecides
<1>1. IInv /\ [Next]_vars => OwnKeyDecidesStep
  BY OwnKeyDecidesInStep
<1>2. Spec => [][OwnKeyDecidesStep]_vars
  BY <1>1, InductiveInvariant, PTL DEF Spec
<1>. QED
  BY <1>2 DEF OwnKeyDecides, OwnKeyDecidesStep

-----------------------------------------------------------------------------
LEMMA SignersAre ==
    ASSUME NEW map \in Map, NEW S \in SUBSET Key
    PROVE  /\ IsFiniteSet({k \in S : map[k] # Absent})
           /\ \A k \in {j \in S : map[j] # Absent} : map[k] \in Nat
<1>1. IsFiniteSet({k \in S : map[k] # Absent})
  BY WeightAssumption, FS_Subset
<1>2. \A k \in S : map[k] # Absent => map[k] \in Nat
  BY WeightAssumption DEF Map
<1>. QED
  BY <1>1, <1>2

\* Signers none of whom is removed or given less weight reach what they reached.
LEMMA CanSignStays ==
    ASSUME NEW old \in Map, NEW new \in Map, NEW S \in SUBSET Key,
           NEW low \in Nat, NEW high \in Nat, low <= high, CanSign(S, old, high),
           \A k \in S : old[k] # Absent => new[k] # Absent /\ old[k] <= new[k]
    PROVE  CanSign(S, new, low)
<1>. DEFINE Olds == {k \in S : old[k] # Absent}
            News == {k \in S : new[k] # Absent}
            a == SumFunctionOnSet(old, Olds)
            b == SumFunctionOnSet(new, News)
<1>1. /\ IsFiniteSet(Olds) /\ \A k \in Olds : old[k] \in Nat
      /\ IsFiniteSet(News) /\ \A k \in News : new[k] \in Nat
  BY SignersAre
<1>2. Olds \in SUBSET News /\ \A k \in Olds : old[k] <= new[k]
  OBVIOUS
<1>3. a >= high
  BY DEF CanSign
<1>4. CanSign(S, new, low) <=> b >= low
  BY DEF CanSign
<1>. HIDE DEF Olds, News
<1>5. a <= b
  BY <1>1, <1>2, SumMonotonic
<1>6. a \in Int /\ b \in Int
  BY <1>1, SumType
<1>. HIDE DEF a, b
<1>. QED
  BY <1>3, <1>4, <1>5, <1>6

NothingIsRevokedStep ==
    \A S \in SUBSET Key : (CanSign(S, auths, threshold) /\ ~CanSign(S, auths', threshold')) =>
       \/ threshold' > threshold
       \/ \E k \in S, v \in Var :
             /\ dict[v] # Nil /\ dict'[v] = dict[v]
             /\ auths[k] # Absent /\ Asked(v, k) # Absent
             /\ auths'[k] = Asked(v, k) /\ auths'[k] < auths[k]

LEMMA NothingIsRevokedInStep == IInv /\ [Next]_vars => NothingIsRevokedStep
<1>. SUFFICES ASSUME IInv, [Next]_vars, NEW S \in SUBSET Key,
                     CanSign(S, auths, threshold), ~CanSign(S, auths', threshold'),
                     ~(threshold' > threshold)
              PROVE  \E k \in S, v \in Var :
                        /\ dict[v] # Nil /\ dict'[v] = dict[v]
                        /\ auths[k] # Absent /\ Asked(v, k) # Absent
                        /\ auths'[k] = Asked(v, k) /\ auths'[k] < auths[k]
  BY DEF NothingIsRevokedStep
<1>1. TypeOK /\ TypeOK'
  BY StepIInv DEF IInv
<1>2. /\ auths \in Map /\ auths' \in Map
      /\ threshold \in Nat /\ threshold' \in Nat /\ threshold' <= threshold
  BY <1>1, WeightAssumption DEF TypeOK
<1>3. PICK k \in S : auths[k] # Absent /\ ~(auths'[k] # Absent /\ auths[k] <= auths'[k])
  BY <1>2, CanSignStays
<1>4. k \in Key /\ auths[k] \in Nat
  BY <1>2, <1>3, WeightAssumption DEF Map
<1>5. auths'[k] # auths[k]
  BY <1>3, <1>4
<1>6. PICK v \in Var : Assign(v) /\ dict[v] # Nil /\ UNCHANGED <<threshold, dict>>
  BY <1>5, WhoChangesWeights
<1>7. PositionsOf(v, k) # {} /\ auths'[k] = Asked(v, k)
  BY <1>1, <1>4, <1>5, <1>6, AssignGivesAsked
<1>8. Asked(v, k) \in Value
  BY <1>1, <1>4, <1>6, <1>7, AskedIsFirst
<1>9. Asked(v, k) # Absent /\ Asked(v, k) \in Nat
  BY <1>8, ContainersAssumption, WeightAssumption
<1>10. auths'[k] < auths[k]
  BY <1>3, <1>4, <1>7, <1>9
<1>. QED
  BY <1>3, <1>6, <1>7, <1>9, <1>10

\* Whoever could sign together still can, unless the threshold is raised or an
\* assignment lowers the weight of one of them: leaving a signer out of a dict
\* revokes nothing (module.hpp:60-70), for any number of signers and any weights.
THEOREM NothingIsRevokedCorrect == Spec => NothingIsRevoked
<1>1. IInv /\ [Next]_vars => NothingIsRevokedStep
  BY NothingIsRevokedInStep
<1>2. Spec => [][NothingIsRevokedStep]_vars
  BY <1>1, InductiveInvariant, PTL DEF Spec
<1>. QED
  BY <1>2 DEF NothingIsRevoked, NothingIsRevokedStep
=============================================================================
