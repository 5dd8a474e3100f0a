---------------------------- MODULE AuthorityEdit ----------------------------
(***************************************************************************)
(* A Python program that edits who may sign for an account:                *)
(*     d = a.active.account_auths                                          *)
(*     d[D.AccountId(...)] = 2                                             *)
(*     a.active.account_auths = d                                          *)
(* Reading makes a dict with new key objects, assigning merges a dict into *)
(* the authority.  The key classes define __hash__ and no __eq__, so a key *)
(* the program makes itself is never a key of the dict: it adds an item.   *)
(* Several parts of the program may hold dicts of one authority.           *)
(***************************************************************************)
EXTENDS Containers, SequencesExt, FiniteSetsExt

CONSTANTS Var,     \* the variables that hold dicts
          Nil,     \* an unbound variable
          MaxItems \* bound: items of a dict

ASSUME WeightAssumption ==
    /\ Value \subseteq Nat
    /\ IsFiniteSet(Key)
    /\ MaxItems \in Nat /\ Cardinality(Key) <= MaxItems

VARIABLES auths,  \* account_auths or key_auths: the weight of each signer
          threshold, \* weight_threshold
          dict    \* dict[v]: the items of the dict of v, in insertion order, or Nil

vars == <<auths, threshold, dict>>

Item == [key: Key, value: Value, own: BOOLEAN]

TypeOK ==
    /\ auths \in Map
    /\ threshold \in Value
    /\ dict \in [Var -> UpTo(MaxItems, Item) \cup {Nil}]

Init ==
    /\ auths \in Map
    /\ threshold \in Value
    /\ dict = [v \in Var |-> Nil]

-----------------------------------------------------------------------------
\* Mutant: a key that is no signer becomes an item too.
EncodedAll(map) == SetToSeq({[key |-> k, value |-> map[k], own |-> TRUE] : k \in Key})

\* encode_dict: every signer has an item whose key object is the dict's own.
Encoded(map) ==
    LET item(k) == [key |-> k, value |-> map[k], own |-> TRUE]
    IN SetToSeq({item(k) : k \in {j \in Key : map[j] # Absent}})

Hold(v, items) == dict' = [dict EXCEPT ![v] = items]

Read(v) ==
    /\ Hold(v, Encoded(auths))
    /\ UNCHANGED <<auths, threshold>>

\* for k in d: d[k] = w
Reweigh(v, i, w) ==
    /\ dict[v] # Nil /\ i \in 1..Len(dict[v])
    /\ Hold(v, [dict[v] EXCEPT ![i].value = w])
    /\ UNCHANGED <<auths, threshold>>

\* d[D.AccountId(...)] = w
PutByNewKey(v, k, w) ==
    /\ dict[v] # Nil /\ Len(dict[v]) < MaxItems
    /\ Hold(v, Append(dict[v], [key |-> k, value |-> w, own |-> FALSE]))
    /\ UNCHANGED <<auths, threshold>>

\* for k in d: del d[k]
Drop(v, i) ==
    /\ dict[v] # Nil /\ i \in 1..Len(dict[v])
    /\ Hold(v, RemoveAt(dict[v], i))
    /\ UNCHANGED <<auths, threshold>>

\* Mutant: the authority is cleared first.
AssignClearing(v) ==
    /\ dict[v] # Nil
    /\ \E merged \in Map : MergedFrom(merged, EmptyMap, dict[v], 0) /\ auths' = merged
    /\ UNCHANGED <<threshold, dict>>

\* Mutant: the loop runs from the first item to the last.
AssignForwards(v) ==
    /\ dict[v] # Nil
    /\ \E merged \in Map : MergedFrom(merged, auths, Reverse(dict[v]), 0) /\ auths' = merged
    /\ UNCHANGED <<threshold, dict>>

\* a.active.account_auths = d: decode_dict.
Assign(v) ==
    /\ dict[v] # Nil
    /\ \E merged \in Map : MergedFrom(merged, auths, dict[v], 0) /\ auths' = merged
    /\ UNCHANGED <<threshold, dict>>

\* a.active.weight_threshold = n
SetThreshold(n) ==
    /\ threshold' = n
    /\ UNCHANGED <<auths, dict>>

Next ==
    \/ \E n \in Value : SetThreshold(n)
    \/ \E v \in Var :
          \/ Read(v) \/ Assign(v)
          \/ \E i \in 1..MaxItems : Drop(v, i) \/ \E w \in Value : Reweigh(v, i, w)
          \/ \E k \in Key, w \in Value : PutByNewKey(v, k, w)

Spec == Init /\ [][Next]_vars

-----------------------------------------------------------------------------
PositionsOf(v, k) == {i \in 1..Len(dict[v]) : dict[v][i].key = k}

\* What v asks for signer k, as Python shows it: the weight under the dict's own key
\* object; without one, the weight the program put first; otherwise nothing.
Asked(v, k) ==
    IF PositionsOf(v, k) = {} THEN Absent ELSE dict[v][Min(PositionsOf(v, k))].value

HasOwn(v, k) == \E i \in 1..Len(dict[v]) : dict[v][i].key = k /\ dict[v][i].own

\* Whoever was a signer when the dict was read, and is still in the dict, gets the
\* weight of the dict's own key object: a weight put under a key object of the
\* program's is lost, however late it was put and whoever assigns.  Conversely only
\* an assignment changes a weight (module.hpp:50-70, common.cpp:27-38).
OwnKeyDecides ==
    [][\A k \in Key : auths'[k] # auths[k] =>
          \E v \in Var :
             /\ dict[v] # Nil /\ dict'[v] = dict[v] /\ auths'[k] = Asked(v, k)
             /\ HasOwn(v, k) =>
                   \E i \in 1..Len(dict[v]) :
                      dict[v][i] = [key |-> k, value |-> auths'[k], own |-> TRUE]]_vars

\* The signers of S together reach the threshold.
CanSign(S, map, limit) == SumFunctionOnSet(map, {k \in S : map[k] # Absent}) >= limit

\* Signers who could sign together go on being able to, unless the threshold is raised
\* or an assignment lowers the weight of one of them: leaving a signer out of the
\* dict that is assigned revokes nothing, in whatever order dicts are read, edited
\* and assigned (module.hpp:60-70, account.cpp:8-20).
NothingIsRevoked ==
    [][\A S \in SUBSET Key : (CanSign(S, auths, threshold) /\ ~CanSign(S, auths', threshold')) =>
          \/ threshold' > threshold
          \/ \E k \in S, v \in Var :
                /\ dict[v] # Nil /\ dict'[v] = dict[v]
                /\ auths[k] # Absent /\ Asked(v, k) # Absent
                /\ auths'[k] = Asked(v, k) /\ auths'[k] < auths[k]]_vars

\* Variables are interchangeable (keys are not: Encoded puts them in one order).
Symmetry == Permutations(Var)
=============================================================================
