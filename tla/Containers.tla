----------------------------- MODULE Containers -----------------------------
(***************************************************************************)
(* What the container loops of module.hpp and module.cpp compute.          *)
(*                                                                         *)
(* A Python list is a sequence of items; an item is a C++ value it         *)
(* converts to, or Bad when extract<...>() raises for it.  A Python dict   *)
(* is the sequence of its items in insertion order.  Two keys of one dict  *)
(* may convert to the same C++ key: the bound key classes define __hash__  *)
(* and no __eq__, so Python tells the objects apart and C++ does not.      *)
(*                                                                         *)
(* Every decode loop runs from the last item to the first (while(len--)),  *)
(* so "the loop reached position p" means items p + 1 .. Len are done.     *)
(***************************************************************************)
EXTENDS Integers, Sequences

CONSTANTS Value,   \* the C++ values of elements and mapped values
          Key,     \* the C++ keys of map properties
          Fill,    \* a value-initialised element: what resize() and operator[] create
          Bad,     \* an item whose conversion raises
          Absent   \* "this key is not in the map"

ASSUME ContainersAssumption ==
    /\ Fill \in Value
    /\ Bad \notin Value /\ Bad \notin Key
    /\ Absent \notin Value

\* A map property: a function that is total in the model.
Map == [Key -> Value \cup {Absent}]

EmptyMap == [k \in Key |-> Absent]

DictItem == [key: Key \cup {Bad}, value: Value \cup {Bad}]

\* The sequences over S of at most n items.
UpTo(n, S) == UNION {[1..m -> S] : m \in 0..n}

-----------------------------------------------------------------------------
\* container.resize(n): a prefix survives, the rest is value-initialised.
Resized(s, n) == [i \in 1..n |-> IF i <= Len(s) THEN s[i] ELSE Fill]

\* A vector property that held old, after the list loop reached position p of l.
Overwritten(old, l, p) ==
    [i \in 1..Len(l) |-> IF i > p THEN l[i] ELSE Resized(old, Len(l))[i]]

\* A set property that held old, after the set loop reached position p of l.
Inserted(old, l, p) == old \cup {l[i] : i \in (p + 1)..Len(l)}

\* i is the earliest item after position p with the C++ key k.
FirstWith(d, p, k, i) ==
    /\ i \in (p + 1)..Len(d)
    /\ d[i].key = k
    /\ \A j \in (p + 1)..(i - 1) : d[j].key # k

\* new is a map property that held old, after the dict loop reached position p
\* of d: each key met holds the value of its EARLIEST item (it is written last),
\* and nothing that was there before is dropped.
MergedFrom(new, old, d, p) ==
    \A k \in Key :
        /\ \A i \in 1..Len(d) : FirstWith(d, p, k, i) => new[k] = d[i].value
        /\ (\A i \in (p + 1)..Len(d) : d[i].key # k) => new[k] = old[k]

\* container[key] = v() where v() raises: C++14 leaves the operands unsequenced,
\* so the key is default-inserted before the exception, or not at all.
DefaultInserted(m, k) == IF k \in Key /\ m[k] = Absent THEN {m, [m EXCEPT ![k] = Fill]}
                                                       ELSE {m}

-----------------------------------------------------------------------------
\* The item at position p stops the loop; p = 0 stands for "nothing stops it".
ListStopsAt(l, p) ==
    /\ p \in 0..Len(l)
    /\ p > 0 => l[p] = Bad
    /\ \A i \in (p + 1)..Len(l) : l[i] # Bad

BadItem(item) == item.key = Bad \/ item.value = Bad

DictStopsAt(d, p) ==
    /\ p \in 0..Len(d)
    /\ p > 0 => BadItem(d[p])
    /\ \A i \in (p + 1)..Len(d) : ~BadItem(d[i])
=============================================================================
