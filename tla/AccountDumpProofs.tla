-------------------------- MODULE AccountDumpProofs --------------------------
(***************************************************************************)
(* Theorems about AccountDump, for any finite set of names and any supply: *)
(* its type invariant and its safety invariants.  The inductive invariant  *)
(* adds that accounts are never given up (so that the counted and the      *)
(* listed ones have balances) and that what an account holds is among what *)
(* it has held; the exact sum needs, besides, that the accounts hold       *)
(* Supply together, and what a chain without transfers leaves as it was.   *)
(***************************************************************************)
EXTENDS AccountDump, SumTheorems

LEMMA TypeInit == Init => TypeOK
<1>. SUFFICES ASSUME Init PROVE TypeOK
  OBVIOUS
<1>. USE DumpAssumption DEF Init
<1>1. balance \in [Name -> Nat \cup {None}]
  OBVIOUS
<1>2. printed \in [Name -> Nat \cup {None}]
  OBVIOUS
<1>3. held \in [Name -> SUBSET Nat]
  <2>1. \A n \in Name : (IF n = First THEN {Supply} ELSE {}) \in SUBSET Nat
    OBVIOUS
  <2>. QED
    BY <2>1
<1>. QED
  BY <1>1, <1>2, <1>3 DEF TypeOK

LEMMA TypeStep == TypeOK /\ [Next]_vars => TypeOK'
<1>. SUFFICES ASSUME TypeOK, [Next]_vars PROVE TypeOK'
  OBVIOUS
<1>. USE DumpAssumption DEF TypeOK
<1>1. CASE GetAccountCount
  <2>1. Registered \subseteq Name
    BY DEF Registered
  <2>2. Cardinality(Registered) \in Nat
    BY <2>1, FS_Subset, FS_CardinalityType
  <2>3. \A n \in Name : balance[n] # None => {balance[n]} \in SUBSET Nat
    OBVIOUS
  <2>4. held' \in [Name -> SUBSET Nat]
    BY <1>1, <2>3 DEF GetAccountCount
  <2>. QED
    BY <1>1, <2>1, <2>2, <2>4 DEF GetAccountCount
<1>2. CASE LookupAccounts
  BY <1>2 DEF LookupAccounts, FirstNames, Registered, chain
<1>3. ASSUME NEW n \in Name, PrintBalance(n) PROVE TypeOK'
  BY <1>3 DEF PrintBalance, chain
<1>4. CASE EndOfLoop
  BY <1>4 DEF EndOfLoop, chain
<1>5. CASE Raises
  BY <1>5 DEF Raises, chain
<1>6. ASSUME NEW n \in Name, Register(n) PROVE TypeOK'
  BY <1>6 DEF Register
<1>7. ASSUME NEW from \in Name, NEW to \in Name, NEW amount \in 1..Supply,
             Transfer(from, to, amount)
      PROVE  TypeOK'
  <2>1. balance[from] \in Nat /\ balance[to] \in Nat /\ amount \in Nat
    BY <1>7 DEF Transfer, Registered
  <2>2. balance[from] - amount \in Nat /\ balance[to] + amount \in Nat
    BY <1>7, <2>1 DEF Transfer
  <2>3. /\ balance' \in [Name -> Nat \cup {None}]
        /\ balance'[from] \in Nat /\ balance'[to] \in Nat
    BY <1>7, <2>2 DEF Transfer
  <2>4. held' \in [Name -> SUBSET Nat]
    BY <1>7, <2>3 DEF Transfer
  <2>. QED
    BY <1>7, <2>3, <2>4 DEF Transfer
<1>8. CASE UNCHANGED vars
  BY <1>8 DEF vars
<1>. QED
  BY <1>1, <1>2, <1>3, <1>4, <1>5, <1>6, <1>7, <1>8 DEF Next, Dump

\* Type correctness for every value of the constants.
THEOREM TypeCorrect == Spec => []TypeOK
  BY TypeInit, TypeStep, PTL DEF Spec

-----------------------------------------------------------------------------
\* The first k names of a set are a beginning of it in name order.
LEMMA FirstNamesAreFirst ==
    ASSUME NEW S \in SUBSET Name, NEW k \in Nat,
           NEW n \in S \ FirstNames(S, k), NEW m \in FirstNames(S, k)
    PROVE  m < n
<1>. DEFINE Before(x) == {y \in S : y < x}
<1>1. n \in Nat /\ m \in Nat /\ m \in S
  BY DumpAssumption DEF FirstNames
<1>2. IsFiniteSet(S)
  BY DumpAssumption, FS_Subset
<1>3. IsFiniteSet(Before(m)) /\ IsFiniteSet(Before(n))
  BY <1>2, FS_Subset
<1>4. Cardinality(Before(m)) \in Nat /\ Cardinality(Before(n)) \in Nat
  BY <1>3, FS_CardinalityType
<1>5. Cardinality(Before(m)) < k /\ ~(Cardinality(Before(n)) < k)
  BY DEF FirstNames
<1>6. SUFFICES ASSUME n <= m PROVE FALSE
  BY <1>1
<1>7. \A y \in S : y < n => y < m
  BY <1>1, <1>6, DumpAssumption
<1>8. Before(n) \in SUBSET Before(m)
  BY <1>7
<1>9. Cardinality(Before(n)) <= Cardinality(Before(m))
  BY <1>3, <1>8, FS_Subset
<1>. QED
  BY <1>4, <1>5, <1>9

\* There are as many of them as were asked for: a next one has exactly the first k
\* before it.
LEMMA FirstNamesNext ==
    ASSUME NEW S \in SUBSET Name, NEW k \in Nat, k < Cardinality(S),
           Cardinality(FirstNames(S, k)) = k
    PROVE  Cardinality(FirstNames(S, k + 1)) = k + 1
<1>. DEFINE Before(x) == {y \in S : y < x}
            F == FirstNames(S, k)
<1>1. S \subseteq Nat /\ IsFiniteSet(S)
  BY DumpAssumption, FS_Subset
<1>2. F \in SUBSET S /\ IsFiniteSet(F) /\ S \ F # {} /\ S \ F \in SUBSET Nat
  <2>1. F \in SUBSET S
    BY DEF FirstNames
  <2>2. F # S
    BY <1>1, FS_CardinalityType
  <2>. QED
    BY <1>1, <2>1, <2>2, FS_Subset
<1>. HIDE DEF F
<1>3. PICK x \in S \ F : \A y \in S \ F : x <= y
  BY <1>2, LeastNatural
<1>4. \A n \in S \ F, m \in F : m < n
  BY FirstNamesAreFirst DEF F
<1>5. \A n \in S : IsFiniteSet(Before(n)) /\ Cardinality(Before(n)) \in Nat
  BY <1>1, FS_Subset, FS_CardinalityType
<1>6. Before(x) = F
  <2>1. \A y \in F : y \in S /\ y < x
    BY <1>2, <1>3, <1>4
  <2>2. \A y \in S : y < x => y \in F
    BY <1>1, <1>3
  <2>. QED
    BY <2>1, <2>2
<1>7. IsFiniteSet(F \cup {x}) /\ Cardinality(F \cup {x}) = k + 1
  BY <1>2, <1>3, FS_AddElement DEF F
<1>8. ASSUME NEW n \in S PROVE Cardinality(Before(n)) < k + 1 <=> n \in F \cup {x}
  <2>1. CASE n \in F
    <3>1. Cardinality(Before(n)) < k
      BY <2>1 DEF F, FirstNames
    <3>2. Cardinality(Before(n)) \in Nat
      BY <1>5
    <3>. HIDE DEF Before
    <3>3. Cardinality(Before(n)) < k + 1
      BY <3>1, <3>2
    <3>. QED
      BY <2>1, <3>3
  <2>2. CASE n = x
    BY <1>6, <2>2 DEF F
  <2>3. CASE n \in S \ F /\ n # x
    <3>1. x < n
      BY <1>1, <1>3, <2>3
    <3>2. F \cup {x} \in SUBSET Before(n)
      BY <1>2, <1>3, <1>4, <2>3, <3>1
    <3>3. k + 1 <= Cardinality(Before(n))
      BY <1>5, <1>7, <3>2, FS_Subset
    <3>. QED
      BY <1>5, <2>3, <3>3
  <2>. QED
    BY <2>1, <2>2, <2>3
<1>9. FirstNames(S, k + 1) = F \cup {x}
  BY <1>2, <1>3, <1>8 DEF FirstNames
<1>. QED
  BY <1>7, <1>9

LEMMA FirstNamesCount ==
    ASSUME NEW S \in SUBSET Name, NEW k \in Nat, k <= Cardinality(S)
    PROVE  Cardinality(FirstNames(S, k)) = k
<1>. DEFINE Bad == {i \in Nat : i <= Cardinality(S) /\ Cardinality(FirstNames(S, i)) # i}
<1>1. Cardinality(S) \in Nat
  BY DumpAssumption, FS_Subset, FS_CardinalityType
<1>. SUFFICES ASSUME Bad # {} PROVE FALSE
  OBVIOUS
<1>2. PICK i \in Bad : \A j \in Bad : i <= j
  <2>1. Bad \in SUBSET Nat
    OBVIOUS
  <2>. HIDE DEF Bad
  <2>. QED
    BY <2>1, LeastNatural
<1>3. i # 0
  <2>1. \A n \in S : Cardinality({m \in S : m < n}) \in Nat
    BY DumpAssumption, FS_Subset, FS_CardinalityType
  <2>2. FirstNames(S, 0) = {}
    BY <2>1 DEF FirstNames
  <2>. QED
    BY <2>2, FS_EmptySet
<1>4. i - 1 \in Nat /\ i - 1 < Cardinality(S) /\ (i - 1) + 1 = i
  BY <1>1, <1>3
<1>5. Cardinality(FirstNames(S, i - 1)) = i - 1
  BY <1>1, <1>2, <1>4
<1>. QED
  BY <1>4, <1>5, FirstNamesNext

\* What an account holds is among what it has held.
HoldsWhatItHeld == \A n \in Registered : balance[n] \in held[n]

\* Accounts are not given up: those counted and those listed have a balance.
StillThere == known \cup listed \subseteq Registered

\* Before the lookup there is neither a name nor a line.
NothingYet == pc = "counted" => listed = {} /\ \A n \in Name : printed[n] = None

HistoryInv == HoldsWhatItHeld /\ StillThere /\ NothingYet

IInv == TypeOK /\ HistoryInv /\ LastFallOut /\ LinesAreRecent

\* A transfer or a registration leaves the accounts that there are, and adds what
\* they hold now to what they have held.
LEMMA ChainStep ==
    ASSUME TypeOK, HoldsWhatItHeld,
           \/ \E n \in Name : Register(n)
           \/ \E from, to \in Name : \E amount \in 1..Supply : Transfer(from, to, amount)
    PROVE  /\ HoldsWhatItHeld' /\ Registered \subseteq Registered'
           /\ \A n \in Name : held[n] \subseteq held'[n]
           /\ UNCHANGED <<pc, count, listed, printed, known>>
<1>. USE DumpAssumption DEF TypeOK, Registered, HoldsWhatItHeld
<1>1. ASSUME NEW n \in Name, Register(n)
      PROVE  /\ HoldsWhatItHeld' /\ Registered \subseteq Registered'
             /\ \A m \in Name : held[m] \subseteq held'[m]
             /\ UNCHANGED <<pc, count, listed, printed, known>>
  BY <1>1 DEF Register
<1>2. ASSUME NEW from \in Name, NEW to \in Name, NEW amount \in 1..Supply,
             Transfer(from, to, amount)
      PROVE  /\ HoldsWhatItHeld' /\ Registered \subseteq Registered'
             /\ \A m \in Name : held[m] \subseteq held'[m]
             /\ UNCHANGED <<pc, count, listed, printed, known>>
  <2>1. balance[from] \in Nat /\ balance[to] \in Nat /\ amount \in Nat
    BY <1>2 DEF Transfer
  <2>2. balance'[from] \in Nat /\ balance'[to] \in Nat
    BY <1>2, <2>1 DEF Transfer
  <2>3. \A m \in Name \ {from, to} : balance'[m] = balance[m] /\ held'[m] = held[m]
    BY <1>2 DEF Transfer
  <2>4. /\ held'[from] = held[from] \cup {balance'[from]}
        /\ held'[to] = held[to] \cup {balance'[to]}
    BY <1>2 DEF Transfer
  <2>5. UNCHANGED <<pc, count, listed, printed, known>> /\ {from, to} \subseteq Registered
    BY <1>2 DEF Transfer
  <2>6. \A m \in Name : held[m] \subseteq held'[m]
    BY <2>3, <2>4
  <2>7. Registered \subseteq Registered'
    BY <2>2, <2>3
  <2>8. ASSUME NEW m \in Registered' PROVE balance'[m] \in held'[m]
    <3>1. CASE m \in {from, to}
      BY <2>4, <3>1
    <3>2. CASE m \in Name \ {from, to}
      BY <2>3, <2>8, <3>2
    <3>. QED
      BY <2>8, <3>1, <3>2
  <2>. QED
    BY <2>5, <2>6, <2>7, <2>8
<1>. QED
  BY <1>1, <1>2

LEMMA InvInit == Init => IInv
<1>. SUFFICES ASSUME Init PROVE IInv
  OBVIOUS
<1>1. TypeOK
  BY TypeInit
<1>2. HistoryInv
  BY DumpAssumption
  DEF Init, HistoryInv, HoldsWhatItHeld, StillThere, NothingYet, Registered
<1>3. LastFallOut /\ LinesAreRecent
  BY DEF Init, LastFallOut, LinesAreRecent
<1>. QED
  BY <1>1, <1>2, <1>3 DEF IInv

LEMMA InvStep == IInv /\ [Next]_vars => IInv'
<1>. SUFFICES ASSUME IInv, [Next]_vars PROVE HistoryInv' /\ LastFallOut' /\ LinesAreRecent'
  BY TypeStep DEF IInv
<1>0. TypeOK /\ HoldsWhatItHeld /\ StillThere /\ NothingYet /\ LastFallOut /\ LinesAreRecent
  BY DEF IInv, HistoryInv
<1>. USE DEF HistoryInv
<1>1. CASE GetAccountCount
  <2>1. HoldsWhatItHeld'
    BY <1>0, <1>1, DumpAssumption DEF GetAccountCount, HoldsWhatItHeld, Registered, TypeOK
  <2>2. StillThere' /\ NothingYet'
    BY <1>1 DEF GetAccountCount, StillThere, NothingYet, Registered
  <2>3. LastFallOut' /\ LinesAreRecent'
    BY <1>1 DEF GetAccountCount, LastFallOut, LinesAreRecent
  <2>. QED
    BY <2>1, <2>2, <2>3
<1>2. CASE LookupAccounts
  <2>1. HoldsWhatItHeld' /\ StillThere' /\ NothingYet'
    BY <1>0, <1>2
    DEF LookupAccounts, chain, HoldsWhatItHeld, StillThere, NothingYet, Registered, FirstNames
  <2>2. LastFallOut'
    <3>1. Registered \in SUBSET Name /\ count \in Nat
      BY <1>0 DEF Registered, TypeOK
    <3>2. listed' = FirstNames(Registered, count) /\ known' = known
      BY <1>2 DEF LookupAccounts
    <3>3. known \subseteq Registered
      BY <1>0 DEF StillThere
    <3>. QED
      BY <3>1, <3>2, <3>3, FirstNamesAreFirst DEF LastFallOut
  <2>3. LinesAreRecent'
    BY <1>0, <1>2 DEF LookupAccounts, chain, NothingYet, LinesAreRecent
  <2>. QED
    BY <2>1, <2>2, <2>3
<1>3. ASSUME NEW n \in Name, PrintBalance(n)
      PROVE  HistoryInv' /\ LastFallOut' /\ LinesAreRecent'
  <2>1. HoldsWhatItHeld' /\ StillThere' /\ NothingYet' /\ LastFallOut'
    BY <1>0, <1>3
    DEF PrintBalance, chain, HoldsWhatItHeld, StillThere, NothingYet, LastFallOut, Registered
  <2>2. n \in listed /\ n \in Registered /\ balance[n] \in held[n]
    BY <1>0, <1>3 DEF PrintBalance, Left, StillThere, HoldsWhatItHeld
  <2>3. LinesAreRecent'
    BY <1>0, <1>3, <2>2 DEF PrintBalance, chain, LinesAreRecent, TypeOK
  <2>. QED
    BY <2>1, <2>3
<1>4. CASE EndOfLoop \/ Raises \/ UNCHANGED vars
  <2>1. /\ UNCHANGED <<balance, held, listed, printed, known>>
        /\ pc' = "counted" => pc = "counted"
    BY <1>4 DEF EndOfLoop, Raises, chain, vars
  <2>. QED
    BY <1>0, <2>1 DEF HoldsWhatItHeld, StillThere, NothingYet, LastFallOut, LinesAreRecent, Registered
<1>5. CASE \/ \E n \in Name : Register(n)
           \/ \E from, to \in Name : \E amount \in 1..Supply : Transfer(from, to, amount)
  BY <1>0, <1>5, ChainStep DEF StillThere, NothingYet, LastFallOut, LinesAreRecent
<1>. QED
  BY <1>1, <1>2, <1>3, <1>4, <1>5 DEF Next, Dump

\* The invariant of the names and of what is printed of each.
THEOREM InductiveInvariant == Spec => []IInv
  BY InvInit, InvStep, PTL DEF Spec

\* The counted accounts that fall out of a dump are the last in name order,
\* whatever is registered between the two calls.
THEOREM LastFallOutCorrect == Spec => []LastFallOut
<1>1. IInv => LastFallOut
  BY DEF IInv
<1>. QED
  BY <1>1, InductiveInvariant, PTL

\* Every line that was printed shows a balance held since the accounts were counted.
THEOREM LinesAreRecentCorrect == Spec => []LinesAreRecent
<1>1. IInv => LinesAreRecent
  BY DEF IInv
<1>. QED
  BY <1>1, InductiveInvariant, PTL

-----------------------------------------------------------------------------
(* Numbers of accounts and sums of balances *)

\* As many names are listed as accounts were counted.
CountInv ==
    /\ count = Cardinality(known)
    /\ pc \in {"listed", "ended"} => Cardinality(listed) = count

\* The accounts hold Supply together.
SumInv == SumFunctionOnSet(balance, Registered) = Supply

\* A loop that has ended has printed all its lines.
EndInv == pc = "ended" => Left = {}

\* As long as there is no transfer, accounts that were not counted hold nothing, and
\* lines show what their accounts hold.
QuietInv ==
    known # {} /\ ~moved =>
        /\ \A n \in Registered \ known : balance[n] = 0
        /\ \A n \in Name : printed[n] # None => printed[n] = balance[n]

DumpInv == IInv /\ CountInv /\ SumInv /\ EndInv /\ QuietInv

\* A transfer moves an amount: the sum stays.
LEMMA TransferKeepsSum ==
    ASSUME NEW S, IsFiniteSet(S), NEW f, NEW g, NEW x \in S, NEW y \in S, x # y, NEW a \in Int,
           \A z \in S : f[z] \in Int, \A z \in S \ {x, y} : g[z] = f[z],
           g[x] = f[x] - a, g[y] = f[y] + a
    PROVE  SumFunctionOnSet(g, S) = SumFunctionOnSet(f, S)
<1>. DEFINE rest == (S \ {x}) \ {y}
            left == SumFunctionOnSet(f, rest)
<1>1. IsFiniteSet(S \ {x}) /\ IsFiniteSet(rest) /\ y \in S \ {x} /\ \A z \in S : g[z] \in Int
  <2>1. \A z \in S : g[z] \in Int
    OBVIOUS
  <2>. QED
    BY <2>1, FS_RemoveElement
<1>2. SumFunctionOnSet(g, rest) = left
  BY <1>1, SumOfSame
<1>3. SumFunctionOnSet(g, S) = g[x] + (g[y] + left)
  <2>1. SumFunctionOnSet(g, S) = g[x] + SumFunctionOnSet(g, S \ {x})
    BY <1>1, SumWithout
  <2>2. SumFunctionOnSet(g, S \ {x}) = g[y] + SumFunctionOnSet(g, rest)
    BY <1>1, SumWithout
  <2>. QED
    BY <1>2, <2>1, <2>2
<1>4. SumFunctionOnSet(f, S) = f[x] + (f[y] + left)
  <2>1. SumFunctionOnSet(f, S) = f[x] + SumFunctionOnSet(f, S \ {x})
    BY <1>1, SumWithout
  <2>2. SumFunctionOnSet(f, S \ {x}) = f[y] + left
    BY <1>1, SumWithout
  <2>. QED
    BY <2>1, <2>2
<1>5. left \in Int
  BY <1>1, SumType
<1>. HIDE DEF left
<1>6. (f[x] - a) + ((f[y] + a) + left) = f[x] + (f[y] + left)
  BY <1>5
<1>. QED
  BY <1>3, <1>4, <1>6

LEMMA RegisteredIsFinite ==
    ASSUME TypeOK
    PROVE  /\ Registered \in SUBSET Name /\ IsFiniteSet(Registered)
           /\ \A n \in Registered : balance[n] \in Nat
           /\ IsFiniteSet(known) /\ IsFiniteSet(listed)
  BY DumpAssumption, FS_Subset DEF Registered, TypeOK

LEMMA DumpInit == Init => DumpInv
<1>. SUFFICES ASSUME Init PROVE CountInv /\ SumInv /\ EndInv /\ QuietInv
  BY InvInit DEF DumpInv
<1>1. CountInv /\ EndInv /\ QuietInv
  BY FS_EmptySet DEF Init, CountInv, EndInv, QuietInv, Left
<1>2. Registered = {First} /\ balance[First] = Supply /\ Supply \in Int
  BY DumpAssumption DEF Init, Registered
<1>3. IsFiniteSet({First}) /\ {First} \ {First} = {}
  BY FS_Singleton
<1>4. SumFunctionOnSet(balance, {First}) = balance[First] + SumFunctionOnSet(balance, {})
  BY <1>2, <1>3, SumWithout
<1>. QED
  BY <1>1, <1>2, <1>4, SumEmpty DEF SumInv

LEMMA CountStep ==
    ASSUME DumpInv, [Next]_vars
    PROVE  CountInv'
<1>0. TypeOK /\ StillThere /\ CountInv
  BY DEF DumpInv, IInv, HistoryInv
<1>1. CASE GetAccountCount
  BY <1>1 DEF GetAccountCount, CountInv
<1>2. CASE LookupAccounts
  <2>1. known \in SUBSET Registered /\ IsFiniteSet(Registered) /\ Registered \in SUBSET Name
    BY <1>0, RegisteredIsFinite DEF StillThere
  <2>2. count \in Nat /\ count <= Cardinality(Registered)
    BY <1>0, <2>1, FS_Subset DEF CountInv, TypeOK
  <2>3. Cardinality(listed') = count
    BY <1>2, <2>1, <2>2, FirstNamesCount DEF LookupAccounts
  <2>. QED
    BY <1>0, <1>2, <2>3 DEF LookupAccounts, CountInv
<1>3. CASE UNCHANGED <<count, known, listed>> /\ (pc' \in {"listed", "ended"} => pc \in {"listed", "ended"})
  BY <1>0, <1>3 DEF CountInv
<1>. QED
  BY <1>1, <1>2, <1>3
  DEF Next, Dump, PrintBalance, EndOfLoop, Raises, Register, Transfer, vars

LEMMA SumInvStep ==
    ASSUME DumpInv, [Next]_vars
    PROVE  SumInv'
<1>0. TypeOK /\ SumInv
  BY DEF DumpInv, IInv
<1>1. /\ Registered \in SUBSET Name /\ IsFiniteSet(Registered)
      /\ \A n \in Registered : balance[n] \in Nat
  BY <1>0, RegisteredIsFinite
<1>2. CASE UNCHANGED balance
  BY <1>0, <1>2 DEF SumInv, Registered
<1>3. ASSUME NEW n \in Name, Register(n) PROVE SumInv'
  <2>1. /\ n \notin Registered /\ Registered' = Registered \cup {n}
        /\ balance'[n] = 0 /\ \A m \in Registered : balance'[m] = balance[m]
    BY <1>0, <1>3, DumpAssumption DEF Register, Registered, TypeOK
  <2>2. SumFunctionOnSet(balance', Registered \cup {n}) = balance'[n] + SumFunctionOnSet(balance', Registered)
    BY <1>1, <2>1, SumWith
  <2>3. SumFunctionOnSet(balance', Registered) = Supply
    BY <1>0, <1>1, <2>1, SumOfSame DEF SumInv
  <2>. QED
    BY <2>1, <2>2, <2>3, DumpAssumption DEF SumInv
<1>4. ASSUME NEW from \in Name, NEW to \in Name, NEW amount \in 1..Supply,
             Transfer(from, to, amount)
      PROVE  SumInv'
  <2>1. from # to /\ from \in Registered /\ to \in Registered /\ amount \in Int /\ balance[from] >= amount
    BY <1>4 DEF Transfer
  <2>2. balance' = [balance EXCEPT ![from] = @ - amount, ![to] = @ + amount]
    BY <1>4 DEF Transfer
  <2>3. /\ balance'[from] = balance[from] - amount /\ balance'[to] = balance[to] + amount
        /\ \A m \in Name \ {from, to} : balance'[m] = balance[m]
    BY <1>0, <2>1, <2>2 DEF TypeOK
  <2>4. balance'[from] \in Nat /\ balance'[to] \in Nat
    BY <1>1, <2>1, <2>3
  <2>5. Registered' = Registered
    BY <2>1, <2>3, <2>4, DumpAssumption DEF Registered
  <2>6. SumFunctionOnSet(balance', Registered) = SumFunctionOnSet(balance, Registered)
    <3>1. \A m \in Registered : balance[m] \in Int
      BY <1>1
    <3>2. \A m \in Registered \ {from, to} : balance'[m] = balance[m]
      BY <1>1, <2>3
    <3>. QED
      BY <1>1, <2>1, <2>3, <3>1, <3>2, TransferKeepsSum
  <2>. QED
    BY <1>0, <2>5, <2>6 DEF SumInv
<1>. QED
  BY <1>2, <1>3, <1>4
  DEF Next, Dump, GetAccountCount, LookupAccounts, PrintBalance, EndOfLoop, Raises, chain, vars

LEMMA QuietStep ==
    ASSUME DumpInv, [Next]_vars
    PROVE  EndInv' /\ QuietInv'
<1>0. TypeOK /\ EndInv /\ QuietInv /\ StillThere /\ LinesAreRecent /\ NothingYet
  BY DEF DumpInv, IInv, HistoryInv
<1>1. CASE GetAccountCount
  BY <1>1 DEF GetAccountCount, EndInv, QuietInv, Registered
<1>2. CASE LookupAccounts
  BY <1>0, <1>2 DEF LookupAccounts, chain, EndInv, QuietInv, Registered
<1>3. ASSUME NEW n \in Name, PrintBalance(n) PROVE EndInv' /\ QuietInv'
  BY <1>0, <1>3 DEF PrintBalance, chain, EndInv, QuietInv, Registered, TypeOK
<1>4. CASE EndOfLoop \/ Raises \/ UNCHANGED vars
  BY <1>0, <1>4 DEF EndOfLoop, Raises, chain, vars, EndInv, QuietInv, Registered, Left
<1>5. ASSUME NEW n \in Name, Register(n) PROVE EndInv' /\ QuietInv'
  <2>1. /\ UNCHANGED <<pc, listed, printed, known, moved>>
        /\ balance' = [balance EXCEPT ![n] = 0] /\ n \notin Registered
    BY <1>5 DEF Register, Registered
  <2>2. \A m \in Name : printed[m] # None => m \in Registered
    BY <1>0 DEF LinesAreRecent, StillThere
  <2>3. EndInv'
    BY <1>0, <2>1 DEF EndInv, Left
  <2>4. ASSUME known # {}, ~moved
        PROVE  /\ \A m \in Registered' \ known : balance'[m] = 0
               /\ \A m \in Name : printed[m] # None => printed[m] = balance'[m]
    BY <1>0, <2>1, <2>2, <2>4 DEF QuietInv, Registered, TypeOK
  <2>. QED
    BY <2>1, <2>3, <2>4 DEF QuietInv
<1>6. ASSUME NEW from \in Name, NEW to \in Name, NEW amount \in 1..Supply,
             Transfer(from, to, amount)
      PROVE  EndInv' /\ QuietInv'
  BY <1>0, <1>6 DEF Transfer, EndInv, QuietInv, Left
<1>. QED
  BY <1>1, <1>2, <1>3, <1>4, <1>5, <1>6 DEF Next, Dump

\* The invariant of the numbers of accounts and of the sums.
THEOREM DumpInvariant == Spec => []DumpInv
<1>1. DumpInv /\ [Next]_vars => DumpInv'
  BY InvStep, CountStep, SumInvStep, QuietStep DEF DumpInv
<1>. QED
  BY <1>1, DumpInit, PTL DEF Spec

\* For every account that gets into the dump after the count, one that was counted
\* falls out.
THEOREM OneInOneOutCorrect == Spec => []OneInOneOut
<1>1. DumpInv => OneInOneOut
  <2>. SUFFICES ASSUME DumpInv, pc \in {"listed", "ended"}
                PROVE  Cardinality(known \ listed) = Cardinality(listed \ known)
    BY DEF OneInOneOut, Dumped
  <2>1. IsFiniteSet(known) /\ IsFiniteSet(listed)
    BY RegisteredIsFinite DEF DumpInv, IInv
  <2>2. Cardinality(known) = Cardinality(listed)
    BY DEF DumpInv, CountInv
  <2>3. known \cap listed = listed \cap known
    OBVIOUS
  <2>4. Cardinality(known \ listed) = Cardinality(known) - Cardinality(known \cap listed)
    BY <2>1, FS_Difference
  <2>5. Cardinality(listed \ known) = Cardinality(listed) - Cardinality(listed \cap known)
    BY <2>1, FS_Difference
  <2>. QED
    BY <2>2, <2>3, <2>4, <2>5
<1>. QED
  BY <1>1, DumpInvariant, PTL

\* The lines of a dump without transfers, and short of nobody, add up to the supply.
THEOREM QuietDumpCorrect == Spec => []QuietDumpIsExact
<1>1. DumpInv => QuietDumpIsExact
  <2>. SUFFICES ASSUME DumpInv, Dumped, ~moved, known \subseteq listed
                PROVE  Left = {} /\ SumFunctionOnSet(printed, listed) = Supply
    BY DEF QuietDumpIsExact
  <2>0. TypeOK /\ StillThere /\ CountInv /\ SumInv /\ EndInv /\ QuietInv
    BY DEF DumpInv, IInv, HistoryInv
  <2>1. /\ Registered \in SUBSET Name /\ IsFiniteSet(Registered)
        /\ \A n \in Registered : balance[n] \in Nat
        /\ IsFiniteSet(known) /\ IsFiniteSet(listed)
    BY <2>0, RegisteredIsFinite
  <2>2. Cardinality(known) = Cardinality(listed)
    BY <2>0 DEF CountInv, Dumped
  <2>3. known = listed /\ known # {}
    BY <2>1, <2>2, FS_Subset DEF Dumped
  <2>4. Left = {}
    BY <2>0 DEF EndInv, Dumped
  <2>5. \A n \in listed : printed[n] = balance[n]
    BY <2>0, <2>3, <2>4 DEF Left, QuietInv, TypeOK
  <2>6. SumFunctionOnSet(printed, listed) = SumFunctionOnSet(balance, listed)
    BY <2>1, <2>5, SumOfSame
  <2>7. listed \in SUBSET Registered /\ \A n \in Registered \ listed : balance[n] = 0
    BY <2>0, <2>3 DEF StillThere, QuietInv
  <2>8. SumFunctionOnSet(balance, Registered) = SumFunctionOnSet(balance, listed)
    BY <2>1, <2>7, SumOfZeros
  <2>. QED
    BY <2>0, <2>4, <2>6, <2>8 DEF SumInv
<1>. QED
  BY <1>1, DumpInvariant, PTL
=============================================================================
