----------------------------- MODULE AccountDump -----------------------------
(***************************************************************************)
(* dump_accounts_balances of __init__.py, against a chain that moves on:   *)
(*                                                                         *)
(*   for name, id in wallet.lookup_accounts('',                            *)
(*                       wallet.get_account_count()).items():              *)
(*       ... wallet.list_account_balances(str(id)) ...                     *)
(*                                                                         *)
(* One call asks for the number of accounts, one for that many names, and  *)
(* then one per account for its balances.  Any of them may raise, which    *)
(* ends the dump with the lines printed so far.                            *)
(*                                                                         *)
(* External, modelled from how the function uses it: the node answers a    *)
(* call from the state of the chain at that time; lookup_accounts returns  *)
(* the first names in name order.  An account has one balance here, names  *)
(* are numbers, fees are left out.                                         *)
(***************************************************************************)
EXTENDS Integers, FiniteSets, Functions

CONSTANTS Name,    \* the account names, ordered
          Supply,  \* what all accounts hold together
          First,   \* the account that exists at the start, and holds it
          None     \* no account of that name, no line for it

VARIABLES balance,  \* balance[n]: what account n holds on the chain, or None
          pc,       \* "ended", "raised", or the call made last: "counted", "listed"
          count,    \* what get_account_count returned
          listed,   \* the names lookup_accounts returned
          printed,  \* printed[n]: the balance in the line of n, or None
          known,    \* history: the accounts when they were counted
          held,     \* history: held[n]: what n has held since the accounts were counted
          moved     \* history: a transfer was made since then

chain == <<balance, held, moved>>
vars == <<balance, pc, count, listed, printed, known, held, moved>>

ASSUME DumpAssumption ==
    /\ Name \subseteq Nat /\ IsFiniteSet(Name) /\ First \in Name
    /\ Supply \in Nat /\ None \notin Nat

Registered == {n \in Name : balance[n] # None}

\* Type correctness; the code it is about is that every line the loop of
\* dump_accounts_balances prints is a balance (__init__.py:21).
TypeOK ==
    /\ balance \in [Name -> Nat \cup {None}]
    /\ pc \in {"ended", "raised", "counted", "listed"}
    /\ count \in Nat
    /\ listed \in SUBSET Name
    /\ printed \in [Name -> Nat \cup {None}]
    /\ known \in SUBSET Name
    /\ held \in [Name -> SUBSET Nat]
    /\ moved \in BOOLEAN

Init ==
    /\ balance = [n \in Name |-> IF n = First THEN Supply ELSE None]
    /\ pc = "ended"
    /\ count = 0
    /\ listed = {}
    /\ printed = [n \in Name |-> None]
    /\ known = {}
    /\ held = [n \in Name |-> IF n = First THEN {Supply} ELSE {}]
    /\ moved = FALSE

-----------------------------------------------------------------------------
\* The chain.
Register(n) ==
    /\ balance[n] = None
    /\ balance' = [balance EXCEPT ![n] = 0]
    /\ held' = [held EXCEPT ![n] = @ \cup {0}]
    /\ UNCHANGED <<pc, count, listed, printed, known, moved>>

\* Mutant: an account may be overdrawn.
TransferUnchecked(from, to, amount) ==
    /\ from # to /\ {from, to} \subseteq Registered
    /\ balance' = [balance EXCEPT ![from] = @ - amount, ![to] = @ + amount]
    /\ held' = [held EXCEPT ![from] = @ \cup {balance'[from]}, ![to] = @ \cup {balance'[to]}]
    /\ moved' = TRUE
    /\ UNCHANGED <<pc, count, listed, printed, known>>

Transfer(from, to, amount) ==
    /\ from # to /\ {from, to} \subseteq Registered
    /\ balance[from] >= amount
    /\ balance' = [balance EXCEPT ![from] = @ - amount, ![to] = @ + amount]
    /\ held' = [held EXCEPT ![from] = @ \cup {balance'[from]}, ![to] = @ \cup {balance'[to]}]
    /\ moved' = TRUE
    /\ UNCHANGED <<pc, count, listed, printed, known>>

-----------------------------------------------------------------------------
\* The first k names of S in name order.
FirstNames(S, k) == {n \in S : Cardinality({m \in S : m < n}) < k}

\* dump_accounts_balances(wallet) is called: wallet.get_account_count()
GetAccountCount ==
    /\ pc \in {"ended", "raised"}
    /\ pc' = "counted"
    /\ count' = Cardinality(Registered)
    /\ listed' = {}
    /\ printed' = [n \in Name |-> None]
    /\ known' = Registered
    /\ held' = [n \in Name |-> IF balance[n] = None THEN {} ELSE {balance[n]}]
    /\ moved' = FALSE
    /\ UNCHANGED balance

\* Mutant: one name too few is asked for.
LookupAccountsShort ==
    /\ pc = "counted"
    /\ pc' = "listed"
    /\ listed' = FirstNames(Registered, count - 1)
    /\ UNCHANGED <<chain, count, printed, known>>

\* Mutant: the lookup starts after the first name instead of at ''.
LookupAccountsAfterFirst ==
    /\ pc = "counted"
    /\ pc' = "listed"
    /\ listed' = FirstNames(Registered \ FirstNames(Registered, 1), count)
    /\ UNCHANGED <<chain, count, printed, known>>

\* wallet.lookup_accounts('', count)
LookupAccounts ==
    /\ pc = "counted"
    /\ pc' = "listed"
    /\ listed' = FirstNames(Registered, count)
    /\ UNCHANGED <<chain, count, printed, known>>

\* The names the loop has yet to come to.
Left == {n \in listed : printed[n] = None}

\* Mutant: the balance of another account.
PrintBalanceOfAnother(n) ==
    /\ pc = "listed"
    /\ n \in Left /\ \A m \in Left : n <= m
    /\ \E other \in listed : printed' = [printed EXCEPT ![n] = balance[other]]
    /\ UNCHANGED <<chain, pc, count, listed, known>>

\* One iteration of the loop, in name order: wallet.list_account_balances(str(id))
PrintBalance(n) ==
    /\ pc = "listed"
    /\ n \in Left /\ \A m \in Left : n <= m
    /\ printed' = [printed EXCEPT ![n] = balance[n]]
    /\ UNCHANGED <<chain, pc, count, listed, known>>

\* Mutant: the loop leaves out the last name.
EndOfLoopEarly ==
    /\ pc = "listed"
    /\ Cardinality(Left) <= 1
    /\ pc' = "ended"
    /\ UNCHANGED <<chain, count, listed, printed, known>>

\* Mutant: the loop goes on until every account of the chain has a line.
EndOfLoopWhenAll ==
    /\ pc = "listed"
    /\ Left = {} /\ Registered \subseteq listed
    /\ pc' = "ended"
    /\ UNCHANGED <<chain, count, listed, printed, known>>

\* The loop has come to the end of the dict.
EndOfLoop ==
    /\ pc = "listed"
    /\ Left = {}
    /\ pc' = "ended"
    /\ UNCHANGED <<chain, count, listed, printed, known>>

\* The next call raises dcore.Exception.
Raises ==
    /\ pc = "counted" \/ (pc = "listed" /\ Left # {})
    /\ pc' = "raised"
    /\ UNCHANGED <<chain, count, listed, printed, known>>

Dump == LookupAccounts \/ (\E n \in Name : PrintBalance(n)) \/ EndOfLoop \/ Raises

Next ==
    \/ GetAccountCount
    \/ Dump
    \/ \E n \in Name : Register(n)
    \/ \E from, to \in Name : \E amount \in 1..Supply : Transfer(from, to, amount)

\* A dump that was begun is gone on with, and every call is answered or raises.
Spec == Init /\ [][Next]_vars /\ WF_vars(Dump)

-----------------------------------------------------------------------------
Dumped == pc = "ended" /\ listed # {}

\* get_account_count and lookup_accounts are two calls (__init__.py:20): for every
\* account registered between them that gets into the dump, one that was counted
\* falls out.
OneInOneOut ==
    pc = "listed" \/ Dumped => Cardinality(known \ listed) = Cardinality(listed \ known)

\* The counted accounts that fall out of the dump are the last in name order: none of
\* them comes before a name that is dumped (__init__.py:20).
LastFallOut == \A n \in known \ listed : \A m \in listed : m < n

\* A line that was printed shows what the account held at some moment since the
\* accounts were counted, never anything older, also after an exception
\* (__init__.py:21); two lines need not be of the same moment.
LinesAreRecent == \A n \in Name : printed[n] # None => n \in listed /\ printed[n] \in held[n]

\* A dump during which no transfer was made, that has not raised, and that is not
\* short of an account, shows all that there is (__init__.py:19-21).
QuietDumpIsExact ==
    Dumped /\ ~moved /\ known \subseteq listed =>
        Left = {} /\ SumFunctionOnSet(printed, listed) = Supply

\* A dump comes to its end, whatever is registered meanwhile: the names it walks
\* were fixed by one call.
DumpEnds == pc \in {"counted", "listed"} ~> pc \in {"ended", "raised"}
=============================================================================
