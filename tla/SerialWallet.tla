---------------------------- MODULE SerialWallet ----------------------------
(***************************************************************************)
(* The Wallet a Python program sees: one method is called at a time, and   *)
(* once called it ends in a single step that either                        *)
(*   - returns, having done what was asked with every value intact;        *)
(*   - raises TypeError for an argument, having done nothing;              *)
(*   - raises dcore.Exception, having done everything or nothing;          *)
(*   - raises SystemError, having done it with an integer replaced.        *)
(* WalletCalls implements it.                                              *)
(***************************************************************************)
EXTENDS WalletRequests

CONSTANTS Thread,   \* the Python threads
          Nil       \* no thread, and no signed transaction

VARIABLES request,  \* request[t]: the call thread t has made and that has not ended
          ledger,   \* what reached the node: a sequence of transactions
          trx,      \* trx[t]: the signed transaction thread t was returned last
          outcome   \* of the last call: who made it, whether it asked to publish,
                    \* and how it ended

serialVars == <<request, ledger, trx, outcome>>

Init ==
    /\ request = [t \in Thread |-> NoRequest]
    /\ ledger = <<>>
    /\ trx = [t \in Thread |-> Nil]
    /\ outcome = [by |-> Nil, publish |-> FALSE, result |-> "none"]

Call(t, req) ==
    /\ \A u \in Thread : request[u] = NoRequest
    /\ request' = [request EXCEPT ![t] = req]
    /\ UNCHANGED <<ledger, trx, outcome>>

Calls(t) ==
    \/ \E items \in ItemLists :
          \/ \E publish \in BOOLEAN :
                Call(t, [method |-> "exec", items |-> items, publish |-> publish])
          \/ Call(t, [method |-> "query", items |-> items, publish |-> FALSE])
    \/ /\ trx[t] # Nil
       /\ Call(t, [method |-> "broadcast", items |-> trx[t].items, publish |-> TRUE])

-----------------------------------------------------------------------------
AllConvertible(req) == \A i \in 1..Len(req.items) : Convertible(req.method, req.items[i])

SomeReplaced(items) == \E i \in 1..Len(items) : LeavesError(items[i])

\* A signed transaction: what the caller passed and what it carries.
Signed(items) == [items |-> items, data |-> [i \in 1..Len(items) |-> ToVariant(items[i])]]

\* The node takes the transaction, or the call does not publish.
Published(tx, publish) == IF publish THEN Append(ledger, tx) ELSE ledger

Ends(t, method, result) ==
    /\ request[t].method = method
    /\ request' = [request EXCEPT ![t] = NoRequest]
    /\ outcome' = [by |-> t, publish |-> request[t].publish, result |-> result]

\* An argument does not convert: TypeError, and nothing has happened.
RaisesTypeError(t) ==
    /\ ~AllConvertible(request[t])
    /\ Ends(t, "exec", "TypeError") \/ Ends(t, "query", "TypeError")
    /\ UNCHANGED <<ledger, trx>>

\* A transaction is built and signed, and published if the caller asked for it.
Build(t) ==
    LET tx == Signed(request[t].items) IN
    /\ AllConvertible(request[t])
    /\ Ends(t, "exec", IF SomeReplaced(tx.items) THEN "SystemError" ELSE "ok")
    /\ ledger' = Published(tx, request[t].publish)
    /\ trx' = IF SomeReplaced(tx.items) THEN trx ELSE [trx EXCEPT ![t] = tx]

\* It fails, at the node or after it: the caller cannot tell.
BuildFails(t) ==
    /\ AllConvertible(request[t])
    /\ Ends(t, "exec", "dcore.Exception")
    /\ ledger' \in {ledger, Published(Signed(request[t].items), request[t].publish)}
    /\ UNCHANGED trx

Query(t) ==
    /\ AllConvertible(request[t])
    /\ Ends(t, "query", "ok") \/ Ends(t, "query", "dcore.Exception")
    /\ UNCHANGED <<ledger, trx>>

\* broadcast_transaction of a transaction returned earlier.
Broadcast(t) ==
    /\ \/ Ends(t, "broadcast", "ok") /\ ledger' = Append(ledger, trx[t])
       \/ Ends(t, "broadcast", "dcore.Exception") /\ ledger' \in {ledger, Append(ledger, trx[t])}
    /\ UNCHANGED trx

Next == \E t \in Thread :
    \/ Calls(t)
    \/ RaisesTypeError(t) \/ Build(t) \/ BuildFails(t) \/ Query(t) \/ Broadcast(t)

Spec == Init /\ [][Next]_serialVars
=============================================================================
