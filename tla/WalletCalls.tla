----------------------------- MODULE WalletCalls -----------------------------
(***************************************************************************)
(* The Wallet class of module.cpp.  Every method converts its list         *)
(* arguments, posts the operation to the worker thread of WalletAPI        *)
(* (exec, query or broadcast) and waits for the result.  The binding never *)
(* releases the GIL, so the calling thread holds it until the method       *)
(* returns: Python threads are interleaved between calls only.             *)
(*                                                                         *)
(* External, modelled from how module.cpp uses it: WalletAPI's worker runs *)
(* the posted tasks in order and answers each with a result or with an     *)
(* fc::exception, which may also come after the node took a transaction    *)
(* (the connection was lost).                                              *)
(***************************************************************************)
EXTENDS WalletRequests

CONSTANTS Thread,    \* the Python threads
          MaxLedger, \* bound: transactions published in a run
          Nil        \* no thread, and no signed transaction

VARIABLES gil,      \* the thread holding the GIL, or Nil
          phase,    \* phase[t]: "python", "converting" or "waiting"
          request,  \* request[t]: the call thread t is making
          index,    \* index[t]: the loop counter of vector_from_list
          data,     \* data[t]: the vector it fills
          pyerr,    \* pyerr[t]: an exception is set in the interpreter
          tasks,    \* posted to the worker thread and not answered
          reply,    \* reply[t]: the state of the future t waits for
          ledger,   \* the transactions the node took
          trx,      \* trx[t]: the signed transaction thread t was returned last
          outcome,  \* of the last call: who made it, whether it asked to
                    \* publish, and how it ended
          start     \* history: the ledger when the last call was made

callVars == <<request, index, data, pyerr>>
vars == <<gil, phase, request, index, data, pyerr, tasks, reply, ledger, trx, outcome, start>>

ASSUME CallsAssumption ==
    PyItem \subseteq PyValue /\ MaxData \in Nat /\ MaxLedger \in Nat /\ Nil \notin Thread

TypeOK ==
    /\ gil \in Thread \cup {Nil}
    /\ phase \in [Thread -> {"python", "converting", "waiting"}]
    /\ request \in [Thread -> Request]
    /\ index \in [Thread -> Nat] /\ \A t \in Thread : index[t] <= Len(request[t].items)
    /\ data \in [Thread -> Seq(Variant)]
    /\ pyerr \in [Thread -> BOOLEAN]
    /\ tasks \in Seq([by: Thread, tx: Transaction, publish: BOOLEAN, taken: BOOLEAN])
    /\ reply \in [Thread -> {"none", "value", "exception"}]
    /\ ledger \in Seq(Transaction)
    /\ trx \in [Thread -> Transaction \cup {Nil}]
    /\ outcome \in [by: Thread \cup {Nil}, publish: BOOLEAN,
                    result: {"none", "ok", "TypeError", "SystemError", "dcore.Exception"}]
    /\ start \in Seq(Transaction)

Init ==
    /\ gil = Nil
    /\ phase = [t \in Thread |-> "python"]
    /\ request = [t \in Thread |-> NoRequest]
    /\ index = [t \in Thread |-> 0]
    /\ data = [t \in Thread |-> <<>>]
    /\ pyerr = [t \in Thread |-> FALSE]
    /\ tasks = <<>>
    /\ reply = [t \in Thread |-> "none"]
    /\ ledger = <<>>
    /\ trx = [t \in Thread |-> Nil]
    /\ outcome = [by |-> Nil, publish |-> FALSE, result |-> "none"]
    /\ start = <<>>

-----------------------------------------------------------------------------
\* The interpreter switches threads between bytecodes, never inside a method.
TakeGil(t) ==
    /\ gil = Nil
    /\ gil' = t
    /\ UNCHANGED <<phase, callVars, tasks, reply, ledger, trx, outcome, start>>

\* Mutant: the GIL is released while the thread waits.
DropGilAnywhere(t) ==
    /\ gil = t
    /\ gil' = Nil
    /\ UNCHANGED <<phase, callVars, tasks, reply, ledger, trx, outcome, start>>

DropGil(t) ==
    /\ gil = t
    /\ phase[t] = "python"
    /\ gil' = Nil
    /\ UNCHANGED <<phase, callVars, tasks, reply, ledger, trx, outcome, start>>

InPython(t) == gil = t /\ phase[t] = "python"

\* obj.resize(len) in vector_from_list: value-initialised elements.
Blank(n) == [i \in 1..n |-> NullVariant]

Enters(t, req, n, vector) ==
    /\ phase' = [phase EXCEPT ![t] = "converting"]
    /\ request' = [request EXCEPT ![t] = req]
    /\ index' = [index EXCEPT ![t] = n]
    /\ data' = [data EXCEPT ![t] = vector]
    /\ start' = ledger
    /\ UNCHANGED <<gil, pyerr, tasks, reply, ledger, trx, outcome>>

\* A method that builds a transaction: broadcast defaults to False.
CallExec(t, items, publish) ==
    /\ InPython(t)
    /\ Len(ledger) < MaxLedger
    /\ Enters(t, [method |-> "exec", items |-> items, publish |-> publish],
              Len(items), Blank(Len(items)))

\* A method that looks objects up: get_accounts, get_assets, list_votes, ...
CallQuery(t, items) ==
    /\ InPython(t)
    /\ Enters(t, [method |-> "query", items |-> items, publish |-> FALSE],
              Len(items), Blank(Len(items)))

\* broadcast_transaction(trx): nothing to convert, the object is passed on.
CallBroadcast(t) ==
    /\ InPython(t)
    /\ trx[t] # Nil
    /\ Len(ledger) < MaxLedger
    /\ Enters(t, [method |-> "broadcast", items |-> trx[t].items, publish |-> TRUE],
              0, trx[t].data)

-----------------------------------------------------------------------------
Item(t) == request[t].items[index[t]]

Converting(t) == phase[t] = "converting" /\ index[t] > 0

\* One iteration of vector_from_list.  A Python error that construct left set is
\* looked at by nobody here.
ConvertItem(t) ==
    /\ Converting(t)
    /\ Convertible(request[t].method, Item(t))
    /\ data' = [data EXCEPT ![t][index[t]] = ToVariant(Item(t))]
    /\ pyerr' = [pyerr EXCEPT ![t] = @ \/ (request[t].method = "exec" /\ LeavesError(Item(t)))]
    /\ index' = [index EXCEPT ![t] = @ - 1]
    /\ UNCHANGED <<gil, phase, request, tasks, reply, ledger, trx, outcome, start>>

\* The method is left: its locals are gone, the error indicator is consumed.
Leaves(t, result) ==
    /\ phase' = [phase EXCEPT ![t] = "python"]
    /\ request' = [request EXCEPT ![t] = NoRequest]
    /\ index' = [index EXCEPT ![t] = 0]
    /\ data' = [data EXCEPT ![t] = <<>>]
    /\ pyerr' = [pyerr EXCEPT ![t] = FALSE]
    /\ reply' = [reply EXCEPT ![t] = "none"]
    /\ outcome' = [by |-> t, publish |-> request[t].publish, result |-> result]

\* extract<...> throws out of the argument list of exec(...): nothing is posted.
ConvertRaises(t) ==
    /\ Converting(t)
    /\ ~Convertible(request[t].method, Item(t))
    /\ Leaves(t, "TypeError")
    /\ UNCHANGED <<gil, tasks, ledger, trx, start>>

\* Mutant: the arguments are converted after the task is queued.
PostEarly(t) ==
    /\ phase[t] = "converting"
    /\ tasks = <<>> /\ reply[t] = "none"
    /\ phase' = [phase EXCEPT ![t] = IF index[t] = 0 THEN "waiting" ELSE "converting"]
    /\ tasks' = Append(tasks, [by |-> t, publish |-> request[t].publish, taken |-> FALSE,
                               tx |-> [items |-> request[t].items, data |-> data[t]]])
    /\ UNCHANGED <<gil, callVars, reply, ledger, trx, outcome, start>>

\* Mutant: the broadcast argument is not passed on.
PostPublishing(t) ==
    /\ phase[t] = "converting"
    /\ index[t] = 0
    /\ phase' = [phase EXCEPT ![t] = "waiting"]
    /\ tasks' = Append(tasks, [by |-> t, publish |-> TRUE, taken |-> FALSE,
                               tx |-> [items |-> request[t].items, data |-> data[t]]])
    /\ UNCHANGED <<gil, callVars, reply, ledger, trx, outcome, start>>

\* exec(...), query(...) or broadcast(...): the task is queued, wait() blocks.
Post(t) ==
    /\ phase[t] = "converting"
    /\ index[t] = 0
    /\ phase' = [phase EXCEPT ![t] = "waiting"]
    /\ tasks' = Append(tasks, [by |-> t, publish |-> request[t].publish, taken |-> FALSE,
                               tx |-> [items |-> request[t].items, data |-> data[t]]])
    /\ UNCHANGED <<gil, callVars, reply, ledger, trx, outcome, start>>

-----------------------------------------------------------------------------
\* The worker thread, its connection and the node.
Answers(answer) ==
    /\ reply' = [reply EXCEPT ![Head(tasks).by] = answer]
    /\ tasks' = Tail(tasks)
    /\ UNCHANGED <<gil, phase, callVars, ledger, trx, outcome, start>>

WorkerDone == tasks # <<>> /\ (Head(tasks).publish => Head(tasks).taken)

NodeTakes ==
    /\ tasks # <<>>
    /\ Head(tasks).publish /\ ~Head(tasks).taken
    /\ ledger' = Append(ledger, Head(tasks).tx)
    /\ tasks' = [tasks EXCEPT ![1].taken = TRUE]
    /\ UNCHANGED <<gil, phase, callVars, reply, trx, outcome, start>>

WorkerAnswers == WorkerDone /\ Answers("value")

\* Mutant: the task's promise is dropped and its future is never set.
WorkerFailsSilently ==
    /\ tasks # <<>>
    /\ tasks' = Tail(tasks)
    /\ UNCHANGED <<gil, phase, callVars, reply, ledger, trx, outcome, start>>

\* A rejection, a failure in the wallet, or an answer that was lost.
WorkerFails == tasks # <<>> /\ Answers("exception")

-----------------------------------------------------------------------------
Waiting(t) == phase[t] = "waiting"

\* Mutant: the interpreter's error indicator is not looked at.
WaitReturnsUnchecked(t) ==
    /\ Waiting(t)
    /\ reply[t] = "value"
    /\ Leaves(t, "ok")
    /\ trx' = IF request[t].method = "exec"
              THEN [trx EXCEPT ![t] = [items |-> request[t].items, data |-> data[t]]]
              ELSE trx
    /\ UNCHANGED <<gil, tasks, ledger, start>>

\* The result is converted and returned.  The interpreter turns a result that is
\* returned with an error set into SystemError, and the result is lost.
WaitReturns(t) ==
    /\ Waiting(t)
    /\ reply[t] = "value"
    /\ Leaves(t, IF pyerr[t] THEN "SystemError" ELSE "ok")
    /\ trx' = IF request[t].method = "exec" /\ ~pyerr[t]
              THEN [trx EXCEPT ![t] = [items |-> request[t].items, data |-> data[t]]]
              ELSE trx
    /\ UNCHANGED <<gil, tasks, ledger, start>>

\* Mutant: a call that failed is made again, whatever became of its transaction.
WaitThrowsRetrying(t) ==
    /\ Waiting(t)
    /\ reply[t] = "exception"
    /\ phase' = [phase EXCEPT ![t] = "converting"]
    /\ reply' = [reply EXCEPT ![t] = "none"]
    /\ UNCHANGED <<gil, callVars, tasks, ledger, trx, outcome, start>>

\* exception_translator: an fc::exception becomes dcore.Exception.
WaitThrows(t) ==
    /\ Waiting(t)
    /\ reply[t] = "exception"
    /\ Leaves(t, "dcore.Exception")
    /\ UNCHANGED <<gil, tasks, ledger, trx, start>>

InMethod(t) == ConvertItem(t) \/ ConvertRaises(t) \/ Post(t) \/ WaitReturns(t) \/ WaitThrows(t)

Worker == NodeTakes \/ WorkerAnswers \/ WorkerFails

Next ==
    \/ \E t \in Thread :
          \/ TakeGil(t) \/ DropGil(t)
          \/ \E items \in ItemLists : CallQuery(t, items)
          \/ \E items \in ItemLists, publish \in BOOLEAN : CallExec(t, items, publish)
          \/ CallBroadcast(t)
          \/ InMethod(t)
    \/ Worker

\* Native code runs on, and the worker answers every task in the end: the code
\* has no timeout of its own, it relies on the node's answer or on the
\* connection's failure.
Fairness == /\ \A t \in Thread : WF_vars(InMethod(t))
            /\ WF_vars(Worker)

Spec == Init /\ [][Next]_vars /\ Fairness

-----------------------------------------------------------------------------
\* wait() is called with the GIL held (module.cpp:94-216), so the thread inside a
\* method is the one that holds it, the worker has its task and no other, and a
\* task that was posted is either still with the worker or answered.
OneCallAtATime ==
    /\ \A t \in Thread : phase[t] # "python" => gil = t
    /\ Len(tasks) <= 1
    /\ \A t \in Thread : Waiting(t) <=> \/ reply[t] # "none"
                                        \/ tasks # <<>> /\ Head(tasks).by = t
    /\ \A t \in Thread : reply[t] # "none" => tasks = <<>>

Idle == \A t \in Thread : phase[t] = "python"

\* vector_from_list is evaluated before exec(...) posts anything (module.cpp:12-23):
\* a call that ended in TypeError has published nothing, not even in part.
TypeErrorIsClean == Idle /\ outcome.result = "TypeError" => ledger = start

\* A signed transaction that a method returned carries the values the caller passed;
\* only a str with an embedded NUL comes out shorter (common.cpp:139-158).  An
\* integer beyond 64 bits is replaced, but then nothing is returned: the error it
\* left set surfaces as SystemError.
ReturnedIntact ==
    \A t \in Thread : trx[t] # Nil =>
        \A i \in 1..Len(trx[t].items) :
            FromVariant(trx[t].data[i]) = trx[t].items[i] \/ HasNul(trx[t].items[i])

\* Seen from Python a call is one step, though it is many steps of two threads.
Serial == INSTANCE SerialWallet WITH ledger <- IF Idle THEN ledger ELSE start

\* Wallet (module.cpp:92-217) implements SerialWallet: no Python thread ever sees a
\* call half done, and a call ends in one of the ways, and with one of the effects
\* of what it asked for, stated there.
RefinesSerialWallet == Serial!Init /\ [][Serial!Next]_(Serial!serialVars)

\* A method that was called returns or raises, if the worker answers every task.
EveryCallEnds == \A t \in Thread : phase[t] # "python" ~> phase[t] = "python"
=============================================================================
