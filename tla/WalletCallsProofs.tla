-------------------------- MODULE WalletCallsProofs --------------------------
(***************************************************************************)
(* Theorems about WalletCalls, for every number of threads, lists of every *)
(* length and integers of every width, and about the Python values that    *)
(* VariantCodec gives back as they were, for text of every length.         *)
(*                                                                         *)
(* The inductive invariant adds to the checked properties what the         *)
(* conversion loop has done so far and that nothing reaches the node while *)
(* a method converts its arguments; the refinement of SerialWallet needs,  *)
(* besides, what a call is about to return and where, between the caller,  *)
(* the worker and the ledger, its transaction is.                          *)
(***************************************************************************)
EXTENDS WalletCalls, SequenceTheorems, WellFoundedInduction, TLAPS

-----------------------------------------------------------------------------
\* n characters of s come before its first Nul.
CutAt(s, n) == /\ \A i \in 1..n : s[i] # Nul
               /\ n < Len(s) => s[n + 1] = Nul

\* There is such an n, and it is at most the length.
LEMMA CutExists ==
    ASSUME NEW s \in Text
    PROVE  \E n \in 0..Len(s) : CutAt(s, n)
<1>0. Len(s) \in Nat
  BY DEF Text
<1>. DEFINE Nuls == {i \in 1..Len(s) : s[i] = Nul}
<1>1. CASE Nuls = {}
  <2>. Len(s) \in 0..Len(s)
    BY <1>0
  <2>. QED
    BY <1>0, <1>1 DEF CutAt
<1>2. CASE Nuls # {}
  <2>1. Nuls \subseteq Nat
    BY <1>0
  <2>2. PICK m \in Nuls : \A i \in Nuls : ~(<<i, m>> \in OpToRel(<, Nat))
    BY <1>2, <2>1, WFMin, NatLessThanWellFounded
  <2>3. \A i \in Nuls : ~(i < m)
    BY <2>1, <2>2 DEF OpToRel
  <2>4. m - 1 \in 0..Len(s) /\ CutAt(s, m - 1)
    BY <1>0, <2>3 DEF CutAt
  <2>. QED
    BY <2>4
<1>. QED
  BY <1>1, <1>2

\* A C string is the text up to its first Nul: it holds none, and it is the whole
\* text exactly when there is none to cut at.
LEMMA CStringProperties ==
    ASSUME NEW s \in Text
    PROVE  /\ CString(s) \in Text
           /\ \A i \in 1..Len(CString(s)) : CString(s)[i] # Nul
           /\ (\A i \in 1..Len(s) : s[i] # Nul) => CString(s) = s
<1>0. Len(s) \in Nat
  BY DEF Text
<1>. DEFINE n == CHOOSE k \in 0..Len(s) : CutAt(s, k)
<1>1. n \in 0..Len(s) /\ CutAt(s, n)
  BY CutExists
<1>2. CString(s) = SubSeq(s, 1, n)
  BY DEF CString, CutAt
<1>. HIDE DEF n
<1>3. \A i \in 1..n : s[i] \in Char
  BY <1>0, <1>1 DEF Text
<1>4. /\ SubSeq(s, 1, n) \in Seq(Char)
      /\ Len(SubSeq(s, 1, n)) = n
      /\ \A i \in 1..n : SubSeq(s, 1, n)[i] = s[i]
  BY <1>0, <1>1, <1>3, SubSeqProperties
<1>5. (\A i \in 1..Len(s) : s[i] # Nul) => n = Len(s)
  BY <1>0, <1>1 DEF CutAt
<1>6. SubSeq(s, 1, Len(s)) = s
  BY SubSeqFull DEF Text
<1>. QED
  BY <1>1, <1>2, <1>4, <1>5, <1>6 DEF CutAt, Text

\* Whatever construct makes of a Python value is a variant.
LEMMA ToVariantType ==
    ASSUME NEW v \in PyValue
    PROVE  ToVariant(v) \in Variant
<1>1. CASE v.kind = "bool"
  BY <1>1 DEF PyValue, ToVariant, Variant
<1>2. CASE v.kind = "int"
  BY <1>2, VariantAssumption DEF PyValue, ToVariant, IntVariant, Variant, Int64, UInt64
<1>3. CASE v.kind = "str"
  <2>1. v.text \in Text
    BY <1>3 DEF PyValue
  <2>2. CString(v.text) \in Text
    BY <2>1, CStringProperties
  <2>. QED
    BY <1>3, <2>2 DEF ToVariant, Variant
<1>4. CASE v.kind \notin {"bool", "int", "str"}
  BY <1>4 DEF ToVariant, NullVariant, Variant
<1>. QED
  BY <1>1, <1>2, <1>3, <1>4

\* A value that converts is read back as it was, unless it is an int in neither
\* 64-bit range, which leaves OverflowError set, or a str with an embedded Nul.
THEOREM RoundTrip ==
    ASSUME NEW v \in PyValue, VariantConvertible(v), ~LeavesError(v), ~HasNul(v)
    PROVE  SurvivesRoundTrip(v)
<1>. USE DEF SurvivesRoundTrip, FromVariant, ToVariant
<1>1. CASE v.kind = "bool"
  BY <1>1 DEF PyValue
<1>2. CASE v.kind = "int"
  BY <1>2 DEF PyValue, IntVariant, LeavesError
<1>3. CASE v.kind = "str"
  <2>1. v.text \in Text /\ v = [kind |-> "str", text |-> v.text]
    BY <1>3 DEF PyValue
  <2>2. CString(v.text) = v.text
    BY <1>3, <2>1, CStringProperties DEF HasNul
  <2>. QED
    BY <1>3, <2>1, <2>2
<1>4. CASE v.kind = "none"
  BY <1>4 DEF PyValue, NullVariant
<1>. QED
  BY <1>1, <1>2, <1>3, <1>4 DEF VariantConvertible

\* The other two kinds never come back as they were: the loss is not an accident
\* of the bounds of a run.
THEOREM LostValues ==
    ASSUME NEW v \in PyValue, LeavesError(v) \/ HasNul(v)
    PROVE  ~SurvivesRoundTrip(v)
<1>. USE DEF SurvivesRoundTrip, FromVariant, ToVariant
<1>1. CASE LeavesError(v)
  BY <1>1, VariantAssumption DEF PyValue, LeavesError, IntVariant, Int64, UInt64
<1>2. CASE HasNul(v)
  <2>1. v.kind = "str" /\ v.text \in Text
    BY <1>2 DEF HasNul, PyValue
  <2>2. CString(v.text) # v.text
    BY <1>2, <2>1, CStringProperties DEF HasNul
  <2>. QED
    BY <2>1, <2>2
<1>. QED
  BY <1>1, <1>2

-----------------------------------------------------------------------------
LEMMA ItemListsAreSeqs ==
    ASSUME NEW l \in ItemLists
    PROVE  l \in Seq(PyItem) /\ Len(l) \in Nat
<1>1. PICK n \in 0..MaxData : l \in [1..n -> PyItem]
  BY DEF ItemLists
<1>2. n \in Nat
  BY CallsAssumption
<1>. QED
  BY <1>1, <1>2, SeqDef

LEMMA BlankType ==
    ASSUME NEW n \in Nat
    PROVE  Blank(n) \in Seq(Variant) /\ Len(Blank(n)) = n
<1>1. NullVariant \in Variant
  BY DEF NullVariant, Variant
<1>2. Blank(n) \in [1..n -> Variant]
  BY <1>1 DEF Blank
<1>3. Blank(n) \in Seq(Variant)
  BY <1>2, SeqDef
<1>. QED
  BY <1>2, <1>3

LEMMA ReplacedVariant ==
    ASSUME NEW s \in Seq(Variant), NEW p \in Nat, NEW x \in Variant
    PROVE  [s EXCEPT ![p] = x] \in Seq(Variant) /\ Len([s EXCEPT ![p] = x]) = Len(s)
<1>1. s \in [1..Len(s) -> Variant] /\ Len(s) \in Nat
  OBVIOUS
<1>2. [s EXCEPT ![p] = x] \in [1..Len(s) -> Variant]
  BY <1>1
<1>3. [s EXCEPT ![p] = x] \in Seq(Variant)
  BY <1>1, <1>2, SeqDef
<1>. QED
  BY <1>1, <1>2, <1>3

Task == [by: Thread, tx: Transaction, publish: BOOLEAN, taken: BOOLEAN]

\* A queue of at most one task, of which the worker takes the head.
LEMMA SingleTask ==
    ASSUME NEW s \in Seq(Task), Len(s) <= 1, s # <<>>
    PROVE  Head(s) \in Task /\ Tail(s) = <<>>
  BY HeadTailProperties, EmptySeq

LEMMA NewTask ==
    ASSUME NEW x \in Task
    PROVE  /\ Append(<<>>, x) \in Seq(Task) /\ Append(<<>>, x) # <<>>
           /\ Len(Append(<<>>, x)) = 1 /\ Head(Append(<<>>, x)) = x
  OBVIOUS

LEMMA TakenTask ==
    ASSUME NEW s \in Seq(Task), s # <<>>
    PROVE  /\ [s EXCEPT ![1].taken = TRUE] \in Seq(Task)
           /\ [s EXCEPT ![1].taken = TRUE] # <<>>
           /\ Len([s EXCEPT ![1].taken = TRUE]) = Len(s)
           /\ Head([s EXCEPT ![1].taken = TRUE]) = [Head(s) EXCEPT !.taken = TRUE]
           /\ Head([s EXCEPT ![1].taken = TRUE]).by = Head(s).by
<1>. DEFINE r == [s EXCEPT ![1].taken = TRUE]
<1>1. s \in [1..Len(s) -> Task] /\ Len(s) \in Nat \ {0}
  BY EmptySeq
<1>2. [s[1] EXCEPT !.taken = TRUE] \in Task /\ [s[1] EXCEPT !.taken = TRUE].by = s[1].by
  <2>1. s[1] \in Task
    BY <1>1
  <2>. QED
    BY <2>1 DEF Task
<1>3. r \in [1..Len(s) -> Task] /\ r[1] = [s[1] EXCEPT !.taken = TRUE]
  <2>1. 1 \in 1..Len(s)
    BY <1>1
  <2>2. DEFINE x == [s[1] EXCEPT !.taken = TRUE]
  <2>3. r = [s EXCEPT ![1] = x]
    BY <2>1
  <2>. HIDE DEF x
  <2>4. [s EXCEPT ![1] = x] \in [1..Len(s) -> Task] /\ [s EXCEPT ![1] = x][1] = x
    BY <1>1, <1>2, <2>1 DEF x
  <2>. QED
    BY <2>3, <2>4 DEF x
<1>4. r \in Seq(Task) /\ Len(r) = Len(s)
  BY <1>1, <1>3, SeqDef
<1>5. Head(r) = r[1] /\ Head(s) = s[1] /\ r # <<>>
  BY <1>1, <1>4
<1>. QED
  BY <1>2, <1>3, <1>4, <1>5

-----------------------------------------------------------------------------
LEMMA TypeInit == Init => TypeOK
  BY CallsAssumption DEF Init, TypeOK, NoRequest, Request

LEMMA EntersType ==
    ASSUME TypeOK, NEW t \in Thread, NEW req \in Request, NEW n \in 0..Len(req.items),
           NEW vector \in Seq(Variant), Enters(t, req, n, vector)
    PROVE  TypeOK'
<1>1. n \in Nat /\ n <= Len(req.items)
  BY DEF Request
<1>. QED
  BY <1>1 DEF TypeOK, Enters

LEMMA LeavesType ==
    ASSUME TypeOK, NEW t \in Thread,
           NEW result \in {"ok", "TypeError", "SystemError", "dcore.Exception"},
           Leaves(t, result)
    PROVE  /\ (phase \in [Thread -> {"python", "converting", "waiting"}])'
           /\ (request \in [Thread -> Request])'
           /\ (index \in [Thread -> Nat] /\ \A u \in Thread : index[u] <= Len(request[u].items))'
           /\ (data \in [Thread -> Seq(Variant)])'
           /\ (pyerr \in [Thread -> BOOLEAN])'
           /\ (reply \in [Thread -> {"none", "value", "exception"}])'
           /\ (outcome \in [by: Thread \cup {Nil}, publish: BOOLEAN,
                result: {"none", "ok", "TypeError", "SystemError", "dcore.Exception"}])'
<1>1. NoRequest \in Request /\ 0 <= Len(NoRequest.items)
  BY DEF NoRequest, Request
<1>2. request[t].publish \in BOOLEAN
  BY DEF TypeOK, Request
<1>. QED
  BY <1>1, <1>2 DEF TypeOK, Leaves

\* The call holds a transaction: what was passed and what it became.
LEMMA RequestIsTransaction ==
    ASSUME TypeOK, NEW t \in Thread
    PROVE  [items |-> request[t].items, data |-> data[t]] \in Transaction
  BY DEF TypeOK, Request, Transaction

LEMMA TypeStep == TypeOK /\ [Next]_vars => TypeOK'
<1>. SUFFICES ASSUME TypeOK, [Next]_vars PROVE TypeOK'
  OBVIOUS
<1>. USE DEF callVars
<1>1. ASSUME NEW t \in Thread, TakeGil(t) \/ DropGil(t) PROVE TypeOK'
  BY <1>1 DEF TypeOK, TakeGil, DropGil
<1>2. ASSUME NEW t \in Thread, NEW items \in ItemLists, CallQuery(t, items) PROVE TypeOK'
  <2>1. items \in Seq(PyItem) /\ Len(items) \in Nat /\ Blank(Len(items)) \in Seq(Variant)
    BY ItemListsAreSeqs, BlankType
  <2>2. [method |-> "query", items |-> items, publish |-> FALSE] \in Request
    BY <2>1 DEF Request
  <2>. QED
    BY <1>2, <2>1, <2>2, EntersType DEF CallQuery
<1>3. ASSUME NEW t \in Thread, NEW items \in ItemLists, NEW publish \in BOOLEAN,
             CallExec(t, items, publish)
      PROVE  TypeOK'
  <2>1. items \in Seq(PyItem) /\ Len(items) \in Nat /\ Blank(Len(items)) \in Seq(Variant)
    BY ItemListsAreSeqs, BlankType
  <2>2. [method |-> "exec", items |-> items, publish |-> publish] \in Request
    BY <2>1 DEF Request
  <2>. QED
    BY <1>3, <2>1, <2>2, EntersType DEF CallExec
<1>4. ASSUME NEW t \in Thread, CallBroadcast(t) PROVE TypeOK'
  <2>1. trx[t] \in Transaction
    BY <1>4 DEF TypeOK, CallBroadcast
  <2>2. /\ [method |-> "broadcast", items |-> trx[t].items, publish |-> TRUE] \in Request
        /\ trx[t].data \in Seq(Variant)
    BY <2>1 DEF Request, Transaction
  <2>. QED
    BY <1>4, <2>2, EntersType DEF CallBroadcast
<1>5. ASSUME NEW t \in Thread, ConvertItem(t) PROVE TypeOK'
  <2>1. index[t] \in Nat /\ index[t] - 1 \in Nat /\ data[t] \in Seq(Variant)
    BY <1>5 DEF TypeOK, ConvertItem, Converting
  <2>2. Item(t) \in PyValue
    <3>1. request[t].items \in Seq(PyItem) /\ index[t] \in 1..Len(request[t].items)
      BY <1>5, <2>1 DEF TypeOK, Request, ConvertItem, Converting
    <3>. QED
      BY <3>1, CallsAssumption DEF Item
  <2>3. ToVariant(Item(t)) \in Variant
    BY <2>2, ToVariantType
  <2>4. [data[t] EXCEPT ![index[t]] = ToVariant(Item(t))] \in Seq(Variant)
    BY <2>1, <2>3, ReplacedVariant
  <2>. QED
    BY <1>5, <2>1, <2>4 DEF TypeOK, ConvertItem
<1>6. ASSUME NEW t \in Thread, ConvertRaises(t) PROVE TypeOK'
  BY <1>6, LeavesType DEF TypeOK, ConvertRaises
<1>7. ASSUME NEW t \in Thread, Post(t) PROVE TypeOK'
  <2>1. tasks' \in Seq(Task)
    BY <1>7, RequestIsTransaction, AppendProperties DEF TypeOK, Post, Task, Request
  <2>. QED
    BY <1>7, <2>1 DEF TypeOK, Post, Task
<1>8. ASSUME NEW t \in Thread, WaitReturns(t) PROVE TypeOK'
  <2>1. trx' \in [Thread -> Transaction \cup {Nil}]
    BY <1>8, RequestIsTransaction DEF TypeOK, WaitReturns
  <2>. QED
    BY <1>8, <2>1, LeavesType DEF TypeOK, WaitReturns
<1>9. ASSUME NEW t \in Thread, WaitThrows(t) PROVE TypeOK'
  BY <1>9, LeavesType DEF TypeOK, WaitThrows
<1>10. CASE Worker
  <2>1. tasks \in Seq(Task)
    BY DEF TypeOK, Task
  <2>2. CASE NodeTakes
    <3>0. Head(tasks) \in Task
      BY <2>1, <2>2, HeadTailProperties DEF NodeTakes
    <3>1. Head(tasks).tx \in Transaction
      BY <3>0 DEF Task
    <3>2. tasks' \in Seq(Task)
      BY <2>1, <2>2, TakenTask DEF NodeTakes
    <3>3. ledger \in Seq(Transaction) /\ ledger' = Append(ledger, Head(tasks).tx)
      BY <2>2 DEF TypeOK, NodeTakes
    <3>4. ledger' \in Seq(Transaction)
      BY <3>1, <3>3, AppendProperties
    <3>5. UNCHANGED <<gil, phase, request, index, data, pyerr, reply, trx, outcome, start>>
      BY <2>2 DEF NodeTakes, callVars
    <3>. QED
      BY <3>2, <3>4, <3>5 DEF TypeOK, Task
  <2>3. CASE WorkerAnswers \/ WorkerFails
    <3>1. tasks # <<>> /\ tasks' = Tail(tasks)
      BY <2>3 DEF WorkerAnswers, WorkerDone, WorkerFails, Answers
    <3>2. tasks' \in Seq(Task) /\ Head(tasks) \in Task
      BY <2>1, <3>1, HeadTailProperties
    <3>3. reply' \in [Thread -> {"none", "value", "exception"}]
      BY <2>3 DEF TypeOK, WorkerAnswers, WorkerFails, Answers
    <3>4. UNCHANGED <<gil, phase, request, index, data, pyerr, ledger, trx, outcome, start>>
      BY <2>3 DEF WorkerAnswers, WorkerFails, Answers
    <3>. QED
      BY <3>2, <3>3, <3>4 DEF TypeOK, Task
  <2>. QED
    BY <1>10, <2>2, <2>3 DEF Worker
<1>11. CASE UNCHANGED vars
  BY <1>11 DEF TypeOK, vars
<1>. QED
  BY <1>1, <1>2, <1>3, <1>4, <1>5, <1>6, <1>7, <1>8, <1>9, <1>10, <1>11 DEF Next, InMethod

\* Every variable of WalletCalls has its type: what is posted, taken by the node
\* and returned are transactions whose data the converter can have made.
THEOREM TypeCorrect == Spec => []TypeOK
  BY TypeInit, TypeStep, PTL DEF Spec

-----------------------------------------------------------------------------
\* The part of a list the loop has converted: each item converts, its variant is in
\* the vector, and an error it left set is still set.
Done(t, i) ==
    /\ VariantConvertible(request[t].items[i])
    /\ data[t][i] = ToVariant(request[t].items[i])
    /\ LeavesError(request[t].items[i]) => pyerr[t]

CallInv ==
    \A t \in Thread :
        /\ phase[t] = "waiting" => index[t] = 0
        /\ phase[t] = "converting" => ledger = start
        /\ request[t].method = "exec" =>
              /\ Len(data[t]) = Len(request[t].items)
              /\ \A i \in (index[t] + 1)..Len(request[t].items) : Done(t, i)

\* A transaction that was returned: converted, and no item left an error.
Intact(tx) ==
    /\ Len(tx.data) = Len(tx.items)
    /\ \A i \in 1..Len(tx.items) : /\ VariantConvertible(tx.items[i])
                                   /\ ~LeavesError(tx.items[i])
                                   /\ tx.data[i] = ToVariant(tx.items[i])

TrxInv == \A t \in Thread : trx[t] # Nil => Intact(trx[t])

IInv == TypeOK /\ OneCallAtATime /\ CallInv /\ TrxInv /\ TypeErrorIsClean

LEMMA IInvInit == Init => IInv
<1>. SUFFICES ASSUME Init PROVE IInv
  OBVIOUS
<1>1. TypeOK
  BY TypeInit
<1>2. OneCallAtATime
  BY DEF Init, OneCallAtATime, Waiting
<1>3. CallInv /\ TrxInv /\ TypeErrorIsClean
  BY DEF Init, CallInv, TrxInv, TypeErrorIsClean, NoRequest
<1>. QED
  BY <1>1, <1>2, <1>3 DEF IInv

\* Only the thread that holds the GIL is inside a method, and it has one task.
LEMMA MutexStep == ASSUME TypeOK, OneCallAtATime, Next PROVE OneCallAtATime'
<1>. USE DEF OneCallAtATime, Waiting, callVars
<1>0. /\ tasks \in Seq(Task)
      /\ phase \in [Thread -> {"python", "converting", "waiting"}]
      /\ reply \in [Thread -> {"none", "value", "exception"}]
      /\ gil \in Thread \cup {Nil}
  BY DEF TypeOK, Task
<1>1. ASSUME NEW t \in Thread, TakeGil(t) \/ DropGil(t) PROVE OneCallAtATime'
  BY <1>0, <1>1, CallsAssumption DEF TakeGil, DropGil
<1>2. ASSUME NEW t \in Thread, NEW req, NEW n, NEW vector, InPython(t), Enters(t, req, n, vector)
      PROVE  OneCallAtATime'
  BY <1>0, <1>2 DEF InPython, Enters
<1>3. ASSUME NEW t \in Thread, ConvertItem(t) PROVE OneCallAtATime'
  BY <1>3 DEF ConvertItem
<1>4. ASSUME NEW t \in Thread, ConvertRaises(t) PROVE OneCallAtATime'
  BY <1>0, <1>4 DEF ConvertRaises, Leaves, Converting
<1>5. ASSUME NEW t \in Thread, Post(t) PROVE OneCallAtATime'
  <2>1. phase[t] = "converting" /\ \A u \in Thread : phase[u] = "python" \/ u = t
    BY <1>0, <1>5 DEF Post
  <2>2. tasks = <<>>
    <3>1. tasks # <<>> => Head(tasks) \in Task
      BY <1>0, SingleTask
    <3>. QED
      BY <2>1, <3>1 DEF Task
  <2>3. PICK x \in Task : x.by = t /\ tasks' = Append(<<>>, x)
    <3>1. [items |-> request[t].items, data |-> data[t]] \in Transaction /\ request[t].publish \in BOOLEAN
      BY RequestIsTransaction DEF TypeOK, Request
    <3>. QED
      BY <1>5, <2>2, <3>1 DEF Post, Task
  <2>4. tasks' # <<>> /\ Len(tasks') = 1 /\ Head(tasks').by = t
    BY <2>3, NewTask
  <2>. QED
    BY <1>0, <1>5, <2>1, <2>2, <2>4 DEF Post
<1>6. ASSUME NEW t \in Thread, WaitReturns(t) \/ WaitThrows(t) PROVE OneCallAtATime'
  <2>1. tasks = <<>> /\ UNCHANGED <<gil, tasks>>
    BY <1>6 DEF WaitReturns, WaitThrows
  <2>2. /\ phase' = [phase EXCEPT ![t] = "python"]
        /\ reply' = [reply EXCEPT ![t] = "none"]
    BY <1>6 DEF WaitReturns, WaitThrows, Leaves
  <2>. QED
    BY <1>0, <2>1, <2>2
<1>7. CASE NodeTakes
  <2>1. tasks # <<>> /\ UNCHANGED <<gil, phase, reply>>
    BY <1>7 DEF NodeTakes
  <2>2. tasks' # <<>> /\ Len(tasks') = Len(tasks) /\ Head(tasks').by = Head(tasks).by
    BY <1>0, <1>7, <2>1, TakenTask DEF NodeTakes
  <2>. QED
    BY <2>1, <2>2
<1>8. CASE WorkerAnswers \/ WorkerFails
  <2>1. tasks # <<>> /\ tasks' = Tail(tasks) /\ UNCHANGED <<gil, phase>>
    BY <1>8 DEF WorkerAnswers, WorkerDone, WorkerFails, Answers
  <2>2. tasks' = <<>> /\ Head(tasks) \in Task
    BY <1>0, <2>1, SingleTask
  <2>3. PICK answer \in {"value", "exception"} : reply' = [reply EXCEPT ![Head(tasks).by] = answer]
    BY <1>8 DEF WorkerAnswers, WorkerFails, Answers
  <2>4. Head(tasks).by \in Thread /\ Len(tasks') = 0
    BY <2>2 DEF Task
  <2>. QED
    BY <1>0, <2>1, <2>2, <2>3, <2>4
<1>. QED
  BY <1>1, <1>2, <1>3, <1>4, <1>5, <1>6, <1>7, <1>8
     DEF Next, InMethod, Worker, CallExec, CallQuery, CallBroadcast

-----------------------------------------------------------------------------
\* CallInv for one thread.
CallOf(t) ==
    /\ phase[t] = "waiting" => index[t] = 0
    /\ phase[t] = "converting" => ledger = start
    /\ request[t].method = "exec" =>
          /\ Len(data[t]) = Len(request[t].items)
          /\ \A i \in (index[t] + 1)..Len(request[t].items) : Done(t, i)

\* A call begins: nothing is converted yet, and a transaction that is only passed on
\* is not converted at all.
LEMMA EntersCall ==
    ASSUME TypeOK, OneCallAtATime, CallInv, NEW t \in Thread, InPython(t),
           NEW req \in Request, NEW n \in Nat, NEW vector \in Seq(Variant),
           req.method = "exec" => n = Len(req.items) /\ Len(vector) = Len(req.items),
           Enters(t, req, n, vector)
    PROVE  CallInv'
<1>. SUFFICES ASSUME NEW u \in Thread PROVE CallOf(u)'
  BY DEF CallInv, CallOf
<1>1. CASE u = t
  <2>1. /\ phase'[u] = "converting" /\ request'[u] = req /\ index'[u] = n /\ data'[u] = vector
        /\ ledger' = start'
    BY <1>1 DEF Enters, TypeOK
  <2>2. req.method = "exec" => (n + 1)..Len(req.items) = {}
    BY DEF Request
  <2>. QED
    BY <2>1, <2>2 DEF CallOf
<1>2. CASE u # t
  <2>1. phase[u] = "python"
    BY <1>2 DEF OneCallAtATime, InPython, TypeOK
  <2>2. /\ phase'[u] = phase[u] /\ request'[u] = request[u] /\ index'[u] = index[u]
        /\ data'[u] = data[u] /\ pyerr'[u] = pyerr[u]
    BY <1>2 DEF Enters, TypeOK
  <2>. QED
    BY <2>1, <2>2 DEF CallInv, CallOf, Done
<1>. QED
  BY <1>1, <1>2

\* A call is left: the thread holds nothing of it, the others are untouched.
LEMMA LeavesCall ==
    ASSUME TypeOK, CallInv, NEW t \in Thread, NEW result, Leaves(t, result),
           UNCHANGED <<ledger, start>>
    PROVE  CallInv'
<1>. SUFFICES ASSUME NEW u \in Thread PROVE CallOf(u)'
  BY DEF CallInv, CallOf
<1>1. CASE u = t
  <2>1. phase'[u] = "python" /\ request'[u] = NoRequest
    BY <1>1 DEF Leaves, TypeOK
  <2>. QED
    BY <2>1 DEF CallOf, NoRequest
<1>2. CASE u # t
  <2>1. /\ phase'[u] = phase[u] /\ request'[u] = request[u] /\ index'[u] = index[u]
        /\ data'[u] = data[u] /\ pyerr'[u] = pyerr[u]
    BY <1>2 DEF Leaves, TypeOK
  <2>. QED
    BY <2>1 DEF CallInv, CallOf, Done
<1>. QED
  BY <1>1, <1>2

\* One more item is converted: the ones before it stay as they are.
LEMMA ConvertCall ==
    ASSUME TypeOK, CallInv, NEW t \in Thread, ConvertItem(t)
    PROVE  CallInv'
<1>. SUFFICES ASSUME NEW u \in Thread PROVE CallOf(u)'
  BY DEF CallInv, CallOf
<1>0. UNCHANGED <<phase, request, ledger, start>>
  BY DEF ConvertItem
<1>1. CASE u = t
  <2>0. PICK k \in Nat : k = index[t]
    BY DEF TypeOK
  <2>. DEFINE items == request[t].items
  <2>1. /\ k \in Nat \ {0} /\ phase[t] = "converting" /\ k <= Len(items) /\ Len(items) \in Nat
        /\ data[t] \in Seq(Variant) /\ items \in Seq(PyItem)
    BY <2>0 DEF ConvertItem, Converting, TypeOK, Request
  <2>2. index'[t] = k - 1 /\ data'[t] = [data[t] EXCEPT ![k] = ToVariant(Item(t))]
    BY <2>0 DEF ConvertItem, TypeOK
  <2>3. pyerr'[t] = (pyerr[t] \/ (request[t].method = "exec" /\ LeavesError(Item(t))))
    BY DEF ConvertItem, TypeOK
  <2>4. ASSUME request[t].method = "exec"
        PROVE  /\ Len(data'[t]) = Len(items)
               /\ \A i \in k..Len(items) : Done(t, i)'
    <3>1. /\ Len(data[t]) = Len(items)
          /\ \A i \in (k + 1)..Len(items) : Done(t, i)
      BY <2>0, <2>4 DEF CallInv
    <3>2. Len(data'[t]) = Len(items)
      BY <2>1, <2>2, <3>1
    <3>3. k \in 1..Len(data[t]) /\ data'[t][k] = ToVariant(items[k])
      BY <2>0, <2>1, <2>2, <3>1 DEF Item
    <3>4. VariantConvertible(items[k]) /\ (LeavesError(items[k]) => pyerr'[t])
      BY <2>0, <2>3, <2>4 DEF ConvertItem, Convertible, Item
    <3>5. Done(t, k)'
      BY <1>0, <3>3, <3>4 DEF Done
    <3>6. ASSUME NEW i \in (k + 1)..Len(items) PROVE Done(t, i)'
      <4>1. data'[t][i] = data[t][i]
        BY <2>1, <2>2, <3>1
      <4>2. pyerr[t] => pyerr'[t]
        BY <2>3
      <4>. QED
        BY <1>0, <3>1, <4>1, <4>2 DEF Done
    <3>. QED
      BY <2>1, <3>2, <3>5, <3>6
  <2>. QED
    BY <1>0, <1>1, <2>1, <2>2, <2>4 DEF CallOf, CallInv
<1>2. CASE u # t
  <2>1. index'[u] = index[u] /\ data'[u] = data[u] /\ pyerr'[u] = pyerr[u]
    BY <1>2 DEF ConvertItem, TypeOK
  <2>. QED
    BY <1>0, <2>1 DEF CallInv, CallOf, Done
<1>. QED
  BY <1>1, <1>2

LEMMA CallStep == ASSUME TypeOK, OneCallAtATime, CallInv, Next PROVE CallInv'
<1>. USE DEF callVars
<1>1. ASSUME NEW t \in Thread, TakeGil(t) \/ DropGil(t) PROVE CallInv'
  BY <1>1 DEF TakeGil, DropGil, CallInv, Done
<1>2. ASSUME NEW t \in Thread, NEW items \in ItemLists, NEW publish \in BOOLEAN,
             CallQuery(t, items) \/ CallExec(t, items, publish)
      PROVE  CallInv'
  <2>1. items \in Seq(PyItem) /\ Len(items) \in Nat
    BY ItemListsAreSeqs
  <2>2. Blank(Len(items)) \in Seq(Variant) /\ Len(Blank(Len(items))) = Len(items)
    BY <2>1, BlankType
  <2>3. CASE CallQuery(t, items)
    <3>. DEFINE req == [method |-> "query", items |-> items, publish |-> FALSE]
    <3>1. req \in Request /\ req.method # "exec"
      BY <2>1 DEF Request
    <3>. QED
      BY <2>1, <2>2, <2>3, <3>1, EntersCall DEF CallQuery
  <2>4. CASE CallExec(t, items, publish)
    <3>. DEFINE req == [method |-> "exec", items |-> items, publish |-> publish]
    <3>1. req \in Request /\ req.items = items
      BY <2>1 DEF Request
    <3>. QED
      BY <2>1, <2>2, <2>4, <3>1, EntersCall DEF CallExec
  <2>. QED
    BY <1>2, <2>3, <2>4
<1>3. ASSUME NEW t \in Thread, CallBroadcast(t) PROVE CallInv'
  <2>. DEFINE req == [method |-> "broadcast", items |-> trx[t].items, publish |-> TRUE]
  <2>1. trx[t] \in Transaction
    BY <1>3 DEF TypeOK, CallBroadcast
  <2>2. req \in Request /\ trx[t].data \in Seq(Variant) /\ req.method # "exec"
    BY <2>1 DEF Request, Transaction
  <2>. QED
    BY <1>3, <2>2, EntersCall DEF CallBroadcast
<1>4. ASSUME NEW t \in Thread, ConvertItem(t) PROVE CallInv'
  BY <1>4, ConvertCall
<1>5. ASSUME NEW t \in Thread, ConvertRaises(t) \/ WaitReturns(t) \/ WaitThrows(t)
      PROVE  CallInv'
  BY <1>5, LeavesCall DEF ConvertRaises, WaitReturns, WaitThrows
<1>6. ASSUME NEW t \in Thread, Post(t) PROVE CallInv'
  BY <1>6 DEF Post, CallInv, Done, TypeOK
<1>7. CASE Worker
  <2>1. \A t \in Thread : phase[t] # "converting"
    <3>1. tasks # <<>> /\ tasks \in Seq(Task)
      BY <1>7 DEF Worker, NodeTakes, WorkerAnswers, WorkerDone, WorkerFails, TypeOK, Task
    <3>2. Head(tasks).by \in Thread
      <4>1. Head(tasks) \in Task
        BY <3>1, HeadTailProperties
      <4>. QED
        BY <4>1 DEF Task
    <3>3. Waiting(Head(tasks).by)
      BY <3>1, <3>2 DEF OneCallAtATime
    <3>. QED
      BY <3>2, <3>3 DEF OneCallAtATime, Waiting
  <2>2. UNCHANGED <<phase, request, index, data, pyerr>>
    BY <1>7 DEF Worker, NodeTakes, WorkerAnswers, WorkerFails, Answers
  <2>. QED
    BY <2>1, <2>2 DEF CallInv, Done
<1>. QED
  BY <1>1, <1>2, <1>3, <1>4, <1>5, <1>6, <1>7 DEF Next, InMethod

\* Only a method that found no error set hands a transaction out.
LEMMA TrxStep == ASSUME TypeOK, CallInv, TrxInv, Next PROVE TrxInv'
<1>1. CASE UNCHANGED trx
  BY <1>1 DEF TrxInv
<1>2. ASSUME NEW t \in Thread, WaitReturns(t) PROVE TrxInv'
  <2>1. CASE request[t].method = "exec" /\ ~pyerr[t]
    <3>. DEFINE tx == [items |-> request[t].items, data |-> data[t]]
    <3>1. trx' = [trx EXCEPT ![t] = tx]
      BY <1>2, <2>1 DEF WaitReturns
    <3>2. index[t] = 0
      BY <1>2 DEF WaitReturns, Waiting, CallInv
    <3>3. Intact(tx)
      BY <2>1, <3>2 DEF CallInv, Done, Intact
    <3>. HIDE DEF tx
    <3>. QED
      BY <3>1, <3>3 DEF TrxInv, TypeOK
  <2>2. CASE ~(request[t].method = "exec" /\ ~pyerr[t])
    BY <1>1, <1>2, <2>2 DEF WaitReturns
  <2>. QED
    BY <2>1, <2>2
<1>3. ~(\E t \in Thread : WaitReturns(t)) => UNCHANGED trx
  BY DEF Next, InMethod, TakeGil, DropGil, CallQuery, CallExec, CallBroadcast, Enters, ConvertItem,
         ConvertRaises, Post, WaitThrows, Worker, NodeTakes, WorkerAnswers, WorkerFails, Answers
<1>. QED
  BY <1>1, <1>2, <1>3

\* Nothing is published between the start of a call and the end of its conversion.
LEMMA CleanStep ==
    ASSUME TypeOK, OneCallAtATime, CallInv, TypeErrorIsClean, Next
    PROVE  TypeErrorIsClean'
<1>. USE DEF TypeErrorIsClean, Idle
<1>1. ASSUME NEW t \in Thread, TakeGil(t) \/ DropGil(t) PROVE TypeErrorIsClean'
  BY <1>1 DEF TakeGil, DropGil
<1>2. ASSUME NEW t \in Thread, NEW req, NEW n, NEW vector, Enters(t, req, n, vector)
      PROVE  TypeErrorIsClean'
  BY <1>2 DEF Enters, TypeOK
<1>3. ASSUME NEW t \in Thread, ConvertItem(t) \/ Post(t) PROVE TypeErrorIsClean'
  BY <1>3 DEF ConvertItem, Post, Converting, TypeOK
<1>4. ASSUME NEW t \in Thread, ConvertRaises(t) PROVE TypeErrorIsClean'
  BY <1>4 DEF ConvertRaises, Converting, CallInv
<1>5. ASSUME NEW t \in Thread, WaitReturns(t) \/ WaitThrows(t) PROVE TypeErrorIsClean'
  BY <1>5 DEF WaitReturns, WaitThrows, Leaves
<1>6. CASE Worker
  <2>1. tasks # <<>> /\ tasks \in Seq(Task) /\ phase' = phase
    BY <1>6 DEF Worker, NodeTakes, WorkerAnswers, WorkerDone, WorkerFails, Answers, TypeOK, Task
  <2>2. Head(tasks).by \in Thread
    <3>1. Head(tasks) \in Task
      BY <2>1, HeadTailProperties
    <3>. QED
      BY <3>1 DEF Task
  <2>3. phase[Head(tasks).by] = "waiting"
    BY <2>1, <2>2 DEF OneCallAtATime, Waiting
  <2>. QED
    BY <2>1, <2>2, <2>3
<1>. QED
  BY <1>1, <1>2, <1>3, <1>4, <1>5, <1>6 DEF Next, InMethod, CallQuery, CallExec, CallBroadcast

LEMMA IInvStep == IInv /\ [Next]_vars => IInv'
<1>. SUFFICES ASSUME IInv, [Next]_vars PROVE IInv'
  OBVIOUS
<1>1. CASE Next
  BY <1>1, TypeStep, MutexStep, CallStep, TrxStep, CleanStep DEF IInv
<1>2. CASE UNCHANGED vars
  <2>1. TypeOK'
    BY TypeStep DEF IInv
  <2>. QED
    BY <1>2, <2>1 DEF IInv, vars, OneCallAtATime, Waiting, CallInv, Done, TrxInv, TypeErrorIsClean, Idle
<1>. QED
  BY <1>1, <1>2

\* What the checked properties rest on: besides them, the conversion loop's progress
\* (CallInv) and what a returned transaction was made of (TrxInv).
THEOREM InductiveInvariant == Spec => []IInv
  BY IInvInit, IInvStep, PTL DEF Spec

\* The GIL is held around wait(): at most one call, and one task, at any time.
THEOREM Serialised == Spec => []OneCallAtATime
<1>1. IInv => OneCallAtATime
  BY DEF IInv
<1>. QED
  BY <1>1, InductiveInvariant, PTL

\* A call that ended in TypeError has published nothing.
THEOREM TypeErrorPublishesNothing == Spec => []TypeErrorIsClean
<1>1. IInv => TypeErrorIsClean
  BY DEF IInv
<1>. QED
  BY <1>1, InductiveInvariant, PTL

LEMMA IntactValues == IInv => ReturnedIntact
<1>. SUFFICES ASSUME IInv, NEW t \in Thread, trx[t] # Nil, NEW i \in 1..Len(trx[t].items)
              PROVE  FromVariant(trx[t].data[i]) = trx[t].items[i] \/ HasNul(trx[t].items[i])
  BY DEF ReturnedIntact
<1>. DEFINE item == trx[t].items[i]
<1>1. trx[t] \in Transaction /\ Intact(trx[t])
  BY DEF IInv, TypeOK, TrxInv
<1>2. item \in PyValue
  BY <1>1, CallsAssumption DEF Transaction
<1>3. VariantConvertible(item) /\ ~LeavesError(item) /\ trx[t].data[i] = ToVariant(item)
  BY <1>1 DEF Intact
<1>4. SurvivesRoundTrip(item) \/ HasNul(item)
  <2>. HIDE DEF item
  <2>. QED
    BY <1>2, <1>3, RoundTrip
<1>. QED
  BY <1>3, <1>4 DEF SurvivesRoundTrip

\* A signed transaction that a method returned carries what the caller passed, but for
\* strings cut at a NUL.
THEOREM ReturnedCorrect == Spec => []ReturnedIntact
  BY IntactValues, InductiveInvariant, PTL

-----------------------------------------------------------------------------
(* What a call is about to return, and where its transaction is *)
\* What thread t posts or has posted.
Tx(t) == [items |-> request[t].items, data |-> data[t]]

\* The ledger once the call of t is done with it.
Shipped(t) == IF request[t].publish THEN Append(start, Tx(t)) ELSE start

Replaced(items) == \E i \in 1..Len(items) : LeavesError(items[i])

\* What thread t has asked for and how far the conversion of its arguments is.
Stage(t) ==
    /\ phase[t] = "python" => request[t] = NoRequest /\ ~pyerr[t]
    /\ phase[t] # "python" =>
          /\ request[t].method \in {"exec", "query", "broadcast"}
          /\ request[t].method = "query" => ~request[t].publish
          /\ request[t].method = "broadcast" =>
                request[t].publish /\ index[t] = 0 /\ trx[t] # Nil /\ trx[t] = Tx(t)
          /\ request[t].method # "broadcast" =>
                \A i \in (index[t] + 1)..Len(request[t].items) :
                    Convertible(request[t].method, request[t].items[i])
          /\ pyerr[t] => request[t].method = "exec" /\ Replaced(request[t].items)

StageInv == \A t \in Thread : Stage(t)

\* Where the transaction of the thread that waits is: with the worker, or answered.
Work(t) ==
    /\ tasks # <<>> => /\ Head(tasks).tx = Tx(t) /\ Head(tasks).publish = request[t].publish
                       /\ Head(tasks).taken => request[t].publish
                       /\ ledger = IF Head(tasks).taken THEN Append(start, Tx(t)) ELSE start
    /\ reply[t] = "value" => ledger = Shipped(t)
    /\ reply[t] = "exception" => ledger \in {start, Shipped(t)}

WorkInv == \A t \in Thread : Waiting(t) => Work(t)

RInv == IInv /\ StageInv /\ WorkInv

LEMMA RInit == Init => RInv
<1>. SUFFICES ASSUME Init PROVE RInv
  OBVIOUS
<1>1. StageInv /\ WorkInv
  BY DEF Init, StageInv, Stage, WorkInv, Waiting
<1>. QED
  BY <1>1, IInvInit DEF RInv

-----------------------------------------------------------------------------
(* The calls *)

LEMMA EntersStage ==
    ASSUME IInv, StageInv, NEW t \in Thread, InPython(t),
           NEW req \in Request, NEW n, NEW vector, Enters(t, req, n, vector),
           req.method \in {"exec", "query", "broadcast"},
           req.method = "query" => ~req.publish,
           req.method = "broadcast" => /\ req.publish /\ n = 0 /\ trx[t] # Nil
                                       /\ trx[t] = [items |-> req.items, data |-> vector],
           req.method # "broadcast" => n = Len(req.items)
    PROVE  StageInv' /\ WorkInv'
<1>1. /\ phase'[t] = "converting" /\ request'[t] = req /\ index'[t] = n /\ data'[t] = vector
      /\ pyerr' = pyerr /\ trx' = trx
      /\ \A u \in Thread : u # t => phase'[u] = phase[u] /\ request'[u] = request[u]
                                    /\ index'[u] = index[u] /\ data'[u] = data[u]
  BY DEF Enters, IInv, TypeOK
<1>2. \A u \in Thread : u # t => phase[u] = "python"
  BY DEF IInv, OneCallAtATime, InPython
<1>3. ~pyerr[t]
  BY DEF StageInv, Stage, InPython
<1>4. StageInv'
  <2>. SUFFICES ASSUME NEW u \in Thread PROVE Stage(u)'
    BY DEF StageInv
  <2>1. CASE u = t
    <3>1. Len(req.items) \in Nat
      BY DEF Request
    <3>2. req.method # "broadcast" => (n + 1)..Len(req.items) = {}
      BY <3>1
    <3>. QED
      BY <1>1, <1>3, <2>1, <3>2 DEF Stage, Tx
  <2>2. CASE u # t
    BY <1>1, <1>2, <2>2 DEF StageInv, Stage
  <2>. QED
    BY <2>1, <2>2
<1>5. WorkInv'
  BY <1>1, <1>2 DEF WorkInv, Waiting
<1>. QED
  BY <1>4, <1>5

LEMMA LeavesStage ==
    ASSUME IInv, StageInv, NEW t \in Thread, phase[t] # "python", NEW result, Leaves(t, result)
    PROVE  StageInv' /\ WorkInv'
<1>1. /\ phase'[t] = "python" /\ request'[t] = NoRequest /\ ~pyerr'[t]
      /\ \A u \in Thread : u # t => phase'[u] = phase[u] /\ request'[u] = request[u] /\ pyerr'[u] = pyerr[u]
  BY DEF Leaves, IInv, TypeOK
<1>2. \A u \in Thread : u # t => phase[u] = "python"
  BY DEF IInv, OneCallAtATime
<1>3. StageInv'
  BY <1>1, <1>2 DEF StageInv, Stage
<1>4. WorkInv'
  BY <1>1, <1>2 DEF WorkInv, Waiting
<1>. QED
  BY <1>3, <1>4

LEMMA ConvertStage ==
    ASSUME IInv, StageInv, NEW t \in Thread, ConvertItem(t)
    PROVE  StageInv' /\ WorkInv'
<1>0. PICK k \in Nat : k = index[t]
  BY DEF IInv, TypeOK
<1>. DEFINE items == request[t].items
<1>1. /\ phase[t] = "converting" /\ k > 0 /\ k <= Len(items) /\ Len(items) \in Nat
      /\ Convertible(request[t].method, items[k])
  BY <1>0 DEF ConvertItem, Converting, Item, IInv, TypeOK, Request
<1>2. /\ UNCHANGED <<phase, request, trx>>
      /\ index'[t] = k - 1
      /\ pyerr'[t] = (pyerr[t] \/ (request[t].method = "exec" /\ LeavesError(items[k])))
      /\ \A u \in Thread : u # t => index'[u] = index[u] /\ pyerr'[u] = pyerr[u]
  BY <1>0 DEF ConvertItem, Item, IInv, TypeOK
<1>3. \A u \in Thread : u # t => phase[u] = "python"
  BY <1>1 DEF IInv, OneCallAtATime
<1>4. Stage(t)'
  <2>1. Stage(t) /\ request[t].method # "broadcast"
    BY <1>0, <1>1 DEF StageInv, Stage
  <2>2. \A i \in k..Len(items) : Convertible(request[t].method, items[i])
    BY <1>0, <1>1, <2>1 DEF Stage
  <2>3. pyerr'[t] => request[t].method = "exec" /\ Replaced(items)
    <3>1. LeavesError(items[k]) => Replaced(items)
      BY <1>1 DEF Replaced
    <3>2. pyerr[t] => request[t].method = "exec" /\ Replaced(items)
      BY <1>1, <2>1 DEF Stage
    <3>. QED
      BY <1>2, <3>1, <3>2
  <2>. QED
    BY <1>1, <1>2, <2>1, <2>2, <2>3 DEF Stage
<1>5. \A u \in Thread : u # t => Stage(u)'
  BY <1>2, <1>3 DEF StageInv, Stage
<1>6. WorkInv'
  BY <1>1, <1>2, <1>3 DEF WorkInv, Waiting
<1>. QED
  BY <1>4, <1>5, <1>6 DEF StageInv

LEMMA PostStage ==
    ASSUME IInv, StageInv, NEW t \in Thread, Post(t), Next
    PROVE  StageInv' /\ WorkInv'
<1>. USE DEF callVars
<1>1. /\ phase[t] = "converting" /\ phase'[t] = "waiting"
      /\ UNCHANGED <<callVars, reply, ledger, trx, start>>
      /\ \A u \in Thread : u # t => phase'[u] = phase[u] /\ phase[u] = "python"
  BY DEF Post, IInv, TypeOK, OneCallAtATime
<1>2. StageInv'
  BY <1>1 DEF StageInv, Stage, Tx
<1>3. tasks = <<>> /\ reply[t] = "none"
  <2>1. tasks # <<>> => Head(tasks) \in Task
    BY SingleTask DEF IInv, TypeOK, OneCallAtATime, Task
  <2>2. tasks # <<>> => Waiting(Head(tasks).by)
    BY <2>1 DEF IInv, OneCallAtATime, Task
  <2>3. tasks = <<>>
    BY <1>1, <2>1, <2>2 DEF Waiting, Task
  <2>4. reply[t] = "none"
    BY <1>1 DEF IInv, OneCallAtATime, Waiting
  <2>. QED
    BY <2>3, <2>4
<1>4. PICK x \in Task : /\ x = [by |-> t, publish |-> request[t].publish, taken |-> FALSE, tx |-> Tx(t)]
                        /\ tasks' = Append(<<>>, x)
  <2>1. Tx(t) \in Transaction /\ request[t].publish \in BOOLEAN
    BY RequestIsTransaction DEF IInv, TypeOK, Request, Tx
  <2>. QED
    BY <1>3, <2>1 DEF Post, Task, Tx
<1>5. Head(tasks') = x
  BY <1>4, NewTask
<1>6. ledger' = start'
  BY <1>1 DEF IInv, CallInv
<1>7. Work(t)'
  BY <1>1, <1>3, <1>4, <1>5, <1>6 DEF Work, Tx
<1>8. WorkInv'
  BY <1>1, <1>7 DEF WorkInv, Waiting
<1>. QED
  BY <1>2, <1>8

LEMMA WorkerStage ==
    ASSUME IInv, StageInv, WorkInv, Worker
    PROVE  StageInv' /\ WorkInv'
<1>. USE DEF callVars
<1>. DEFINE head == Head(tasks)
<1>1. tasks \in Seq(Task) /\ tasks # <<>> /\ Len(tasks) <= 1
  BY DEF Worker, NodeTakes, WorkerAnswers, WorkerDone, WorkerFails, IInv, TypeOK, OneCallAtATime, Task
<1>2. head \in Task /\ Tail(tasks) = <<>>
  BY <1>1, SingleTask
<1>3. PICK t \in Thread : t = head.by
  BY <1>2 DEF Task
<1>4. Waiting(t) /\ reply[t] = "none" /\ \A u \in Thread : u # t => phase[u] = "python"
  BY <1>1, <1>3 DEF IInv, OneCallAtATime, Waiting
<1>5. UNCHANGED <<phase, callVars, trx, start>>
  BY DEF Worker, NodeTakes, WorkerAnswers, WorkerFails, Answers
<1>6. StageInv'
  BY <1>5 DEF StageInv, Stage, Tx
<1>7. /\ head.tx = Tx(t) /\ head.publish = request[t].publish
      /\ head.taken => request[t].publish
      /\ ledger = IF head.taken THEN Append(start, Tx(t)) ELSE start
  BY <1>1, <1>4 DEF WorkInv, Work
<1>8. Work(t)'
  <2>1. CASE NodeTakes
    <3>1. Head(tasks') = [head EXCEPT !.taken = TRUE]
      BY <1>1, <2>1, TakenTask DEF NodeTakes
    <3>2. Head(tasks').taken = TRUE /\ Head(tasks').tx = head.tx /\ Head(tasks').publish = head.publish
      BY <1>2, <3>1 DEF Task
    <3>3. ledger' = Append(start, Tx(t)) /\ request[t].publish /\ reply' = reply
      BY <1>7, <2>1 DEF NodeTakes
    <3>. QED
      BY <1>4, <1>5, <1>7, <3>2, <3>3 DEF Work, Tx
  <2>2. CASE WorkerAnswers
    <3>1. tasks' = <<>> /\ reply'[t] = "value" /\ ledger' = ledger
      BY <1>2, <1>3, <2>2 DEF WorkerAnswers, Answers, IInv, TypeOK
    <3>2. request[t].publish => head.taken
      BY <1>7, <2>2 DEF WorkerAnswers, WorkerDone
    <3>3. ledger' = Shipped(t)'
      BY <1>5, <1>7, <3>1, <3>2 DEF Shipped, Tx
    <3>. QED
      BY <3>1, <3>3 DEF Work
  <2>3. CASE WorkerFails
    <3>1. tasks' = <<>> /\ reply'[t] = "exception" /\ ledger' = ledger
      BY <1>2, <1>3, <2>3 DEF WorkerFails, Answers, IInv, TypeOK
    <3>2. ledger' \in {start', Shipped(t)'}
      BY <1>5, <1>7, <3>1 DEF Shipped, Tx
    <3>. QED
      BY <3>1, <3>2 DEF Work
  <2>. QED
    BY <2>1, <2>2, <2>3 DEF Worker
<1>9. WorkInv'
  BY <1>4, <1>5, <1>8 DEF WorkInv, Waiting
<1>. QED
  BY <1>6, <1>9

LEMMA RStep == ASSUME RInv, Next PROVE StageInv' /\ WorkInv'
<1>. USE DEF RInv
<1>1. ASSUME NEW t \in Thread, TakeGil(t) \/ DropGil(t) PROVE StageInv' /\ WorkInv'
  BY <1>1 DEF TakeGil, DropGil, callVars, StageInv, Stage, WorkInv, Work, Waiting, Tx, Shipped
<1>2. ASSUME NEW t \in Thread, NEW items \in ItemLists, NEW publish \in BOOLEAN,
             CallQuery(t, items) \/ CallExec(t, items, publish)
      PROVE  StageInv' /\ WorkInv'
  <2>1. items \in Seq(PyItem)
    BY ItemListsAreSeqs
  <2>2. CASE CallQuery(t, items)
    <3>. DEFINE req == [method |-> "query", items |-> items, publish |-> FALSE]
    <3>1. req \in Request /\ req.method = "query" /\ req.items = items /\ req.publish = FALSE
      BY <2>1 DEF Request
    <3>2. InPython(t) /\ Enters(t, req, Len(items), Blank(Len(items)))
      BY <2>2 DEF CallQuery
    <3>. HIDE DEF req
    <3>. QED
      BY <3>1, <3>2, EntersStage
  <2>3. CASE CallExec(t, items, publish)
    <3>. DEFINE req == [method |-> "exec", items |-> items, publish |-> publish]
    <3>1. req \in Request /\ req.method = "exec" /\ req.items = items
      BY <2>1 DEF Request
    <3>2. InPython(t) /\ Enters(t, req, Len(items), Blank(Len(items)))
      BY <2>3 DEF CallExec
    <3>. HIDE DEF req
    <3>. QED
      BY <3>1, <3>2, EntersStage
  <2>. QED
    BY <1>2, <2>2, <2>3
<1>3. ASSUME NEW t \in Thread, CallBroadcast(t) PROVE StageInv' /\ WorkInv'
  <2>. DEFINE req == [method |-> "broadcast", items |-> trx[t].items, publish |-> TRUE]
  <2>1. trx[t] \in Transaction /\ trx[t] # Nil
    BY <1>3 DEF IInv, TypeOK, CallBroadcast
  <2>2. /\ req \in Request /\ req.method = "broadcast" /\ req.publish = TRUE
        /\ trx[t] = [items |-> req.items, data |-> trx[t].data]
    BY <2>1 DEF Request, Transaction
  <2>3. InPython(t) /\ Enters(t, req, 0, trx[t].data)
    BY <1>3 DEF CallBroadcast
  <2>. HIDE DEF req
  <2>. QED
    BY <2>1, <2>2, <2>3, EntersStage
<1>4. ASSUME NEW t \in Thread, ConvertItem(t) PROVE StageInv' /\ WorkInv'
  BY <1>4, ConvertStage
<1>5. ASSUME NEW t \in Thread, ConvertRaises(t) \/ WaitReturns(t) \/ WaitThrows(t)
      PROVE  StageInv' /\ WorkInv'
  <2>1. phase[t] # "python" /\ \E result : Leaves(t, result)
    BY <1>5 DEF ConvertRaises, Converting, WaitReturns, WaitThrows, Waiting
  <2>. QED
    BY <2>1, LeavesStage
<1>6. ASSUME NEW t \in Thread, Post(t) PROVE StageInv' /\ WorkInv'
  BY <1>6, PostStage
<1>7. CASE Worker
  BY <1>7, WorkerStage
<1>. QED
  BY <1>1, <1>2, <1>3, <1>4, <1>5, <1>6, <1>7 DEF Next, InMethod

LEMMA RNext == RInv /\ [Next]_vars => RInv'
<1>. SUFFICES ASSUME RInv, [Next]_vars PROVE RInv'
  OBVIOUS
<1>1. IInv'
  BY IInvStep DEF RInv
<1>2. CASE Next
  BY <1>1, <1>2, RStep DEF RInv
<1>3. CASE UNCHANGED vars
  BY <1>1, <1>3 DEF RInv, vars, callVars, StageInv, Stage, WorkInv, Work, Waiting, Tx, Shipped
<1>. QED
  BY <1>2, <1>3

LEMMA RInvariant == Spec => []RInv
  BY RInit, RNext, PTL DEF Spec

-----------------------------------------------------------------------------
(* The refinement *)

\* The operators of WalletRequests and VariantCodec are those of SerialWallet.
LEMMA SameRequests ==
    /\ Serial!NoRequest = NoRequest /\ Serial!ItemLists = ItemLists
    /\ \A m, i : Serial!Convertible(m, i) <=> Convertible(m, i)
    /\ \A i : Serial!LeavesError(i) <=> LeavesError(i)
    /\ \A i : Serial!ToVariant(i) = ToVariant(i)
  BY DEF Serial!NoRequest, NoRequest, Serial!ItemLists, ItemLists, Serial!Convertible, Convertible,
         Serial!VariantConvertible, VariantConvertible, Serial!LeavesError, LeavesError,
         Serial!Int64, Int64, Serial!UInt64, UInt64, Serial!ToVariant, ToVariant,
         Serial!IntVariant, IntVariant, Serial!CString, CString, Serial!NullVariant, NullVariant

\* The ledger that SerialWallet shows.
Shown == IF Idle THEN ledger ELSE start

LEMMA RefineCall ==
    ASSUME RInv, NEW t \in Thread, InPython(t), NEW req, NEW n, NEW vector, Enters(t, req, n, vector)
    PROVE  Serial!Call(t, req)
<1>1. \A u \in Thread : phase[u] = "python" /\ request[u] = NoRequest
  BY DEF RInv, IInv, OneCallAtATime, InPython, StageInv, Stage
<1>2. Idle /\ ~Idle' /\ start' = ledger /\ ledger' = ledger
  BY <1>1 DEF Idle, Enters, IInv, RInv, TypeOK
<1>. QED
  BY <1>1, <1>2, SameRequests DEF Serial!Call, Enters

\* Before the call is left, and after it.
LEMMA RefineLeave ==
    ASSUME RInv, NEW t \in Thread, phase[t] # "python", NEW result, Leaves(t, result),
           ledger' = ledger
    PROVE  /\ Shown = start /\ Shown' = ledger
           /\ request' = [request EXCEPT ![t] = Serial!NoRequest]
           /\ outcome' = [by |-> t, publish |-> request[t].publish, result |-> result]
<1>1. \A u \in Thread : u # t => phase[u] = "python"
  BY DEF RInv, IInv, OneCallAtATime
<1>2. phase' \in [Thread -> {"python", "converting", "waiting"}] /\ phase'[t] = "python"
      /\ \A u \in Thread : phase'[u] = "python"
  BY <1>1 DEF Leaves, RInv, IInv, TypeOK
<1>3. ~Idle /\ Idle'
  BY <1>2 DEF Idle
<1>. QED
  BY <1>3, SameRequests DEF Shown, Leaves

\* The arguments of a call that is posted have all been converted.
LEMMA Converted ==
    ASSUME RInv, NEW t \in Thread, Waiting(t), request[t].method # "broadcast"
    PROVE  Serial!AllConvertible(request[t])
<1>1. index[t] = 0 /\ Len(request[t].items) \in Nat
  BY DEF RInv, IInv, CallInv, Waiting, TypeOK, Request
<1>2. \A i \in 1..Len(request[t].items) : Convertible(request[t].method, request[t].items[i])
  BY <1>1 DEF RInv, StageInv, Stage, Waiting
<1>. QED
  BY <1>2, SameRequests DEF Serial!AllConvertible

\* What is posted is what was asked for, and an error is set if an integer was replaced.
LEMMA PostedTx ==
    ASSUME RInv, NEW t \in Thread, Waiting(t), request[t].method = "exec"
    PROVE  /\ Tx(t) = Serial!Signed(request[t].items)
           /\ pyerr[t] <=> Serial!SomeReplaced(request[t].items)
<1>. DEFINE items == request[t].items
<1>1. /\ index[t] = 0 /\ Len(items) \in Nat /\ Len(data[t]) = Len(items)
      /\ \A i \in 1..Len(items) : Done(t, i)
      /\ data[t] \in Seq(Variant)
  BY DEF RInv, IInv, CallInv, Waiting, TypeOK, Request
<1>2. data[t] = [i \in 1..Len(items) |-> Serial!ToVariant(items[i])]
  <2>1. data[t] = [i \in 1..Len(items) |-> data[t][i]]
    BY <1>1
  <2>2. \A i \in 1..Len(items) : data[t][i] = Serial!ToVariant(items[i])
    BY <1>1, SameRequests DEF Done
  <2>. QED
    BY <2>1, <2>2
<1>3. pyerr[t] <=> Replaced(items)
  <2>1. pyerr[t] => Replaced(items)
    BY DEF RInv, StageInv, Stage, Waiting
  <2>2. Replaced(items) => pyerr[t]
    BY <1>1 DEF Replaced, Done
  <2>3. pyerr[t] \in BOOLEAN
    BY DEF RInv, IInv, TypeOK
  <2>4. Replaced(items) \in BOOLEAN
    BY DEF Replaced
  <2>. QED
    BY <2>1, <2>2, <2>3, <2>4
<1>. QED
  BY <1>2, <1>3, SameRequests DEF Tx, Serial!Signed, Serial!SomeReplaced, Replaced

LEMMA RefineRaises ==
    ASSUME RInv, NEW t \in Thread, ConvertRaises(t)
    PROVE  Serial!RaisesTypeError(t)
<1>1. /\ phase[t] = "converting" /\ Leaves(t, "TypeError") /\ UNCHANGED <<ledger, trx>>
      /\ ledger = start
  BY DEF ConvertRaises, Converting, RInv, IInv, CallInv
<1>2. request[t].method \in {"exec", "query"}
  BY DEF ConvertRaises, Converting, RInv, StageInv, Stage
<1>3. ~Serial!AllConvertible(request[t])
  <2>1. index[t] \in 1..Len(request[t].items)
    BY DEF ConvertRaises, Converting, RInv, IInv, TypeOK, Request
  <2>. QED
    BY <2>1, SameRequests DEF ConvertRaises, Item, Serial!AllConvertible
<1>4. /\ request' = [request EXCEPT ![t] = Serial!NoRequest]
      /\ outcome' = [by |-> t, publish |-> request[t].publish, result |-> "TypeError"]
      /\ Shown' = Shown
  BY <1>1, RefineLeave
<1>. QED
  BY <1>1, <1>2, <1>3, <1>4 DEF Serial!RaisesTypeError, Serial!Ends, Shown

\* wait() returned or threw: what became of the ledger is in the answer.
LEMMA RefineReturns ==
    ASSUME RInv, NEW t \in Thread, WaitReturns(t)
    PROVE  Serial!Build(t) \/ Serial!Query(t) \/ Serial!Broadcast(t)
<1>. DEFINE result == IF pyerr[t] THEN "SystemError" ELSE "ok"
<1>1. Waiting(t) /\ Leaves(t, result) /\ ledger' = ledger
  BY DEF WaitReturns
<1>2. /\ Shown = start /\ Shown' = ledger
      /\ request' = [request EXCEPT ![t] = Serial!NoRequest]
      /\ outcome' = [by |-> t, publish |-> request[t].publish, result |-> result]
  BY <1>1, RefineLeave DEF Waiting
<1>3. ledger = Shipped(t)
  BY <1>1 DEF WaitReturns, RInv, WorkInv, Work
<1>4. Stage(t) /\ phase[t] # "python"
  BY <1>1 DEF RInv, StageInv, Waiting
<1>5. CASE request[t].method = "exec"
  <2>1. /\ Tx(t) = Serial!Signed(request[t].items) /\ Tx(t).items = request[t].items
        /\ pyerr[t] <=> Serial!SomeReplaced(request[t].items)
    BY <1>1, <1>5, PostedTx DEF Tx
  <2>2. Serial!AllConvertible(request[t])
    BY <1>1, <1>5, Converted
  <2>3. trx' = IF pyerr[t] THEN trx ELSE [trx EXCEPT ![t] = Tx(t)]
    BY <1>5 DEF WaitReturns, Tx
  <2>4. Shown' = IF request[t].publish THEN Append(Shown, Tx(t)) ELSE Shown
    BY <1>2, <1>3 DEF Shipped
  <2>. QED
    BY <1>2, <1>5, <2>1, <2>2, <2>3, <2>4 DEF Serial!Build, Serial!Ends, Serial!Published, Shown
<1>6. CASE request[t].method = "query"
  <2>1. ~request[t].publish /\ ~pyerr[t]
    BY <1>4, <1>6 DEF Stage
  <2>2. Shown' = Shown /\ trx' = trx
    BY <1>2, <1>3, <1>6, <2>1 DEF Shipped, WaitReturns
  <2>3. Serial!AllConvertible(request[t])
    BY <1>1, <1>6, Converted
  <2>. QED
    BY <1>2, <1>6, <2>1, <2>2, <2>3 DEF Serial!Query, Serial!Ends, Shown
<1>7. CASE request[t].method = "broadcast"
  <2>1. request[t].publish /\ ~pyerr[t] /\ trx[t] = Tx(t)
    BY <1>4, <1>7 DEF Stage
  <2>2. Shown' = Append(Shown, trx[t]) /\ trx' = trx
    BY <1>2, <1>3, <1>7, <2>1 DEF Shipped, WaitReturns
  <2>. QED
    BY <1>2, <1>7, <2>1, <2>2 DEF Serial!Broadcast, Serial!Ends, Shown
<1>. QED
  BY <1>4, <1>5, <1>6, <1>7 DEF Stage

LEMMA RefineThrows ==
    ASSUME RInv, NEW t \in Thread, WaitThrows(t)
    PROVE  Serial!BuildFails(t) \/ Serial!Query(t) \/ Serial!Broadcast(t)
<1>1. Waiting(t) /\ Leaves(t, "dcore.Exception") /\ ledger' = ledger /\ trx' = trx
  BY DEF WaitThrows
<1>2. /\ Shown = start /\ Shown' = ledger
      /\ request' = [request EXCEPT ![t] = Serial!NoRequest]
      /\ outcome' = [by |-> t, publish |-> request[t].publish, result |-> "dcore.Exception"]
  BY <1>1, RefineLeave DEF Waiting
<1>3. ledger \in {start, Shipped(t)}
  BY <1>1 DEF WaitThrows, RInv, WorkInv, Work
<1>4. Stage(t) /\ phase[t] # "python"
  BY <1>1 DEF RInv, StageInv, Waiting
<1>5. CASE request[t].method = "exec"
  <2>1. Tx(t) = Serial!Signed(request[t].items) /\ Serial!AllConvertible(request[t])
    BY <1>1, <1>5, PostedTx, Converted
  <2>2. Shown' \in {Shown, IF request[t].publish THEN Append(Shown, Tx(t)) ELSE Shown}
    BY <1>2, <1>3 DEF Shipped
  <2>. QED
    BY <1>1, <1>2, <1>5, <2>1, <2>2 DEF Serial!BuildFails, Serial!Ends, Serial!Published, Shown
<1>6. CASE request[t].method = "query"
  <2>1. Shown' = Shown
    BY <1>2, <1>3, <1>4, <1>6 DEF Shipped, Stage
  <2>2. Serial!AllConvertible(request[t])
    BY <1>1, <1>6, Converted
  <2>. QED
    BY <1>1, <1>2, <1>6, <2>1, <2>2 DEF Serial!Query, Serial!Ends, Shown
<1>7. CASE request[t].method = "broadcast"
  <2>1. Shown' \in {Shown, Append(Shown, trx[t])}
    BY <1>2, <1>3, <1>4, <1>7 DEF Shipped, Stage
  <2>. QED
    BY <1>1, <1>2, <1>7, <2>1 DEF Serial!Broadcast, Serial!Ends, Shown
<1>. QED
  BY <1>4, <1>5, <1>6, <1>7 DEF Stage

LEMMA RefineStep == ASSUME RInv, Next PROVE [Serial!Next]_(Serial!serialVars)
<1>1. ASSUME NEW t \in Thread, TakeGil(t) \/ DropGil(t) PROVE UNCHANGED Serial!serialVars
  BY <1>1 DEF TakeGil, DropGil, callVars, Serial!serialVars, Idle
<1>2. ASSUME NEW t \in Thread, NEW items \in ItemLists, NEW publish \in BOOLEAN,
             CallQuery(t, items) \/ CallExec(t, items, publish)
      PROVE  Serial!Next
  <2>1. CASE CallQuery(t, items)
    <3>1. Serial!Call(t, [method |-> "query", items |-> items, publish |-> FALSE])
      BY <2>1, RefineCall DEF CallQuery
    <3>. QED
      BY <3>1, SameRequests DEF Serial!Calls, Serial!Next
  <2>2. CASE CallExec(t, items, publish)
    <3>1. Serial!Call(t, [method |-> "exec", items |-> items, publish |-> publish])
      BY <2>2, RefineCall DEF CallExec
    <3>. QED
      BY <3>1, SameRequests DEF Serial!Calls, Serial!Next
  <2>. QED
    BY <1>2, <2>1, <2>2
<1>3. ASSUME NEW t \in Thread, CallBroadcast(t) PROVE Serial!Next
  <2>1. Serial!Call(t, [method |-> "broadcast", items |-> trx[t].items, publish |-> TRUE])
    BY <1>3, RefineCall DEF CallBroadcast
  <2>2. trx[t] # Nil
    BY <1>3 DEF CallBroadcast
  <2>. QED
    BY <2>1, <2>2 DEF Serial!Calls, Serial!Next
<1>4. ASSUME NEW t \in Thread, ConvertItem(t) PROVE UNCHANGED Serial!serialVars
  BY <1>4 DEF ConvertItem, Serial!serialVars, Idle
<1>5. ASSUME NEW t \in Thread, Post(t) PROVE UNCHANGED Serial!serialVars
  <2>1. ~Idle /\ ~Idle'
    BY <1>5 DEF Post, Idle, RInv, IInv, TypeOK
  <2>. QED
    BY <1>5, <2>1 DEF Post, callVars, Serial!serialVars
<1>6. ASSUME NEW t \in Thread, ConvertRaises(t) \/ WaitReturns(t) \/ WaitThrows(t) PROVE Serial!Next
  BY <1>6, RefineRaises, RefineReturns, RefineThrows DEF Serial!Next
<1>7. CASE Worker
  <2>1. tasks \in Seq(Task) /\ tasks # <<>> /\ Len(tasks) <= 1
    BY <1>7 DEF Worker, NodeTakes, WorkerAnswers, WorkerDone, WorkerFails, RInv, IInv, TypeOK,
                OneCallAtATime, Task
  <2>2. Head(tasks) \in Task
    BY <2>1, SingleTask
  <2>3. Head(tasks).by \in Thread /\ phase[Head(tasks).by] = "waiting"
    BY <2>1, <2>2 DEF RInv, IInv, OneCallAtATime, Waiting, Task
  <2>4. UNCHANGED <<phase, request, trx, outcome, start>>
    BY <1>7 DEF Worker, NodeTakes, WorkerAnswers, WorkerFails, Answers, callVars
  <2>5. ~Idle /\ ~Idle'
    BY <2>3, <2>4 DEF Idle
  <2>. QED
    BY <2>4, <2>5 DEF Serial!serialVars
<1>. QED
  BY <1>1, <1>2, <1>3, <1>4, <1>5, <1>6, <1>7 DEF Next, InMethod

\* Seen from Python a Wallet call is one step, which ends in one of the ways, and with
\* one of the effects, stated in SerialWallet (module.cpp:12-23, 92-217).
THEOREM Implements == Spec => RefinesSerialWallet
<1>1. Init => Serial!Init
  BY SameRequests DEF Init, Serial!Init, Idle
<1>2. RInv /\ [Next]_vars => [Serial!Next]_(Serial!serialVars)
  <2>. SUFFICES ASSUME RInv, [Next]_vars PROVE [Serial!Next]_(Serial!serialVars)
    OBVIOUS
  <2>1. CASE UNCHANGED vars
    BY <2>1 DEF vars, callVars, Serial!serialVars, Idle
  <2>. QED
    BY <2>1, RefineStep
<1>. QED
  BY <1>1, <1>2, RInvariant, PTL DEF Spec, RefinesSerialWallet
=============================================================================
