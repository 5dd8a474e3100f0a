------------------------- MODULE TokenBrowserProofs -------------------------
(***************************************************************************)
(* Theorems about TokenBrowser, for any accounts, any tokens and summaries *)
(* of any length.  RowsOfOneLoad is inductive together with what holds     *)
(* between the reset of the table and the answer to the summary (no rows,  *)
(* and no answer of an earlier load) and while a load goes on (its account *)
(* is the one that the combo box shows).                                   *)
(***************************************************************************)
EXTENDS TokenBrowser, SequenceTheorems, TLAPS

LEMMA SummaryIsSeq ==
    ASSUME NEW s \in Summary
    PROVE  /\ s \in Seq(Token) /\ Len(s) \in 0..MaxTokens /\ IsInjective(s)
           /\ s \in [1..Len(s) -> Token]
<1>1. PICK n \in 0..MaxTokens : s \in [1..n -> Token]
  BY DEF Summary
<1>2. n \in Nat
  BY <1>1, BrowserAssumption
<1>3. s \in Seq(Token)
  BY <1>1, <1>2, SeqDef
<1>4. Len(s) = n
  BY <1>1, <1>2, <1>3
<1>. QED
  BY <1>1, <1>3, <1>4 DEF Summary

LEMMA SeqIsSummary ==
    ASSUME NEW n \in 0..MaxTokens, NEW s \in [1..n -> Token], IsInjective(s)
    PROVE  s \in Summary
  BY DEF Summary

LEMMA EmptyIsSummary == <<>> \in Summary
<1>1. <<>> \in [1..0 -> Token]
  OBVIOUS
<1>2. IsInjective(<<>>)
  BY DEF IsInjective
<1>. QED
  BY <1>1, <1>2, BrowserAssumption DEF Summary

\* A prefix is told item by item.
LEMMA PrefixByItem ==
    ASSUME NEW s \in Seq(Token), NEW t \in Seq(Token)
    PROVE  IsPrefix(s, t) <=> Len(s) <= Len(t) /\ \A i \in 1..Len(s) : s[i] = t[i]
<1>. DEFINE n == Len(s)
<1>1. n \in Nat /\ Len(t) \in Nat /\ s \in [1..n -> Token]
  BY LenProperties
<1>2. ASSUME n <= Len(t) PROVE SubSeq(s, 1, n) = SubSeq(t, 1, n) <=> \A i \in 1..n : s[i] = t[i]
  <2>1. SubSeq(s, 1, n) = [i \in 1..n |-> s[i]]
    BY <1>1
  <2>2. SubSeq(t, 1, n) = [i \in 1..n |-> t[i]]
    BY <1>1, <1>2
  <2>. QED
    BY <2>1, <2>2
<1>. QED
  BY <1>2 DEF IsPrefix

LEMMA EmptyIsPrefix ==
    ASSUME NEW e, e = <<>>, NEW s \in Seq(Token)
    PROVE  IsPrefix(e, s)
<1>1. Len(e) = 0 /\ Len(e) <= Len(s)
  OBVIOUS
<1>2. SubSeq(e, 1, 0) = <<>> /\ SubSeq(s, 1, 0) = <<>>
  OBVIOUS
<1>. QED
  BY <1>1, <1>2 DEF IsPrefix

\* One more row of the answer leaves the rows a prefix of it, without a repetition.
LEMMA RowAdded ==
    ASSUME NEW r \in Summary, NEW s \in Summary, IsPrefix(r, s), r # s
    PROVE  /\ Len(r) < Len(s)
           /\ Append(r, s[Len(r) + 1]) \in Summary
           /\ Len(Append(r, s[Len(r) + 1])) = Len(r) + 1
           /\ IsPrefix(Append(r, s[Len(r) + 1]), s)
           /\ Len(r) + 1 = Len(s) => Append(r, s[Len(r) + 1]) = s
           /\ ToSet(r) \subseteq ToSet(Append(r, s[Len(r) + 1]))
<1>. DEFINE n == Len(r)
            e == Append(r, s[n + 1])
<1>1. /\ r \in Seq(Token) /\ s \in Seq(Token)
      /\ r \in [1..n -> Token] /\ s \in [1..Len(s) -> Token]
      /\ n \in Nat /\ Len(s) \in Nat /\ Len(s) <= MaxTokens
      /\ IsInjective(r) /\ IsInjective(s)
  BY SummaryIsSeq, BrowserAssumption
<1>2. n <= Len(s) /\ \A i \in 1..n : r[i] = s[i]
  BY <1>1, PrefixByItem
<1>3. n < Len(s)
  BY <1>1, <1>2
<1>4. /\ e \in Seq(Token) /\ Len(e) = n + 1 /\ e[n + 1] = s[n + 1]
      /\ \A i \in 1..n : e[i] = r[i]
  BY <1>1, <1>3
<1>. HIDE DEF e
<1>5. \A i \in 1..n + 1 : e[i] = s[i]
  <2>1. \A i \in 1..n + 1 : i \in 1..n \/ i = n + 1
    BY <1>1
  <2>. QED
    BY <1>2, <1>4, <2>1
<1>6. IsPrefix(e, s)
  BY <1>1, <1>3, <1>4, <1>5, PrefixByItem
<1>7. e \in [1..n + 1 -> Token]
  BY <1>4, LenProperties
<1>8. IsInjective(e)
  <2>1. ASSUME NEW a \in 1..n + 1, NEW b \in 1..n + 1, e[a] = e[b] PROVE a = b
    <3>1. a \in 1..Len(s) /\ b \in 1..Len(s)
      BY <1>1, <1>3
    <3>. QED
      BY <1>1, <1>5, <2>1, <3>1 DEF IsInjective
  <2>. QED
    BY <1>7, <2>1 DEF IsInjective
<1>9. e \in Summary
  <2>1. n + 1 \in 0..MaxTokens
    BY <1>1, <1>3, BrowserAssumption
  <2>. QED
    BY <1>7, <1>8, <2>1, SeqIsSummary
<1>10. n + 1 = Len(s) => e = s
  <2>. SUFFICES ASSUME n + 1 = Len(s) PROVE e = s
    OBVIOUS
  <2>1. s \in [1..n + 1 -> Token]
    BY <1>1
  <2>. QED
    BY <1>5, <1>7, <2>1
<1>11. ToSet(r) \subseteq ToSet(e)
  BY <1>1, <1>4, <1>7 DEF ToSet
<1>. QED
  BY <1>3, <1>4, <1>6, <1>9, <1>10, <1>11 DEF e

-----------------------------------------------------------------------------
\* Between the reset of the table and the answer there is nothing of a load.
NothingYet == pc = "summary" => rows = <<>> /\ answer = Nil

\* While a load goes on the combo box shows its account, and its loop has an answer.
OfTheName ==
    /\ pc # "idle" => text = shown
    /\ pc = "token" => answer # Nil

IInv == TypeOK /\ RowsOfOneLoad /\ NothingYet /\ OfTheName

LEMMA InvInit == Init => IInv
<1>. SUFFICES ASSUME Init PROVE IInv
  OBVIOUS
<1>. USE EmptyIsSummary DEF Init, IInv, TypeOK, RowsOfOneLoad, NothingYet, OfTheName
<1>1. CASE text = Nil /\ shown = Nil /\ pc = "idle"
  BY <1>1
<1>2. CASE text \in Account /\ shown = text /\ pc = "summary"
  BY <1>2
<1>. QED
  BY <1>1, <1>2

LEMMA InvStep == IInv /\ [Next]_vars => IInv'
<1>. SUFFICES ASSUME IInv, [Next]_vars PROVE IInv'
  OBVIOUS
<1>. USE DEF IInv, TypeOK, RowsOfOneLoad, NothingYet, OfTheName
<1>1. ASSUME NEW account \in Account, Pick(account) PROVE IInv'
  BY <1>1, EmptyIsSummary DEF Pick, ClearTokens
<1>2. ASSUME NEW account \in Account, Edit(account) PROVE IInv'
  BY <1>2 DEF Edit
<1>3. CASE LookUpFinds
  BY <1>3, EmptyIsSummary DEF LookUpFinds, ClearTokens
<1>4. CASE LookUpFails
  BY <1>4 DEF LookUpFails
<1>5. ASSUME NEW summary \in Summary, GetSummary(summary) PROVE IInv'
  <2>1. rows = <<>> /\ rows' = <<>> /\ answer' = summary /\ info' = Nil /\ answer' # Nil
    BY <1>5, BrowserAssumption DEF GetSummary, ToSet
  <2>2. IsPrefix(rows', answer')
    BY <2>1, SummaryIsSeq, EmptyIsPrefix
  <2>. QED
    BY <1>5, <2>1, <2>2 DEF GetSummary
<1>6. ASSUME NEW i \in 1..MaxTokens, SelectRow(i) PROVE IInv'
  <2>1. rows \in [1..Len(rows) -> Token]
    BY SummaryIsSeq
  <2>2. rows[i] \in Token /\ rows[i] \in ToSet(rows)
    BY <1>6, <2>1 DEF SelectRow, ToSet
  <2>. QED
    BY <1>6, <2>2 DEF SelectRow
<1>7. CASE AddToken
  <2>1. answer \in Summary /\ IsPrefix(rows, answer) /\ rows # answer
    BY <1>7 DEF AddToken
  <2>2. rows' = Append(rows, answer[Len(rows) + 1]) /\ answer' = answer
    BY <1>7 DEF AddToken
  <2>3. /\ rows' \in Summary /\ IsPrefix(rows', answer') /\ ToSet(rows) \subseteq ToSet(rows')
    BY <2>1, <2>2, RowAdded
  <2>4. pc' \in {"idle", "token"} /\ (pc' = "token" => Len(rows') # Len(answer'))
    BY <1>7 DEF AddToken
  <2>. QED
    BY <1>7, <2>1, <2>3, <2>4 DEF AddToken
<1>8. CASE Raises
  BY <1>8 DEF Raises
<1>9. CASE MessageExpires
  BY <1>9 DEF MessageExpires
<1>10. CASE UNCHANGED vars
  BY <1>10 DEF vars
<1>. QED
  BY <1>1, <1>2, <1>3, <1>4, <1>5, <1>6, <1>7, <1>8, <1>9, <1>10 DEF Next

\* The state of the window is of its type, for any accounts and tokens.
THEOREM TypeCorrect == Spec => []TypeOK
<1>1. IInv => TypeOK
  BY DEF IInv
<1>. QED
  BY InvInit, InvStep, <1>1, PTL DEF Spec

\* The table never mixes two loads (tests/nft.py:96-116).
THEOREM RowsOfOneLoadCorrect == Spec => []RowsOfOneLoad
<1>1. IInv => RowsOfOneLoad
  BY DEF IInv
<1>. QED
  BY InvInit, InvStep, <1>1, PTL DEF Spec

\* The rows change only while the combo box shows the account they belong to, although
\* its text may be edited at any time between two slots (tests/nft.py:57, 63, 104-116).
THEOREM FilledUnderItsNameCorrect == Spec => FilledUnderItsName
<1>1. IInv /\ [Next]_vars => [rows' # rows => text' = shown']_vars
  <2>. SUFFICES ASSUME IInv, Next, rows' # rows PROVE text' = shown'
    OBVIOUS
  <2>1. ASSUME NEW account \in Account, Pick(account) PROVE text' = shown'
    BY <2>1 DEF Pick, ClearTokens
  <2>2. CASE LookUpFinds
    BY <2>2 DEF LookUpFinds, ClearTokens
  <2>3. CASE AddToken
    BY <2>3 DEF AddToken, IInv, OfTheName
  <2>. QED
    BY <2>1, <2>2, <2>3
       DEF Next, Edit, LookUpFails, GetSummary, SelectRow, Raises, MessageExpires
<1>. QED
  BY InvInit, InvStep, <1>1, PTL DEF Spec, FilledUnderItsName

\* A load that ends short, or without an answer, ends with a message
\* (tests/nft.py:111-116).
THEOREM ShortLoadCorrect == Spec => ShortLoadIsTold
<1>1. IInv /\ [Next]_vars => [(pc # "idle" /\ pc' = "idle" /\ rows' # answer') => message']_vars
  <2>. SUFFICES ASSUME IInv, Next, pc # "idle", pc' = "idle", rows' # answer' PROVE message'
    OBVIOUS
  <2>. USE DEF IInv, TypeOK, RowsOfOneLoad, NothingYet, OfTheName
  <2>1. ASSUME NEW account \in Account, Pick(account) \/ Edit(account) PROVE FALSE
    BY <2>1 DEF Pick, Edit
  <2>2. CASE LookUpFinds \/ LookUpFails
    BY <2>2 DEF LookUpFinds, LookUpFails
  <2>3. ASSUME NEW summary \in Summary, GetSummary(summary) PROVE FALSE
    BY <2>3 DEF GetSummary
  <2>4. ASSUME NEW i \in 1..MaxTokens, SelectRow(i) PROVE FALSE
    BY <2>4 DEF SelectRow
  <2>5. CASE AddToken
    <3>1. answer \in Summary /\ IsPrefix(rows, answer) /\ rows # answer
      BY <2>5 DEF AddToken
    <3>2. rows' = Append(rows, answer[Len(rows) + 1]) /\ answer' = answer /\ Len(rows') = Len(answer)
      BY <2>5 DEF AddToken
    <3>. QED
      BY <3>1, <3>2, RowAdded
  <2>6. CASE Raises
    BY <2>6 DEF Raises
  <2>7. CASE MessageExpires
    BY <2>7 DEF MessageExpires
  <2>. QED
    BY <2>1, <2>2, <2>3, <2>4, <2>5, <2>6, <2>7 DEF Next
<1>. QED
  BY InvInit, InvStep, <1>1, PTL DEF Spec, ShortLoadIsTold
=============================================================================
