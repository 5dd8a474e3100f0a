---------------------------- MODULE TokenBrowser ----------------------------
(***************************************************************************)
(* The main window of tests/nft.py: an account is picked, or its name is   *)
(* edited and then looked up, its tokens are loaded row by row, and the    *)
(* token of the current row is shown next to the table.  Every wallet call *)
(* may raise dcore.Exception, and what the chain answers may differ from   *)
(* call to call.  The window runs on one thread: a slot runs to its end    *)
(* before the next event, and so before the next keystroke.                *)
(***************************************************************************)
EXTENDS Integers, Sequences, SequencesExt

CONSTANTS Account,  \* the names of accounts: the combo box lists them, and they can be typed
          Token,    \* the tokens
          Nil,      \* nothing: no account, no token
          MaxTokens \* bound: tokens of an account

VARIABLES text,     \* the name that the combo box shows
          rows,     \* TokenSummaryModel.tokens
          info,     \* what the label shows: the token of a row, or Nil
          message,  \* whether the status bar shows an error
          pc,       \* "idle", or how far load_summary is: "summary", "token"
          shown,    \* history: the account of the load that filled the table
          answer    \* history: the summary that load was given, or Nil

vars == <<text, rows, info, message, pc, shown, answer>>

Summary == {s \in UNION {[1..n -> Token] : n \in 0..MaxTokens} : IsInjective(s)}

ASSUME BrowserAssumption == MaxTokens \in Nat /\ Nil \notin Token /\ Nil \notin Summary

TypeOK ==
    /\ text \in Account \cup {Nil}
    /\ rows \in Summary /\ answer \in Summary \cup {Nil}
    /\ info \in Token \cup {Nil}
    /\ message \in BOOLEAN
    /\ pc \in {"idle", "summary", "token"}
    /\ shown \in Account \cup {Nil}

\* The constructor loads the first account of the wallet, if it has one (the first row
\* is selected afterwards: SelectRow).
Init ==
    /\ rows = <<>> /\ info = Nil /\ message = FALSE /\ answer = Nil
    /\ \/ text = Nil /\ shown = Nil /\ pc = "idle"
       \/ text \in Account /\ shown = text /\ pc = "summary"

-----------------------------------------------------------------------------
\* Mutant: the rows go, and the current row is not told.
ClearTokensOnly(account) ==
    /\ rows' = <<>> /\ pc' = "summary"
    /\ shown' = account /\ answer' = Nil
    /\ UNCHANGED info

\* clear_tokens: Qt takes the current row away, and load_info(-1) clears the label.
ClearTokens(account) ==
    /\ rows' = <<>> /\ info' = Nil /\ pc' = "summary"
    /\ shown' = account /\ answer' = Nil

\* activated: the item carries the account's id.
Pick(account) ==
    /\ pc = "idle"
    /\ text' = account
    /\ ClearTokens(account)
    /\ UNCHANGED message

\* Mutant: events are processed while a load goes on.
EditAnytime(account) ==
    /\ text' = account
    /\ UNCHANGED <<rows, info, message, pc, shown, answer>>

\* The combo box is editable: a keystroke changes the name, and no slot is connected.
Edit(account) ==
    /\ pc = "idle"
    /\ text' = account
    /\ UNCHANGED <<rows, info, message, pc, shown, answer>>

\* editingFinished: get_account_id finds the account of the name ...
LookUpFinds ==
    /\ pc = "idle" /\ text # Nil
    /\ ClearTokens(text)
    /\ UNCHANGED <<text, message>>

\* ... or it does not exist ("Account does not exist."), or get_account raises out of
\* the slot: the table is left alone.
LookUpFails ==
    /\ pc = "idle"
    /\ message' \in {message, TRUE}
    /\ UNCHANGED <<text, rows, info, pc, shown, answer>>

GetSummary(summary) ==
    /\ pc = "summary"
    /\ answer' = summary
    /\ pc' = IF summary = <<>> THEN "idle" ELSE "token"
    /\ UNCHANGED <<text, rows, info, message, shown>>

\* Mutant: the first token of the answer every time.
AddTokenFirst ==
    /\ pc = "token"
    /\ rows' = Append(rows, answer[1])
    /\ pc' = IF Len(rows') = Len(answer) THEN "idle" ELSE "token"
    /\ UNCHANGED <<text, info, message, shown, answer>>

\* One iteration of the loop: get_non_fungible_tokens, add_token.
AddToken ==
    /\ pc = "token"
    /\ rows' = Append(rows, answer[Len(rows) + 1])
    /\ pc' = IF Len(rows') = Len(answer) THEN "idle" ELSE "token"
    /\ UNCHANGED <<text, info, message, shown, answer>>

\* Mutant: the exception is dropped.
RaisesSilently ==
    /\ pc # "idle"
    /\ pc' = "idle"
    /\ UNCHANGED <<text, rows, info, message, shown, answer>>

\* except DCore.Exception: the rows that were added stay.
Raises ==
    /\ pc # "idle"
    /\ pc' = "idle" /\ message' = TRUE
    /\ UNCHANGED <<text, rows, info, shown, answer>>

\* showMessage(..., 5000)
MessageExpires ==
    /\ pc = "idle" /\ message /\ message' = FALSE
    /\ UNCHANGED <<text, rows, info, pc, shown, answer>>

\* currentRowChanged: load_info, which may raise and leave the label alone.
SelectRow(i) ==
    /\ pc = "idle" /\ i \in 1..Len(rows)
    /\ info' \in {info, rows[i]}
    /\ UNCHANGED <<text, rows, message, pc, shown, answer>>

Next ==
    \/ \E account \in Account : Pick(account) \/ Edit(account)
    \/ LookUpFinds \/ LookUpFails
    \/ \E summary \in Summary : GetSummary(summary)
    \/ \E i \in 1..MaxTokens : SelectRow(i)
    \/ AddToken \/ Raises \/ MessageExpires

Spec == Init /\ [][Next]_vars

-----------------------------------------------------------------------------
\* The table never mixes two loads: whatever is picked, typed and raised, its rows are
\* a prefix of one answer to one account's summary, and the label shows a token of
\* one of them (tests/nft.py:96-116).
RowsOfOneLoad ==
    /\ IF answer = Nil THEN rows = <<>> ELSE IsPrefix(rows, answer)
    /\ pc = "token" => rows # answer
    /\ info # Nil => info \in ToSet(rows)

\* The rows change only while the combo box shows the account they belong to.  Between
\* a keystroke and the look-up, and after one that failed, an old table stands under
\* another name; but it stays as it is, and no row is added to it under a name it is
\* not of (tests/nft.py:57, 63, 104-116).
FilledUnderItsName == [][rows' # rows => text' = shown']_vars

\* A load that ends before its last row, or without an answer, ends with a message;
\* nothing in the table says so, and the message goes after five seconds
\* (tests/nft.py:111-116).
ShortLoadIsTold == [][(pc # "idle" /\ pc' = "idle" /\ rows' # answer') => message']_vars
=============================================================================
