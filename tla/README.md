# DCore-Python, verified

DCore-Python binds the C++ client library of the DCore blockchain to Python with
Boost.Python. This directory holds TLA+ models of the binding, the TLC runs that check
them and the TLAPS proofs about them. `src/` below is the root of the repository.

## 1. The system

| component | code | state | operations | what makes it correct |
|---|---|---|---|---|
| Container properties | `src/src/module.hpp:27-86`, bound in `account.cpp`, `operation.cpp`, `common.cpp` | the vectors, flat sets and flat maps inside a bound object | `decode_list`, `decode_set`, `decode_dict`, and the `encode_*` getters | what was assigned is what is read back; an exception in the middle leaves a known state; the caller is told what happened |
| Value converters | `src/src/common.cpp:91-159`, `operation.cpp:48-76` | none | Python value to `fc::variant` and back | a value comes back as it went in, or the caller is told |
| Wallet methods | `src/src/module.cpp:12-62, 92-217, 322-419` | the call in progress, the worker's tasks, what the node took | convert the lists, `exec` / `query` / `broadcast`, `wait()`, convert the result | calls are atomic for Python, a rejected argument publishes nothing, calls end |
| Bound objects | `src/src/operation.cpp`, `common.cpp:271-308, 353-366`, `chain.cpp`, `module.hpp:87-131` | C++ objects and the Python references to them | construct, read and assign attributes, `set_fee`, `set_reference_block`, `sign` | no view dangles, writes reach what they should and nothing else |
| Authorities | `account.cpp:8-20`, `module.hpp:50-70`, `common.cpp:27-41` | signers and their weights, and the dicts a program reads them into | read, edit, assign back | the weight a program put is the weight that counts; nobody loses his right to sign unnoticed |
| Message payload, proposals | `src/src/operation.cpp:7-46, 261-303, 388-421` | `Custom.id`, `data`; nested operations | property access | the payload read is the payload written; a variant gives back what it was made from |
| Account dump | `src/src/__init__.py:19-21` | the names being walked | a count, a lookup, one balance query per account | who is left out and why; each line recent; exact if the chain stood still |
| Token browser | `src/tests/nft.py` | the rows of a Qt table, the token beside it, the account in the combo box | pick, edit the name, look it up, load, select | rows shown are of one load, change only under the name they belong to, and are complete unless a message says otherwise |
| Keys, hashes | `src/src/common.cpp:20-72, 192-228` | none | calls into the DCore submodule | (external) |
| Module initialisation | `src/src/module.cpp:225-320`, `__init__.py:1-17` | the class registry | registrations, in a fixed order | (straight-line code) |
| Build and packaging | `CMakeLists.txt`, `.travis.yml`, `appveyor.yml` | none | none | (no run-time behaviour) |

How they interact. A Python program builds operations from bound objects, puts them into
a `SignedTransaction` through a container property, signs it and hands it to a `Wallet`;
or it calls a `Wallet` method that builds the transaction itself from a list of Python
values, which pass the variant converter. A `Wallet` method posts a task to the worker
thread of `WalletAPI`, which talks to a node, and waits for its future with the GIL held.
`fc::exception` crosses back as `dcore.Exception` (`common.cpp:13-18`), a failed
conversion as `TypeError`.

What is hard. The setters are loops that can throw in the middle and do not undo; sets and
maps are extended, never replaced. Some attributes are views and some are copies, by which
template binds them. A converter can leave an error set in the interpreter without
raising. Several Python threads, a worker thread and a node take part in one call, and
the answer of the node may be lost. `PROJECT.json` lists each hazard at its line.

## 2. The models

| module | models | instance or proofs |
|---|---|---|
| `Containers` | what the loops compute, as pure operators | extended by `PropertyStore`, `PropertyCodec`, `AuthorityEdit` |
| `ListItems` | what a list property is given, and the ints that leave an error set | extended by the next two |
| `PropertyStore` | abstract: an assignment to a container property is called, then made in one step | implemented by `PropertyCodec` |
| `PropertyCodec` | the loops of `module.hpp:36-86`, one action per iteration, return and exception | `PropertyCodecProofs` |
| `VariantCodec` | `variant_converter`, as operators | proved about in `WalletCallsProofs` |
| `WalletRequests` | what a `Wallet` method is asked to do | extended by the next two |
| `SerialWallet` | abstract: a `Wallet` method is called, then ends in one step in one of four ways | implemented by `WalletCalls` |
| `WalletCalls` | a `Wallet` call of several Python threads, the worker and the node | `MCWalletCalls`, `WalletCallsProofs` |
| `BoundClasses`, `OperationClasses` | every class of the binding, every attribute and how it is bound; the static variants | gathered by `ClassTable` |
| `ClassTable` | what lies where in an object, the bases, the alternatives | parameters of `ObjectModel` in `MCObjectModel` |
| `ObjectModel` | the bound objects and the variables of a Python program, for any table of classes | `MCObjectModel`; `ObjectModelProofs`, `TransactionProofs` |
| `AuthorityEdit` | dicts of an authority's signers, held by several parts of a program | extends `Containers`; `AuthorityEditProofs` |
| `AccountDump` | `dump_accounts_balances` against a chain that moves on | `AccountDumpProofs` |
| `TokenBrowser` | the main window of `tests/nft.py` | `TokenBrowserProofs` |
| `SumTheorems` | no code: what `SumFunctionOnSet` computes, for the sums in `AccountDump` and `AuthorityEdit` | extended by `AccountDumpProofs`, `AuthorityEditProofs` |

`WalletCalls` composes with `VariantCodec` (it converts its items with it); `PropertyCodec`,
`PropertyStore` and `AuthorityEdit` share `Containers`, the first two `ListItems`; `MCObjectModel` composes `ObjectModel` with
the table of classes.

**PropertyCodec.** `listField`, `setField`, `dictField` are one property of each kind of one
object. `CallDecode*` is the code before the loop (`resize` for a list, nothing for the
other two), `Decode*Item` an iteration, `Decode*Raises` the exception that
`bp::extract<...>()` throws, `Return` the loop at zero. `len` is the loop counter, counted
down as in the code. `before` is history: the fields when the setter was called. An item
of an argument is the C++ value it converts to, or `Bad`; a dict is the sequence of its
items, and two items may have one C++ key, because the id classes define `__hash__` and
no `__eq__` (`common.cpp:31-41`). `container[key] = v()` with a `v()` that throws leaves
the key default-inserted or not: C++14 does not sequence the operands.
`decode_proposed_operations` (`operation.cpp:15-23`) is the same loop as `decode_list`.

An assignment ends in one of three ways. The third, besides success and an exception at an item, is that of a list of
variants (`operation.cpp:741-743`, `nft.cpp:64-66`) with an int beyond 64 bits: `construct` replaces it and returns with
`OverflowError` set (`common.cpp:147-148`, `Huge` in `ListItems`), the loop goes on over it (`pyerr`), and the interpreter
raises `SystemError` when `Return` has left the whole list assigned. If a bad item follows in the loop its `TypeError`
takes the place of the error. The list of pairs (`operation.cpp:765-767`) holds pairs that were converted before, so it has
no such ending, and neither have sets and dicts, whose items are ids, keys and numbers.

**VariantCodec.** Integers keep their ranges, with `Half` for 2^63: an int that is in neither
range becomes the largest `uint64`, and `LeavesError` says that `OverflowError` is left
set. A str is cut at its first NUL.

**WalletCalls.** `CallExec`, `CallQuery` and `CallBroadcast` are the three forms of methods. The
list argument is converted (`ConvertItem`, `ConvertRaises`) before `Post` hands the task to
the worker; then `Waiting` until `WaitReturns` or `WaitThrows`. `TakeGil` and `DropGil` are the
interpreter: it switches threads between calls only, since the binding never releases the
GIL. `NodeTakes`, `WorkerAnswers` and `WorkerFails` are external, modelled from how
`module.cpp` uses `WalletAPI`: a failure may come before or after the node took the
transaction. A result returned while an error is set becomes `SystemError`.

**The class tables.** `BoundClasses` and `OperationClasses` list, class by class in the order of
the sources, how each attribute is bound: as a view (`part`), as a copy (`optional`,
`ref`, `list`), as a value, as bytes, or not readable at all. `Readers` and `Variants` are the properties and
constructors of `Operation`, `Predicate`, `Policy`, `VestingPolicy`. `ClassTable` flattens parts: leaf
`<<"amount", "asset_id">>` of a `Transfer` is the `asset_id` of its `Balance`. Classes without attributes of
their own (ids, keys, hashes) are one opaque leaf.

**ObjectModel.** The class table is a parameter. The assumptions about it (`LeafAssumption` to
`CustomAssumption`) say what every C++ layout satisfies, and of a few classes what the sources
declare (where `set_fee`, `set_reference_block`, `sign` and a message are kept, that neither a signed transaction nor a
`Custom` is a part of something else); TLC evaluates them on the table of the binding. A handle is a Python reference: it owns an object or views a part of it.
`Bind` rebinds a variable and frees what nobody refers to. `ReadPart` makes a view; `ReadCopy`,
`ReadItem`, `ReadAlternative`, `ReadPayload` make copies; `Wrap` and the `Set*` actions copy a value in. A value is cut to the
class of its place (`CopyAs`), as C++ slices. An attribute without a value is `<<>>`; `Nil` is what an unbound variable and free
storage hold. `SetFee` is `FeeSchedule.set_fee`, `Sign` and
`SignHeader` record in a signature what they sign. `SetReferenceBlock` is `Transaction.set_reference_block`, which rewrites
`ref_block_num` and `ref_block_prefix` in place; one datum stands for the two numbers that the chain code cuts out of a
block id. These four are the methods of the bound classes that write to an object; the others compute something from it. `SetPayload` ends in chain code that may or may not set `id`: both are allowed. An
assignment that raises changes nothing and is left out, but for sequences, sets and dicts: those are
`PropertyCodec`'s.
So is the `SystemError` over an assignment that is made: of the attributes here it concerns a variant by itself,
`NonFungibleTokenDataValue.value` (`nft.cpp:28`), too, and changes nothing in what is assigned.

**AuthorityEdit.** `Read` makes a dict with key objects of its own (`own`), `PutByNewKey` adds an item under
a key object of the program's, `Assign` is a whole `decode_dict` (its iterations are `PropertyCodec`'s).
`Asked` is what a dict says about a signer, its first item for it, and `CanSign` adds up weights as a check of
signatures does.

**TokenBrowser.** One action per Qt event and per wallet call of `load_summary`. `Pick` is `activated`. The combo box is editable:
`Edit` is a keystroke, which changes its text and calls no slot, and `LookUpFinds` and `LookUpFails` are the look-up of
whatever text it shows when `editingFinished` comes. `Raises` is the `dcore.Exception` any call of a load may end in, that
for the summary included (`answer` is `Nil` until it came). Slots run to their end, so events happen at `pc = "idle"` only,
and the constructor's load of the first account is under way at first. `shown` and `answer` are history.

**AccountDump.** `GetAccountCount`, `LookupAccounts` and `PrintBalance` are the calls the function makes, each
answered from the chain of that moment; `Raises` is the `dcore.Exception` any of them may end in, which
leaves the lines printed so far. `Register` and `Transfer` are the chain, `FirstNames` the lookup in name order:
external. A limit of its own that a node may put on `lookup_accounts` is not part of this repository. `known`, `held`
and `moved` are history. Accounts hold one asset, fees are left out.

## 3. The runs

| run | shows | bounds, and why they are enough | states |
|---|---|---|---|
| `property_loops` | `TypeOK`; `LoopInv`: what each property holds at every iteration; `ReadBack`: a successful assignment is what is read back; `NothingRemoved`: sets and maps only grow; `RefinesStore`: a setter is `PropertyStore`'s single step, with its three endings; `CallEnds`: it comes to an end | 2 values, 2 keys, arguments of up to 2 items: a bad item first or last, both orders, a repeated key, an int that does not fit before and behind a bad item, lists that shrink and grow a property; the proofs cover the rest | 88,201 |
| `wallet_calls` | `OneCallAtATime`, `TypeErrorIsClean`, `RefinesSerialWallet`, `EveryCallEnds` | 2 threads, 2 items, one item of each fate (converted, replaced, refused), 1 publication per run | 113,381 |
| `variant_limits` | `ReturnedIntact`: a returned transaction carries what the caller passed, but for text after a NUL; `RefinesSerialWallet` where a call is repeated after its transaction was published | 1 thread, every limit of both integer ranges (`Half` = 4), text with and without NUL, other kinds; lists of 1 item, 2 publications | 640,020 |
| `every_class` | `TypeOK`, `NoDangling`, `Readable`: each class of the binding, made, taken apart and wrapped; whatever a variant is made from, one of its properties gives it back, except an asset's symbol in a `Predicate` | 1 variable, 2 objects, every class and attribute, no lists | 1,177 |
| `object_views` | `NoDangling`, `WriteIsLocal` | 3 variables, 3 objects (one of them spare in a program of two, as a new object exists before the old one is dropped), 2 values; `Transfer`, `BalanceEx` (which is cut to a `Balance`), `Memo`; symmetric variables and storage | 12,671 |
| `optional_attributes` | `WriteIsLocal`, `StaysSet`: an optional attribute once set is unset only with the part it lies in | the same with `GlobalProperties`, `Asset`, `CreateAsset`: two levels of parts, optionals of classes with parts, `smart_ref` inside an optional | 5,241 |
| `message_payload` | `MessageIsKept`: a message changes only by an assignment to `data`, `id` or `message_payload`, and goes unreadable only by the first two | `Custom`, `MessagePayload` with one receiver; bytes of a message are assigned only to a `Custom`, so that encodings do not nest | 2,399 |
| `authority_edit` | `TypeOK`; `OwnKeyDecides`: who is still in the dict gets the weight of the dict's own key object; `NothingIsRevoked`: who could sign goes on being able to, unless a weight is lowered or the threshold raised | 2 signers, 3 weights (so that a weight can be lowered to another that still counts), 2 dicts of up to 2 items, symmetric variables; the proofs cover the rest | 164,700 |
| `token_browser` | `TypeOK`, `RowsOfOneLoad`, `FilledUnderItsName`: rows change only while the combo box shows their account; `ShortLoadIsTold` | 2 accounts, 3 tokens, up to 2 rows; the proofs cover any | 446 |
| `account_dump` | `OneInOneOut`, `LastFallOut`: an account registered between the count and the lookup pushes out a counted one, the last by name; `LinesAreRecent`; `QuietDumpIsExact`: without transfers and with nobody pushed out the lines add up to the supply; `DumpEnds` | 3 names of which the middle one exists at first, so that one can be registered before and after it; supply 2; the proofs cover any names | 12,226 |
| `signed_transaction` | `SealedBySignature`: a signed transaction stays signed unless its own attributes are assigned or its `set_reference_block` is called | 3 variables, 3 objects, lists of 1; two transactions can exchange operations | 9,803 |
| `signed_proposal` | the same with a `CreateProposal` in the transaction | 2 variables, 3 objects (a transaction, and one object read out of another), lists of 1; operations and proposals of them (`Shallow`: no proposal of a proposal). With 3 variables this instance is beyond TLC's five minutes, hence two runs; the proof covers any | 3,527 |

Two abstract specifications are implemented. `PropertyStore` is mapped from `PropertyCodec` by
showing, while a setter runs, the fields it found (`before`); the step that returns or raises
is the assignment of the argument it was called with. `SerialWallet` is mapped from `WalletCalls` by showing the ledger as it was
when the call in progress was made (`start`). The refinement says in particular that a
failed assignment has exactly the effects of the items behind the bad one; that after
`dcore.Exception` everything or nothing was published, so that repeating a call can publish
twice (`variant_limits` gets there; in `wallet_calls` a single publication is in bounds); and that after `SystemError` the transaction with the replaced integer may be on
the chain. These are facts of the code that its callers should know: no document, comment
or test of the repository says otherwise, so no run is expected to fail.

Symmetry is used for the safety of `ObjectModel` and `AuthorityEdit` only: no action tells one
variable or one storage place from another, and none of these runs checks liveness.

Fairness. `PropertyCodec` assumes weak fairness of `Step`: a setter is native code that its
thread runs to the end. `WalletCalls` assumes weak fairness of `InMethod(t)` for the same
reason, and of the worker as a whole: it answers a task with a result or a failure in the
end. The code has no timeout of its own, so `EveryCallEnds` depends on that; without it a
call, and the interpreter with it, waits for ever. `AccountDump` assumes weak fairness of `Dump`: once called, the
function makes its next call, and every call is answered or raises (`EveryCallEnds`). Python code itself has no fairness: a
program need not call anything.

## 4. The proofs

All for every value of the constants: any sets of values, keys, threads, any
length of arguments, any width of integers.

- `PropertyCodecProofs`. `TypeCorrect`; `InductiveInvariant` (`IInv == TypeOK /\ LoopInv`);
  `LoopCorrect`, `ReadBackCorrect`, `NothingRemovedCorrect`; `Implements`: `Spec => RefinesStore`, the
  ending in `SystemError` included: `StopInv` says from which item on an error is set.
  `ReadBack` speaks of finished calls only and is not inductive; `LoopInv` relates the fields
  to `before`, the argument and the counter at every iteration, and at counter 0 it gives
  `ReadBack`. The lemmas about `Containers` (one iteration extends what the loop has done by
  one item) carry the steps. The map case is the hard one: a raised dict assignment is some
  merge, followed by a default insertion or not.
- `SumTheorems`. The sum of a function over a finite set is a fold of the community modules, a recursive function on
  the subsets of the set. That the recursion has a solution (`SolutionExists`), and only one (`SolutionUnique`), and what
  the sum is of a set with one element more or less (`SumWith`, `SumWithout`), of smaller summands (`SumMonotonic`) and
  of zeros (`SumOfZeros`) is proved without the induction theorems of the library: suppose that some set is an
  exception, take a smallest one (`SmallestSubset`, from `WFMin`), and derive a smaller one.
- `AccountDumpProofs`. `TypeCorrect`, `InductiveInvariant`, `LastFallOutCorrect`, `LinesAreRecentCorrect`. The invariant
  adds that accounts are never given up, so that every listed one has a balance, and that what an account holds is
  among what it has held; `FirstNamesAreFirst` compares the numbers of names before two names. `OneInOneOutCorrect` and
  `QuietDumpCorrect` follow from `DumpInvariant`, which joins four more parts: there are as many listed names as were
  counted (`CountInv`, from `FirstNamesCount`: the first k names of a set are k), the accounts hold the supply together
  (`SumInv`, kept by a transfer because of `TransferKeepsSum`), nothing is left of a dump that ended (`EndInv`), and
  without a transfer who came later holds nothing and a line shows what its account still holds (`QuietInv`).
- `AuthorityEditProofs`. `TypeCorrect`, `InductiveInvariant`, `OwnKeyDecidesCorrect`, `NothingIsRevokedCorrect`, `OneMerge`. The loop writes the first
  item of a signer last. The invariant (`OwnItemsFirst`) is that the items with the dict's own key objects precede those a
  program put, in every dict, so that the first item is the own one if there is one. For the second property:
  an assignment removes nobody (`AssignGivesAsked`), and if it lowers nobody's weight a sum that reached the threshold
  still does (`CanSignStays`). `OneMerge` says that `MergedFrom`, the relation by which the models state what a dict assignment
  leaves, is satisfied by exactly one authority.
- `WalletCallsProofs`. `TypeCorrect`, `InductiveInvariant`, `Serialised`,
  `TypeErrorPublishesNothing`, `ReturnedCorrect`. The properties are not inductive one by one:
  `IInv` joins them with `CallInv` (the converted tail of `data` is what the converter makes
  of the items, the error is set if one of them left it set, and the ledger has not moved
  while a method converts) and `TrxInv` (what a returned transaction carries). `Implements`:
  `Spec => RefinesSerialWallet`. It needs two more invariants: `StageInv`, how far the arguments of a call are
  converted and which of them could not be, and `WorkInv`, where the transaction of a waiting call is, at
  the worker before or after the node took it, or answered, and how far the ledger has moved since
  `start` in each case. The lemmas about the conversion come first: `RoundTrip`, every value other than an int beyond
  64 bits and a str with a NUL comes back as it went in, and `LostValues`, none of those does.
- `TokenBrowserProofs`. `TypeCorrect`, `RowsOfOneLoadCorrect`, `FilledUnderItsNameCorrect`, `ShortLoadCorrect`. Inductive
  once it is added that between the reset of the table and the answer there is nothing of a load
  (`NothingYet`), and that while a load goes on the combo box shows its account (`OfTheName`).
- `ObjectModelProofs`. `InductiveInvariant`, `TypeCorrect`, `NoDanglingCorrect`, `WriteIsLocalCorrect`,
  `StaysSetCorrect`, `ReadableCorrect`, for any table of classes that satisfies the assumptions. Two things make the invariant. A view is
  safe only if the place it points to is laid out as its class is and holds nothing else (`ViewInv`). And a
  copy out of an object is well formed only if what is nested in the object is: `IInv` says that all living
  objects are in one set that is closed under "what lies in a member is a member" (`Closed`). That set is unbounded, so
  TLC checks the invariant through its consequences `TypeOK` and `NoDangling`. `PutEffect` and `PutStep` say what a
  write does to an object and to the invariant, and every action is a use of them or of `BindStep`.
  `WriteIsLocal` then rests on the geometry of paths: when a write changes what a view shows, one of their
  paths is a prefix of the other (`PathOverlap`). `ReadableCorrect` splits `Readable` in two: that what a variant holds
  stays one of its alternatives is proved, that each of those has a property is a fact of the binding's table
  (`AlternativesHaveReaders`), the hypothesis of the theorem. A slip in the table is for `every_class` to find, which makes
  a variant of every alternative.
- `TransactionProofs`. `SealedCorrect`; `MessageKept`. Both rest on one more invariant, that a handle to a signed transaction or
  to a `Custom` refers to a whole object and never into another one (`WholeInv`; `UnownedIsWhole` for the classes whose
  methods write several leaves of theirs at once). `SealedCorrect` splits on the action, and finds two that can undo a
  signature: an assignment to the transaction, and `SetReferenceBlock` (`ReferenceChanges` says what that writes). `MessageKept` supposes that an encoded
  message is not one of the plain data a program puts into `data` by itself: then only `message_payload` writes one.

Assumptions, all evaluated by TLC in the runs: `ContainersAssumption` (a value-initialised element is a value,
`Bad` and `Absent` are not), `BoundsAssumption`, `VariantAssumption`, `WeightAssumption` (weights are natural numbers, and a
dict may hold all signers, of whom there are finitely many), `CallsAssumption`, `DumpAssumption`
(finitely many names, in an order), `BrowserAssumption`, and those of `ObjectModel` above.

Model-checked only: liveness (`CallEnds`, `EveryCallEnds`, `DumpEnds`), which the prover does not handle under fairness.
Every invariant, action property and refinement the runs check is a theorem as well; `MessageIsKept` and `Readable` need
the hypotheses named above. The proofs say nothing about the tables of `BoundClasses` and `OperationClasses` beyond the
assumptions that TLC evaluates on them.

## 5. Not modelled, and why

- The wallet file (`connect`, `lock`, `unlock`, `save`, `load`, `import_key`): each is one line that passes the call to
  `WalletAPI` as any other method does, so `WalletCalls` has its course; its state is kept by `WalletAPI`, in the
  DCore submodule.
- Keys, hashes, ElGamal: calls into that submodule. Module initialisation, read-only data
  classes (`About`, `Info`, `Configuration`, ...) and the build: nothing to explore.
- `array_converter` copies bytes in and registers nothing to read them back with. A str with a lone
  surrogate gives `PyUnicode_AsUTF8` a null result that `fc::variant` is then built from: what happens is
  up to the fc library. So is how many digits `fc::to_string` gives an amount (`module.cpp:146`).
- The narrowing of `ObjectId`'s arguments to `uint8_t`: Boost.Python checks the range before the
  constructor runs.
- What Qt's view does with the row counts `tests/nft.py` announces, which are one off: `TokenBrowser` models the rows,
  not the widget.
- Errors of `ObjectModel` (assigning `None` to an optional, an object of the wrong class): they
  change nothing. `StaysSet` says what follows from the first.

## 6. Plan

Done, in this order: container properties, variants, wallet calls, objects, account dump; then the class tables of the
whole binding, messages, proposals and signed transactions, the token browser, the editing of authorities, and the
proofs about `ObjectModel`, `TokenBrowser` and the refinement of `SerialWallet`; then the theorems about sums and the
proofs about `AuthorityEdit`, the account dump's totals and `Readable`. What is left, should the code grow:

1. A second fault model for `WalletCalls`, if the binding ever releases the GIL in `wait()`: `TakeGil` would
   then be possible within a call, and `OneCallAtATime` would go.
2. `ReadItem` and `SetList` with more than one item together with `PropertyCodec`'s exceptions, in one composed run.
