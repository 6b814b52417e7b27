# A TLA+ model of IPC tuples

This project models the library that turns C structures into messages of
*tuples* and back (`src/src`, `src/include`), model-checks it with TLC and
proves its main safety properties with TLAPS. Paths below are relative to the
repository; line numbers are in `PROJECT.json`, which maps every definition to
the code it stands for.

## 1. The system

| part | files | state | operations |
|---|---|---|---|
| tuple ABI | `include/abi/message.h`, `include/private/message.h` | a tuple in a message buffer | `tuple_size`, `tuple_data_size`, `tuple_data_count`, `tuple_get_data`, `tuple_init`, `tuple_inc_elems`, `ipc_next_tuple` |
| message header | `include/abi/header.h`, `include/private/header.h` | ID, flags, tuple count, body size | macros that locate the optional parts and the first tuple |
| builder tables | `include/ipct/builder.h` | constant: classes, subclasses, actions, their mandatory and optional elements | `ipct_get_type`, `elem_get_data_size` |
| lookup | `src/client.c` | none | `get_action_def` (class, subclass, action), `get_tuple_elem` |
| packer | `src/pack.c`, `ipct_msg_pack` | the context's write offset; `elem_pack`'s cursor, open tuple and tuple count; the buffer | one walk over an action's elements in ID order |
| unpacker | `src/unpack.c`, `ipct_msg_unpack` | end of message; per invocation of `tuple_for_each` a cursor and two counts; the C structure | header checks, recursive walk over the tuples, one datum at a time |
| data extractors | `src/unpack.c` (`ipc_data_*_get`) | none | range, mask and length checks, the store into the member |
| example | `example/` | the host's static mailbox, the firmware's local buffer | host requests, firmware handlers |
| debug output, manifest | `src/debug.h`, `include/abi/manifest.h` | none | printing; unused type declarations |

A client packs: `ipct_msg_pack(id, structure, buffer)` finds the action of the
ID, writes the header word, then visits the elements in ascending ID. An
element becomes a tuple of its own (`ipc_pack_single`) or, when its ID follows
its predecessor's and both have the same tuple type, one more item of the tuple
before it (`ipc_pack_cont`). At the end the header gets the number of tuples and
the words they take. The other side unpacks: `ipct_msg_unpack(buffer,
structure)` checks the header and walks the tuples, entering tuple arrays
recursively; each item is looked up, validated against the table and stored.
The two sides share nothing but the message, and each has tables of its own:
they may differ in layout, in limits and in the members they know.

The example runs both in one thread. The host (`example/sw`) fills a C structure,
packs it into its one static mailbox and hands that to `test_send_ipc_to_fw`,
which unpacks it into a local buffer and calls the firmware's handler
(`example/fw`). Both directories define `builder_klasses`; the program is linked
with the two libraries, the firmware's first (`example/CMakeLists.txt:8`), and so
has the firmware's tables on both sides.

The library has no threads, no timers and no persistent state of its own: each
call runs to its end in its client's thread. What makes it hard:

* **a buffer carries state from call to call.** A failed call leaves it half
  written, the next may be handed the same memory, and `tuple_init` chooses
  what to write by the *old* contents;
* **a long walk with lookahead.** Offsets, the open tuple, the count and the
  grouping must agree at its end, whatever the tables;
* **the message says how it is to be read.** Counts, sizes and nesting come
  from the message; the walk must stay in it and end;
* **failure in the middle.** A refused message has already changed part of the
  client's structure;
* **edges**: 16-bit sizes, a 24-bit count, sizes rounded to words, byte values
  in half words, alignment.

What makes the parts correct: *packer* – every element exactly once, in order,
grouped maximally, each readable where the ABI's accessors say, all inside the
buffer. *Unpacker* – cursors stay in the message, recursion is bounded, the
structure is at every moment the client's with the stored members set to what
the message says, stored values are allowed by the table, nothing known is
skipped. *Both* – every call returns.

## 2. Modules

| module | models |
|---|---|
| `IpctTuple` | the tuple ABI: layouts, bit fields, helpers |
| `IpctHeader` | the message header and its macros |
| `IpctRegistry` | the tables (constant `Registry`) and the two lookups, as functions and sets |
| `IpctLookup` | the tables as lists, and the loops and the recursion of `client.c` that search them |
| `IpctElem` | validation and store of one datum |
| `IpctPack` | `ipct_msg_pack` and `pack.c` |
| `IpctUnpack` | `ipct_msg_unpack` and `unpack.c` |
| `IpctTransfer` | abstract: what the two calls promise the two clients |
| `IpctCompatible` | between which tables, and what members are to the two clients |
| `IpctPair` | a packer and an unpacker over one message; implements `IpctTransfer` |
| `IpctStreamTables` | the example's IDs, structures and tables, host and firmware |
| `IpctStream` | the example: the host's requests, its mailbox, the firmware's handler |
| `IpctPackProofs` | theorems on the packer's walk and on the messages it makes |
| `IpctUnpackProofs` | theorems on the unpacker's walk and on the structure it fills |
| `IpctPairProofs`, `IpctArrivalProofs` | theorems on the two together; on what arrives, up to the refinement |
| `IpctLookupProofs`, `IpctTransferProofs` | theorems on the lookups, on the abstract service |
| `IpctStreamProofs` | theorems on the example, as a client of the packer and of the transfer |
| `IpctCommonProofs` | lemmas on the tuple ABI and the tables that packer and unpacker use |
| `MCIpctPack`, `MCIpctUnpack`, `MCIpctLookup`, `MCIpctPair`, `MCIpctStream` | instances for TLC |

`IpctPair` and `IpctStream` are compositions: each has the variables of one
packer and one unpacker over one shared memory `mem`. `IpctPair` extends
`IpctPack` (the sender) and takes the receiver from `INSTANCE IpctUnpack` with
tables of its own, `ReceiverRegistry`; so every theorem about the packer is one
about its sender. `IpctStream` instantiates both for either side of the example.

**Memory.** A buffer is a function from cell numbers to 16-bit values: every
field of every tuple lies on an even byte and is 16 bits wide or made of such
halves. Addresses stay in bytes and relative to the buffer, as the code's
offsets are; `Half(m, a)` reads the cell at byte `a`. The first cell of a tuple
packs type and ID as the C bit fields do, the header word is two cells. So what
stale bytes mean as a tuple is modelled, not assumed. A C structure is, for the
packer, the cells at each member's offset (it reads nothing else); for the
unpacker, its cells.

**Packing** (`IpctPack`). One step is one iteration of `elem_pack`'s loop, as a
failed call leaves the buffer as its last iteration left it.

| action | code |
|---|---|
| `ipct_msg_pack`, `Collect` | the client makes a call; takes the result. With `ReuseDest` the next call gets the same memory, as with the example's mailbox; otherwise a buffer from `InitialMailboxes` |
| `BadCall`, `BeginPack` | `ipct_pack` up to the loop: lookup, size check, `init_header`, first element |
| `RejectElem` | first two checks of both packing functions |
| `RejectSingle`, `SingleOverflow`, `PackSingle` | `ipc_pack_single`: refused before `tuple_init`, or by it; refused after it; done |
| `ContOverflow`, `PackCont` | `ipc_pack_cont`: refused after `tuple_inc_elems` has grown the tuple; done |
| `complete_header` | the function, its 24-bit check (`TooBig`) included |

`Advance` is the end of the loop's body: lookahead, tuple count, offset. `placed`
and `top` are history variables (which element went into which tuple; the end of
the highest byte stored) that no action reads.

**Unpacking** (`IpctUnpack`). The recursion of `tuple_for_each` is the stack
`frames`; one step is one tuple, or one item of one.

| action | code |
|---|---|
| `RejectHeader`, `AcceptHeader` | `ipct_unpack` up to the walk |
| `RejectTuple` | start and end checks of the loop |
| `Nest`, `TooDeep`, `Leave` | the recursive call, its depth check, its return (or that of the outermost call) |
| `NoData`, `BeginTuple` | `tuple_unpack` before its loop |
| `IgnoreRest`, `RejectItem`, `InsertItem` | one iteration of that loop with `elem_insert_data` |

`before` and `stored` are history variables. "Illegal next tuple" has no action:
a tuple that passed the end check and was unpacked is at least four bytes long.

**Lookup** (`IpctLookup`). One step is one iteration of one loop; `frames` is the
recursion of `get_tuple_elem`.

| action | code |
|---|---|
| `Skip` | one entry passed in `get_klass`, `get_subklass` or `get_action` |
| `FoundKlass`, `FoundSubklass`, `FoundAction`, `NotFound` | the entry found, and what `get_action_def` does next; NULL as soon as a list lacks its byte of the ID |
| `SkipElem`, `FoundElem`, `EndOfElems` | the loops over mandatory and optional elements |
| `SearchNested`, `ElemNotFound` | the recursive call for a nested structure; its end. `ReturnElem` drops a nested result, as the code does |

**Pair** (`IpctPair`). `Send`, `HandOver` and `Finish` are the clients; `Pack` and
`Unpack` are all of the two calls. The unpacker gets exactly the message memory
and the length the packer returned. The receiver unpacks by action 0 of class 0,
whatever the message's ID (`id` in section 6), so one receiver has one table; what is
sent to it is chosen by the ID: the sender's registry has an action for each
layout. The refinement mapping reads off `Phase`, the members of the sender's
structure and those of the receiver's that were stored, each as the client sees
it (a byte-wide member is half of a cell). `Compatible(d, r)` of `IpctCompatible`
says between which tables the transfer is promised. Each conjunct is something
the library needs and nothing in it checks:

| conjunct | because |
|---|---|
| `PacksAll` | the packer starts at its lowest mandatory element, and looks for the next below `IPCT_TUPLE_MAX_ID` |
| `WholeWords` | the header counts whole words, and `ipc_next_tuple` knows nothing of the padding behind an odd half-word array; 8-byte values are refused |
| `CountReads` | the minimum-size check reads the tuple count as a tuple |
| `MembersMatch` | no conversion between types; a byte is packed with its neighbour; the target's end is compared with the message's size |
| `KnowsPrefixes` | the first unknown item of a tuple ends it |

**Example** (`IpctStream`).

| action | code |
|---|---|
| `MakeRequest` | `sw_stream_params`, `sw_stream_trigger`, `sw_stream_position`, up to `ipct_msg_pack` |
| `Pack`, `GiveUp` | the call; `sw_run_stream_tests` returns on its error |
| `test_send_ipc_to_fw`, `Unpack` | the function, into an uninitialised local buffer (`Leftovers`) |
| `NextRequest` | after a message was accepted, the handler's dispatch by the ID 0 to `fw_stream_params`, whose reply cannot be packed; then the return to the host, with the mailbox as it is |

The host packs by `HostTables`. In the program as it is linked (`OneProgram`) these
are the firmware's, and that is the instance the run `stream` checks. With `OneProgram
= FALSE` each side has the tables written for it: no program of the repository is so,
and it serves to show what the linking changes.

**Abstractions.** In `IpctRegistry` the nested lists are a function from IDs to
descriptors, and element tables are sets: IDs are unique within an action
(`RegistryAssumption`), so the order of a table decides nothing;
`LookupIsRegistrys` checks that the loops over lists come to the same, also where
a class, a subclass or an action is declared twice and the first hides the second:
the function is of the actions that can be found (`Findable`). Elements
are a whole number of cells wide and members lie on even bytes; tuples lie on
even bytes (`_IPC_TO_TUPLE` assumes it), so an array of odd-sized items is
outside the model. Pointer and 32-bit arithmetic does not wrap at the sizes
used; the 16-bit and 24-bit fields do. Comparison of floating-point values is
the constant operator `FloatInRange`. Log output is left out.

## 3. Runs

| run | instance | shows |
|---|---|---|
| `clean` | all tables that give each of IDs 0–3 no element, a half-word, a word or 8 bytes of data (but not 8 bytes in an array), all mandatory and with optional ones; an ID of no action and one with the route bit; 2 structure sizes × 7 buffer sizes from too small to ample | `MessageCarriesElems`, `TuplesChain`, `ArraysAreRuns`, `PacksEveryElemOnce`, `TuplesWordAligned`, `SuccessStaysInBuffer`, `OnlyWholeStructs`, `CallsReturn` |
| `reuse` | three layouts, two structures whose cells read as tuples of all types, one static buffer, any number of calls; `SizeLimit = 5` in place of 2^24, so that the too-big exit is taken | `OpenTuple`, `TuplesWordAligned`, `BodySizeCounted` (the size field counts the words behind the header, over stale bytes too, and what it cannot count is refused), `WalkInv`, `CallsReturn` |
| `unpack` | bodies of two or three pieces out of 18 (every tuple type, good, bad and unknown values, nested arrays of right, too large and zero length), tuple counts 1–4, sizes rounded down and up, odd headers; two client sizes; depth 1 | `CursorsInMessage`, `NestingDescends`, `CursorInv`, `StructHoldsMessage`, `MembersValid`, `KnownItemsStored`, `UnpackReturns` |
| `pair` | a sender with an action for each of the 63 non-empty subsets of six members (a pair of half-words, a pair of words right behind it, a pair of half-words after a gap); a receiver with narrower limits, the members in another order, one member less and one more; three structures, nine buffer sizes around the lengths of the messages | `Transfers` (the composition implements `IpctTransfer`), `PacksWhatFits` (a message is as long as its descriptor says and within the buffer, and it is never refused with a byte to spare), `WalksWhatWasPacked`, `PairTypeOK`, `TransferEnds` |
| `lookup` | three classes that share subclass and action numbers, one class, subclass and action each declared twice, empty lists, nested structures two deep; every ID with bytes up to 3 and two with header flags, ten tuple IDs | `PathInv`, `LookupIsRegistrys`, `LookupEnds` |
| `stream` | the example as it is linked, four contents of the firmware's stack | `ParamsTaken` (what is taken of the parameters, and what the call returns, follows from the two tables), `HandlesOnlyParams`, `RunEnds` |
| `first`, `stale` | smallest instances | disagreements of the packer with its comments, section 6 |
| `exact`, `bytes`, `nested`, `linked` | smallest instances; the example | disagreements of the pair, the lookup and the example, section 6 |

Further configurations, to be run by hand (`tlc -config <cfg> <MC module>`), each
end in the counterexample section 6 names: `IpctPack_wide`, `IpctPack_end`,
`IpctPack_overlap`, `IpctUnpack_target`, `IpctUnpack_id`, `IpctUnpack_minimum`,
`IpctUnpack_mandatory`, `IpctPair_oddhalf`, `IpctPair_pad`, `IpctPair_deprecated`,
`IpctPair_long`, `IpctPair_layout`, `IpctStream_requests`, `IpctStream_handler`.
One more, `IpctStream_apart`, passes: the example with the tables of each side, where
the parameters do arrive (`ParamsArrive`) and the handler is reached. In the program
as it is linked the firmware refuses the parameters and the trigger, so the handler
never is; there `HandlesOnlyParams` says that no request after the first gets to it.

Why the bounds suffice: grouping looks at an element and its successor, so four
IDs hold every pattern (none, pair, run of three or more, a gap, a type change)
in every position, including odd and even runs of half-words, which decide
alignment. The buffer sizes cut a message in its header, at a tuple's start,
inside its data, exactly at its end and one byte behind. In `reuse` each layout
meets what each other one left. On the receiving side two or three pieces are
enough for a bad tuple to follow a good one, for a nested array to be followed
by a sibling, and for a depth of two against `IPCT_MAX_DEPTH = 1`; the code's 10
changes only how many frames precede the refusal. The pair's six IDs give every
change of tuple type between neighbours, single tuples and arrays of both widths,
and messages the receiver knows none of, some of or all of; its three structures
are allowed everywhere, refused late and refused early. The example
has no bounds: it is the program's own four requests, with the 1024-byte buffers
it uses. `IPCT_MAX_DEPTH`, `Cells`, `SizeLimit`, `StructCells` are the only
numeric bounds.

**Fairness.** `WF_vars(PackStep)`, `WF_vars(UnpackStep)`, `WF_vars(LookupStep)`: a
call runs in its client's thread without blocking, so once made it goes on.
Nothing obliges a client to make another call, hence no fairness on `Client`.
The pair adds `WF_pair(HandOver)`: a sender that has packed a message sends
it with its next statement. `IpctStream` is one thread from `main` to its end, so
`WF_vars(Next)`; it stops when `main` returns, which is why its configurations
have `CHECK_DEADLOCK FALSE`. No run needs strong fairness.

Every property of a passing run is violated by a small, plausible change of the
model, named `Mutant` in the modules and listed in `PROJECT.json`.

## 4. Proofs

`IpctPackProofs` proves for **all** tables, buffers, contents and sizes:

* `TypeCorrect`: `Spec => []TypeOK`;
* `GrowsOpenTuple`: `Spec => []OpenTuple` – `tuple_inc_elems` is only ever
  applied to a tuple it can grow, although the tuple was initialised over stale
  bytes;
* `Aligned`: `Spec => []TuplesWordAligned`;
* `WalkInvariant` and `EveryElemOnce`: `Spec => []PacksEveryElemOnce` – a
  returned message has every element from the first on, exactly once, in order;
* `SizeCounted`: `Spec => []BodySizeCounted` – the header of a returned message
  has in its size field the words behind it, and one too big for the field is
  not returned;
* `WholeStructs`: `Spec => []OnlyWholeStructs` – every element of a returned
  message came from inside the structure the client passed.

`SizeCounted` has the hypothesis `SizeFits`, that `SizeLimit` is no more than the
header's 24-bit field can hold; the others have none.

*Argument.* None of the first three is inductive. That the memory stays a
memory needs the tuple's header and datum to be in it, which needs the open
tuple's type and place; the open tuple's place needs the write offset to be
even; evenness needs tuple sizes to be even, which needs to know the type just
written. `AlignInv` joins them with `Registered` (the descriptor in use is one
of the registry's, a call starts with nothing placed), and is preserved by each
action: lemmas say what `tuple_init`, `tuple_inc_elems` and `CopyIn` do to a
memory, to a tuple's type and to its size. `PacksEveryElemOnce` at the end of a
call needs to know, at each element, that exactly those below it are placed;
`WalkInv` adds that. It is preserved because `get_next_elem` returns the lowest
element above the current one, so that no element lies between them; existence
of a lowest element among finitely or infinitely many IDs is the well-ordering
of the naturals. `OnlyWholeStructs` then needs only that what is placed passed
the check at its own step (`PlacedFromSource`). `SizeCounted` needs that no step of
the walk stores into the header word that says how long the header is: the write
offset and the open tuple lie behind the header (`BodyBehindHeader`).

Of the message a successful call leaves it proves:

* `GroupsAreRuns`: `Spec => []ArraysAreRuns`, for **all** tables, over whatever
  the buffer held: neighbours share a tuple exactly when IDs and types say so;
* `MessageCarries`: `Spec => []MessageCarriesElems` – every element is at the index
  its ID says, with the bytes of the client's structure;
* `TuplesFollow`: `Spec => []TuplesChain` – the sizes the tuples say of themselves
  lead from the header through all of them to the returned length;
* `SuccessInBuffer`: `Spec => []SuccessStaysInBuffer`.

The last three have three hypotheses, each part of the statement and true of
`clean`'s instance: `FreshBuffers` (a buffer is not used twice, and none of its
words reads as a tuple of another type than `tuple_init` expects: cleared memory,
for one), `TablesInWords` (what is wider than a half-word is whole words, and one
word where two such elements follow each other) and `SizeFits`. Without the first two
the properties are false: `stale`, `wide` and `overlap` in section 6 are
counterexamples.

*Argument.* `RunsInv` says of every moment of the walk how the elements placed so
far are grouped, and what the lookahead `cont` says of the next one. `CarryInv`
adds the memory: each placed element is stored at its place (`SingleStored`,
`ContStored` of `IpctPackProofs`), each finished tuple ends where the next one
starts, nothing is stored behind the write offset, and from there on the memory
is still untyped. A step that stores an
element writes only above the tuples that are finished, and only above the items
already in its own tuple; that is what leaves them as they are. The number of
items in a tuple is not computed by a recursion but is the distance of the IDs
that share it, so no induction over the items is needed.

`IpctUnpackProofs` proves for **all** messages, tables, structures and depths:

* `TypeCorrect`: `Spec => []TypeOK` – among other things, each cell stored in the
  structure was read from the memory at the message;
* `StaysInMessage`: `Spec => []CursorsInMessage` – the cursors of all
  invocations of `tuple_for_each` stay in the message, and the signed byte count
  the loop tests for zero cannot pass it;
* `BoundedNesting`: `Spec => []NestingDescends`;
* `StoresKnownItems`: `Spec => []KnownItemsStored` – a call that succeeds has
  stored every item of every tuple up to the first its action does not know.

*Argument.* When a nested invocation ends, the one around it advances by the
size of its array; that this stays in the message was checked before the nested
call and must still be known after it. `CursorInv` says so: every invocation
but the innermost has tuples left and is inside a tuple that ends in the message
(`Entered`), and so is the innermost while `tuple_unpack` runs. Lemmas about
stacks (`StackStep`, `StackAdvance`) do the work once for the four actions that
move a cursor; the actions that refuse the message are one lemma,
`CursorReturn`. `StoresKnownItems` compares the walk with a definition that does
not walk: `TupleStarts`, a recursive function from the number of a tuple to where
it starts. `HandledInv` says that the outermost invocation is at the tuple whose
number is the count it has used up, that all tuples before it are dealt with, and
in the one it is in all items before `item`. That `TupleStarts` satisfies its own
equation (`StartsExist`, `StartsFollow`) is proved with a least counterexample
(`LeastNat`).

Of the structure that is filled it proves, for the same generality:

* `HoldsMessage`: `Spec => []StructHoldsMessage` – at every moment, failed calls
  included, the structure is the client's with each stored member set to what
  the last tuple of its ID says;
* `OnlyValidMembers`: `Spec => []MembersValid` – what the client reads out of a
  stored member passes its table's check.

*Argument.* The inductive invariant `StructInv` adds to the two: `CursorInv`;
a call starts with nothing stored; every stored ID has a last datum; and the
byte behind a byte-wide member is still the client's (`UpperBytesKept`), without
which a second store of such a member could not be compared with the structure
as it was passed. A store changes only the cells of its own member, so by
`ApartAssumption` every other member keeps its value and its last datum
(`LastsKept`, `DatumKept`), and the member stored gets the new one
(`LastIsNew`). `ReadBack` is the step from the value that was checked to the
value the client reads: a byte kept as half of a cell, a block cut at its length.

`IpctLookupProofs` proves for **all** lists and IDs `PathInvariant` (`Spec =>
[]PathInv`) and `FirstMatch` (`Spec => []ActionIsFirst`): a lookup returns the
first action of the first subclass of the first class the ID names, or NULL
because a list lacks it. The invariant says of each level what the loop has
passed and what the levels above have found. `LookupTypes` (`Spec => []TypeOK`) and
`LookupsAgree` (`Spec => []LookupIsRegistrys`) are about the recursion of
`get_tuple_elem` as well. `StackInv` says that the frames are a chain: each but the
innermost is at the optional element whose nested structure the next one searches.
Since a nested result is dropped, the answer is decided by the outermost frame
alone: `OuterInv` says what it has passed. `LookupsAgree` has the hypotheses
`UniqueElems` (no action names an element twice, as `include/abi/message.h` asks) and
`IdsFit`, true of the instance of `lookup`. Of classes, subclasses and actions
nothing is asked: where one is declared twice the loops return the first entry, and
`FirstMatch` with `Findable` says that this is the registry's.

`IpctTransferProofs` proves `PromiseKept` for **all** tables, values and sizes: the
abstract service never has a wrong or disallowed member arrive, is complete when
it accepts, and refuses only for a cause, with everything below it arrived. The
invariant needs `HeldIsPrefix`: members arrive without a gap.

`IpctPairProofs` puts sender and receiver together:

* `SenderPacks`: `PairSpec => Spec` – a pair's sender is a packer, so everything
  above holds of it;
* `ReceiverOnItsWay` and `WalksPackedTuples`: `PairSpec => []WalksWhatWasPacked` –
  a receiver with any tables of its own is never anywhere but at a tuple the sender
  started or at the end of the message;
* `PairTypes`: `PairSpec => []PairTypeOK`;
* `OffsetIsLength` and `PacksFitting`: `PairSpec => []PacksWhatFits` – the length
  returned is the one the sender's table gives and no more than the buffer's, and a
  message is not refused while the buffer has a byte more. What becomes of a buffer
  exactly as long as the message is left open (`Fits`, `Tight`): the code refuses it,
  against its comment (`exact` in section 6).

Their hypotheses are `Sendable` – fresh buffers as above, and of the sender's tables
`PacksAll` and `WholeWords` of `IpctCompatible` – and for the types `Receivable`
(the receiver's registry and structures are of the types the unpacker knows).
`first` and `pad` in section 6 are what happens without the first two. What the receiver's
tables allow, know or mean is not assumed. The last two ask `Callable` as well: an ID
that is packed names an action and has no more than 24 bits (`id` in section 6 and
the other refusals are outside), the structures hold every member, and no buffer is
larger than the header's size can say. All of it is so in the instance of `pair`.

*Argument.* `SenderInv` is what the packer's theorems say of a message.
`TuplesInARow` turns it round, from the writer's view to the reader's: the tuple
that starts behind `t` starts at `t + tuple_size(t)`, and the last one ends at the
returned length. The writer aligns tuples and the reader does not, so this needs
that no array of half-words is odd (`EvenArray`): the members of a tuple are an
unbroken run of IDs (`TupleIsRun`), and that is what `WholeWords` counts. `ReceiverAt` is
inductive with it: the one frame of the receiver is at such a place, and since no
tuple the packer writes is a tuple array, it never nests. `ReceiverTyped` then only
needs that each item lies between its tuple's start and the next (`DatumInMessage`).

The length needs another measure than the loop's. `LengthOf` counts, in the table
alone, what a set of elements takes in a message: a header for each that begins a
tuple, its words, and half a word for each member of an array of half-words.
`Measured` says the write offset is that of the elements behind the walk;
`LengthOfSingle` and `LengthOfNext` give what one element adds, as a tuple of its
own or to the array that is open. The offset the code aligns is that of an array
that has ended, and `EvenRun` (from `WholeWords`) says such an array is even, so
that aligning adds nothing. `LengthGrows` makes each refusal final: what
does not fit now is part of what would have to fit at the end.

`IpctArrivalProofs` proves the refinement:

* `PairTransfers`: `PairSpec => Transfers` – between compatible tables, packing, the
  layout of the message, the walk over it and the storing of its data are, step by
  step, the service of `IpctTransfer`;
* `PairPromises`: `PairSpec => []T!Promise` – and so the promise of that service
  holds of the library, by `PromiseKept` and the mapping.

Besides `Sendable` and `Callable` their hypothesis is `Served`: the receiver's
registry and structures are typed (`Receivable`) and have an action under the zero
ID, its members have unique IDs and lie apart, on even bytes, in the structure; and
`Compatible` holds between each table the sender is asked for and the receiver's.
Each part of `Compatible` that is dropped gives one of the counterexamples of
section 6 (`first`, `pad`, `minimum`, `long`, `layout`, `bytes`, `deprecated`). All
of it is so in the instance of `pair`, for those of the 63 actions that are packed.

*Argument.* `Arriving` ties three things together at every step of the receiver:
its cursor, the tuples it has to go, and what it holds. `Behind` is the set of IDs in
the tuples before the cursor, `Ahead` the tuples from it on. The count of
`tuple_for_each` is the number of those ahead (`HeaderAccepted` gives it at the
start: the header counts the tuples in its table, `TupleNumber`), so the loop
ends by its count exactly where it ends by its bytes. What is held is what the
receiver knows of the IDs behind the cursor, each with the value sent. An item that is known
adds its own (`InsertedMember`: its cells become the datum's, and no other member's
change, as members lie apart); one that is not loses the rest of its tuple, which
by `KnowsPrefixes` and `TupleIsRun` has nothing the receiver knows (`SkipsNothing`).
`ReceiverSteps` lists what a step can then be: of all checks of the unpacker only
that of a value may fail, and it fails exactly for a value the receiver's table does
not allow (`ItemAllowed`). Since tuples lie in the order of the IDs in them
(`InOrder`), the item is the lowest that is missing (`NextArrives`), which is what
the service says of a member that arrives or is refused. On the sender's side
`PacksFitting` decides between `NoRoom` and a stutter; the service may do either
with a buffer of exactly the message's length.

`IpctStreamProofs` proves of the example, for **every** content of the
firmware's stack, and for what each request leaves in the mailbox:

* `StreamPacks`: `Spec => Host!Spec` – the program is a client of `IpctPack` that makes
  its four requests over one mailbox;
* `FirstRequestPairs`: `Spec => First!PairSpec` – its first request, seen for itself, is
  a transfer from the host's table to the firmware's over zeroed memory;
* `StreamTypes`: `Spec => []TypeOK`;
* `OnlyParamsHandled`: `Spec => []HandlesOnlyParams`;
* `ParamsAreTaken`: `Spec => []ParamsTaken` – what the firmware takes of the
  parameters, up to the first its table excludes, and what the call returns are what
  the two tables say, in the program as it is linked as well as with a table for each
  side. That the parameters arrive is false of the first (`linked` in section 6);
* `NeverStopped`: the position's request ends the sequence, so the stop is never
  made, and at most the parameters and a start are sent.

*Argument.* Of its first request nothing is proved by following the program. It is
shown to be an instance of what the other modules are about, and their theorems are cited. `Host` is
the packer's specification with the example's constants, `First` the pair's, with
mappings that show the first request's values while it lasts and the initial ones
afterwards (`at = 1`). What those theorems ask is established from the tables: `Declares`
says that a descriptor has the eleven members with one side's layout and limits, and
from it alone follow the groups (six runs of IDs, `DeclaresRuns`), the message's length
and `Compatible` with the firmware's table, whichever the host packs by. So `FirstSendable`,
`FirstCallable` and `FirstServed` hold, `PairPromises` and the types of what is
stored say what is taken, and `PairTypes` gives the types of the first request. These
lemmas also show
that the hypotheses of the pair's theorems are met by a program as it is written.

The second request is outside all of that: its mailbox is not fresh, and the firmware
looks its message up as parameters. No theorem about compatible tables applies, so this
one is followed through both calls. `TriggerPacked` says what of the message is certain
although the tuple is initialised over the parameters': its type is right, its size
field need not be. It is kept because the first cell is written whatever
type `tuple_init` finds. `TriggerRefused` says what the firmware makes of it: the one tuple is an
array of words, its first ID is 10, the firmware's ID 10 is a half-word, and the
difference in size ends the call before anything is stored. `Sequenced` ties the two
to the order of the calls: nothing is unpacked that was not packed, and the third
request is of no action. Their conjunction `StreamInv` is inductive, given the packer's
types; `HandlesOnlyParams` alone is not, because whether the handler is called depends
on how an earlier call left the mailbox.

*Assumptions*, named in the modules and evaluated by every run:
`RegistryAssumption` (descriptors are well formed, IDs unique in an action, as
`include/abi/message.h` says), `EvenAssumption` (element sizes are even),
`CallAssumption` (structures hold 16-bit cells), `MemoryAssumption` (there is
memory behind the buffer for what is stored before its size is looked at),
`LimitAssumption`; for unpacking `MessageAssumption` (a message's memory holds a
header and twelve bytes more than the header's size says: the code reads a
tuple's header before it compares its end, and does not compare the message's
end with the size the client passed), `StructAssumption` (members lie on even
bytes in the memory at the structure), `ApartAssumption` (members of one
structure do not overlap), `DepthAssumption`; for the example
`StreamAssumption` (a stack of 16-bit cells of the local buffer's length) and
`NullAssumption` (NULL is neither an element nor a descriptor); for lookup `IdsAssumption` (IDs are
numbers), `ListsAssumption` and `ElemListsAssumption` (tables are lists). The hypothesis of the
transfer's theorem, `IdsAreNumbers`, is part of its statement, and so are those of
the pair's.

## 5. Model-checked only, and not modelled

Only model-checked: liveness (`CallsReturn`, `UnpackReturns`, `LookupEnds`,
`TransferEnds`, `RunEnds`), which the provers cannot do. Every invariant and action
property of the passing runs is stated by a theorem.

Not modelled:

* the example's other handlers (`fw_stream_trigger`, `fw_stream_position`, those
  of the host) and `test_send_ipc_to_sw`: no execution reaches them, because the
  ID a handler gets is always 0 and no reply is ever packed;
* the example's channel map, a nested structure: neither packing nor unpacking
  handles one (`IpctLookup` has the search through them);
* the comparison of floating-point values (`FloatInRange` is a constant);
* `flags` and address arguments, which the library stores and never reads;
* `src/debug.h` (printing), `include/abi/manifest.h` (unused declarations), and
  declarations without callers (`tuple_payload_size`, `ipct_get_remaining`).

## 6. Where the code and what is said of it part

Each is a configuration TLC ends with a counterexample; those marked † are listed
runs, the others are run by hand.

* `first` † – `get_first_elem` ("by lowest ID", `pack.c:145`) compares optional
  IDs with `==`, so an optional element below every mandatory one is never sent.
* `stale` † – `tuple_init` switches on the type already in the buffer
  (`message.h:188`), so only a message packed into zeroed memory is right.
* `end` – a tuple's header is stored before its end is checked (`pack.c:56`, 74).
* `wide` – 8-byte elements with successive IDs become a standard array, whose
  items the ABI says are 4 bytes (`abi/message.h:141-142`).
* `overlap` – `tuple_init` rounds a size down to words (`message.h:193`): six
  bytes of data are four in their own tuple, and the next one is packed over the
  rest.
* `exact` † – "is tuple end (including it's payload) within buffer" (`pack.c:73`,
  129) compares the end by `>=` (`pack.c:74`, 130), so a buffer exactly as long as
  the message is refused.
* `target` – the check that data "wont overflow target" (`unpack.c:217`) uses
  the size of the message. `layout` shows the other side of it: a member further
  down the receiver's structure than the message is long is refused.
* `minimum` – the minimum size is that of the header's own elems structure read
  as a tuple (`unpack.c:493`, 514): a count of 4 reads as a variable array.
* `mandatory` – a message without a mandatory element unpacks successfully.
* `id` – the action is looked up by the context's zero ID, not the message's.
* `bytes` † – a one-byte member is copied with the byte behind it (`pack.c:81`), so
  it, or a negative `int8_t`, is refused by the same table that allows it.
* `nested` † – "check sub structures" (`client.c:118`) drops what it finds.
* `oddhalf` – the header's size is in whole words, rounded down: a message that
  ends on half a word is announced shorter than it is.
* `pad` – the packer aligns the next tuple, `ipc_next_tuple` does not: after an odd
  half-word array the reader is between two tuples.
* `deprecated` – an unknown item ends its tuple, known items behind it are lost.
* `long` – an 8-byte value travels as data of another size than the receiver
  expects and is refused.
* `linked` † – the host's structures are "completely private to the SW"
  (`sw/stream.h:17`) and their layout has "no effect on ABI", but the program has the
  firmware's tables on both sides (`CMakeLists.txt:8`). The host's structure is
  packed by the firmware's layout: `host_period_bytes` is read where the host has
  `stream_no_irq`, 0, which the firmware's table excludes, and the parameters are
  refused.
* `requests` – the position's ID is the number of its action alone
  (`sw/stream.c:161`): it is never packed, and the stop behind it never made.
* `handler` – the firmware's handler is passed the message in place of the structure
  (with a table for each side: as it is linked, the program never gets there).

## 7. Plan

Done: all of the library's components, their composition with an abstract
specification, the example, and a proof of every safety property that is checked.
Left:

1. `ElemCodec`: `IpctElem`'s cell-wise comparisons against the integers they
   stand for. TLC's integers are 32 bits wide, so over small widths.
2. A fault model for the message between the two calls (bytes changed on the
   way): `unpack` covers its effect on the receiver alone.
