# A verification development of nir-rs

nir-rs reads and writes the Neuromorphic Intermediate Representation, a graph
of neuron models, as HDF5 files. This directory holds TLA+ modules for the parts
of the crate where the order of steps matters, TLC configurations that check them
on small instances, and proofs checked by TLAPS. Paths such as
`src/src/graph.rs` name the repository's files; `PROJECT.json` maps every
definition to the lines it models.

## 1. Inventory

| Component | State it keeps | Operations | Made correct by |
|---|---|---|---|
| HDF5 reader, `io/hdf5_read.rs` | the graph under construction, location tokens of graphs entered, the ledgers | `read_with`, `read_version_with`, and the recursive decoding below them | no redirecting link opened; no graph decoded twice; the version decides first; a read within its limits of a readable file succeeds and no other does; it returns |
| Read ledgers, `ReadBudget`, `CountLedger` | limit and amount used for bytes, nodes, edges, graphs | `charge`, `would_fit` | never past a limit, never released, exact at the boundary |
| Dataset decoding, `io/hdf5_read.rs:1195-1829` | the buffers of one dataset, the byte ledger | counting, one-pass charges, reads, conversions, defaults | every buffer is charged before it exists, exactly by the documented rules; a refusal has a true cause |
| Node decoding, `NodeReader`, `read_*` | none | accessors per field, synthesized defaults | absent, malformed and present fields are told apart |
| Version policy, `io/version.rs` | none | `enforce_version_policy`, `parse_nir_version`, the canonical list of majors | the parser accepts the documented grammar; both entry points accept the same files |
| Atomic writer, `io/hdf5_write.rs:35-516` | a staging directory and file per call; the destination | `write_atomically`, `promote_to_destination`, `rename_replace` | the destination changes in one step to a complete file with the old one's mode; failure leaves it alone; nothing is left behind |
| Staging base, `secure_staging_base` and its checks | the directories joined to each private candidate | two ancestry walks, `is_writable`, `ensure_private_dir` | the walks agree; the base taken is as trusted as documented; nothing is made that need not be |
| Writer preflight, `io/hdf5_write.rs:523-860` | none | seven checks in a fixed order, two of them optional | what passes can be encoded and read back |
| Writer encoding, `io/hdf5_write.rs:899-1302` | the HDF5 file | one function per node type | reading gives back what was written, but for documented defaults |
| Graph, `graph.rs` | nodes in insertion order, edges, metadata | `insert_node`, `add_edge`, `validate_structure` | the heap walk reports what the recursive walk would |
| Parameter validation, `validation.rs` | none | `validate_parameters` | the first offending node is named by its path |
| Tensors, `types.rs`; nodes, `nodes.rs`; wire names, `io/wire.rs`; errors, `error.rs` | values | constructors and predicates | shape products and names are legal |

How they interact: `io::read_with` builds a ledger, opens a file and decodes it
by recursive calls which share the ledger and the list of tokens; it calls no
validator. `io::write_with` runs the preflight, which calls `validate_structure`
unless told not to, then stages a file, calls the encoder on it and renames it.
Validators only read the graph. The crate has no threads, callbacks or messages
of its own: two calls interact only through the file system, when they write the
same path.

What is hard here: untrusted link structure (cycles, aliases, redirections)
met by a recursion; several budgets shared by all levels of it, at their exact
limits; early returns with half a result; the sequence of file-system calls of a
write, each of which may fail, with a second writer or a death of the process in
between; a fallback path that repeats half of that sequence; walks that must
report the *first* error although they do not visit in the order they push. The
full list, each with its line, is under `hazards` in `PROJECT.json`.

## 2. Modules

    ReadBudget ── GraphReader ── ReaderContract ── MCGraphReader ── NodeSchema
            │                         └── GraphReaderProofs
            └── DatasetDecoder ── DatasetContract ── MCDatasetDecoder
                                      └── DatasetContractProofs
    VersionPolicy ── VersionContract ── MCVersionPolicy
                          └── VersionProofs
    AtomicReplace ◁── AtomicWrite ── MCAtomicWrite
                           └── AtomicWriteProofs
    StagingBase ── MCStagingBase
         └── StagingBaseProofs
    GraphModel ── StructureValidator ┐
    NodeParameters ─ ParameterValidator ┴─ GraphValidation ── ValidationContract ── MCGraphValidation
                                                                   └── GraphValidationProofs
    NodeSchema ── NodeEncoding ── GraphWriter ── MCGraphWriter
                                       └── GraphWriterProofs

`Induction` holds two lemmas which the proofs about the reader, the decoder, the
version policy and the validators share (section 5).

Three modules are joined to the one that takes their outcome as an input:
`DatasetContract` and `VersionContract` instantiate `GraphReader`, `StagingBase`
instantiates `AtomicWrite`, and a property of each says that the coarse model
decides as the fine one does.

### The reader

`ReadBudget` holds the arithmetic of the ledgers: an optional limit, a request
that may be the `None` of a checked operation, and the test `Admits` that both
`charge` functions and `would_fit` make. The module has no state; `GraphReader`
owns `used`.

`GraphReader` is one call of `read_with` or `read_version_with`. A container is
an object store: groups map names to links, a link has a kind and leads to an
object, and two links may lead to the same object. A dataset is a record of what
the reader's decisions depend on: does it pass the storage and filter checks, its
class, rank and count, the bytes charged for decoding it, whether its payload
has a negative or unrepresentable element, and the string it holds. `pc` is the
position in the code, `frame` the graph being decoded and `callers` the
suspended activations of `read_graph_body`. There is one action per stretch of
code that ends in an early return: `CheckRootLinks`, `LoadVersion`,
`EnforceVersionPolicy`, `OpenTopGraph`, `ReadRootType`, `EnterGraph`,
`CheckGraphLinks`, `OpenNodes`, `OpenMember`, `ReadNodeType`, `OpenMetadata`,
`ReadEntry`, `ReadField`, `UnknownType`, `FinishLeaf`, `ReadEdges`, `LeaveGraph`;
`IoFault` is a failure of any HDF5 call, where the call says it may happen. The
checks a dataset undergoes are the sequence of refusals in `Verdict`, in the
code's order; the first is the error.

`NodeSchema` lists, for each of the 18 node types, the fields its decoder reads,
in order, with accessor and default. `ReaderContract` states what a read
promises without any order, ledger or token: the tree a file describes, one
level of nesting after the other; the parts of it that cost bytes, each with its
price, and their sum; and the files a call has to accept.

Abstractions: the bytes of a string or tensor are an input (`cost`), and so is
the major of a version text (`MajorOf`), both computed by the modules of the
next two sections; metadata keys come in any order, which covers HDF5's; the ledger a failed call leaves is
not kept, since the ledger is dropped with the call; a numeric scalar in a NULL
dataspace, and a variable-length payload sized without a limit, are left out.

### Decoding one dataset

`DatasetDecoder` follows one dataset from its dataspace to the value returned,
for each of the six things a dataset is read for. `CountElements`, `CountAxis`
and `CountDone` are `checked_shape_product` axis by axis; `ChargeNumbers`,
`ChargeFixed` and `ChargeVlen` the requests of the charging functions, with
`AllocationBytes` refusing what no single object may hold; `ReadNumbers`,
`ReadStrings` and `CopyStrings` bring buffers into being; `ChargeWords`,
`ChargeDefault`, `ChargePairs` are the second charges; `PairUp`, `GrowPairs` and
`MovePairs` are the `collect` of an iterator that does not tell its length: a
vector with room for `FirstPairs` (4) that doubles whenever it is full, in place
or with its old and its new buffer alive together, and panics where it would
pass `isize::MAX`; `RoundedText` is what the copies of short strings may take,
since `to_string` pushes the text as a whole into an empty `String`, whose first
buffer has room for `MinText` (8) bytes at least; `ShapeAxis` and
`ShapeDone` are the product that `Tensor::new` computes again
(`types.rs:319`). `buffers` holds the bytes of each kind of buffer alive, so
that charging and allocating are different events. `UsizeMax` and `IsizeMax`
are constants, and an extent may fit no `usize`, as HDF5's 64-bit extents on a
smaller machine. `DatasetContract` states what is charged from the rules listed
at `ReadOptions`, in plain arithmetic, and composes the decoder with the
one-step decoding of `GraphReader`.

Abstractions: elements are one of three classes (fine, negative, too big for
`i64`). What the model counts is what a `Vec` or a `String` asks of the
allocator, which is taken to give that and no more. `to_usizes` and
`read_u64_as_i64` collect an iterator over a vector into one of as large
elements, for which the library may use the same buffer again: the second
buffer of the model is then an upper bound.

### The version policy

`VersionPolicy` is one step, since `enforce_version_policy` is a pure function:
the parser over texts of single characters (here the text is the datum), and
the verdict of each policy. The list of majors is put in order by the one
arrangement that sorts it (`Sorted`), as what `sort_unstable` promises, and then
loses equal neighbours. `VersionContract` derives a text from the documented
grammar by cutting it at *any* separators, where the code cuts at the first it
meets, so that the two can differ: `Readings` tries every place for the two dots
and the suffix, `Dotted` finds every way to make a text out of words joined by
dots (the parser looks at the maximal stretches without a dot, `Stretches`), and
`Value` adds up digits by their places (the parser reads them from the left).

### The atomic writer

`AtomicReplace` is the promise of the documentation of `write`
(`src/src/io/mod.rs:418-446`): the path goes in one step from what it held to one
complete file, a failed write leaves it alone, a reported success had its step,
and a process may die at any point. The file installed has the mode that its
call found at the path (`Look`), or, if it found no file there, the mode its own
process gives a new file; the path may have changed since that look.

`AtomicWrite` is the code: per call a program counter over the calls it makes,
its two staging places (the stage, and the copy made when the stage is on
another file system), and its result. `Default` gives each call the mode that
the umask of its process leaves to a file created with 0o666, so two writers may
have different ones. The clean-up at the end of
`write_atomically` and of `promote_to_destination` are steps of the call, reached
from wherever an error leaves the closure. Every file-system call may fail up to
`MaxFaults` times; `MakeFile` and `MakeDirectory` may fail twice, for the drop
guard of the temporary directory. `Crash` is the death of a process between two
calls, not a power loss, about which the code promises nothing
(`mod.rs:456`). `Reshare` changes the mode of the destination's directory between
two looks at it.

Abstractions: the names `tempfile` draws are unique (external); the ancestry and
ownership checks of the staging bases are a verdict per base, reached in
`StagingBase`; the reading of the
mode and its setting on the staged file are one step; the destination changes
only through writers; `fs::copy` carries mode bits. On Windows the stage is
always beside the destination, so crossing devices does not arise.

`StagingBase` is `secure_staging_base`: one action per candidate
(`TryDestination`, `TryTemp`, `TryPrivate`), in the order the code tries them. A
place is the chain of directories above it with kind, owner and mode bits;
`VerifyOwnedAncestry` and `ParentIsSharedNonsticky` are the two walks over it,
which the code keeps apart. The base of a private candidate is not the directory
of the environment that was verified but one, two or three names below it
(`nir-rs-staging`, `nir-rs/staging`, `.cache/nir-rs/staging`): `added` is what
these names find before the call, `tree` what they find now. `CreateDirAll` is
the first half of `ensure_private_dir`, which makes the free names before the
first that is blocked and leaves them when it fails; `ClosePrivateDir` the
second, which sets the mode of the last directory only and may fail as well. New
directories have the mode the umask leaves (`lax`). The file tree changes by
nothing else during the choice: the change of a directory between two looks is
`Reshare` of `AtomicWrite`.

### The preflight, the encoder and the round trip

`GraphWriter` follows one graph through `write` (`hdf5_write.rs:35-60`): one
action per check, in the code's order, with the two that `validate` turns off;
`WriteFile`, which is `write_graph_body` with all it calls; and `ReadBack`, which
is `io::read` of that file with default options, after which the same call is
made with the graph that was read, up to `MaxRounds` times. A check or a decoding
that fails ends the call, and `refusal` keeps which check it was. Nothing is
assumed about how the checks relate to the encoder: `ExtentsLegal`, `RankChecked`
and the rest are translated from the checks, `FieldsEncode`, `ValueEncodes` and
`GraphEncodes` from the encoder and from what HDF5 refuses to create.

`NodeEncoding` holds the translation of one node in both directions. `Writes`
lists the fields each `write_*` function writes and in which form; the decoding
side applies the accessors of `NodeReader` to the fields of `NodeSchema`, the
same table that `GraphReader` uses. A dataset is an element class, a shape, the
elements and the level of its filter. `Creatable` is what HDF5 takes: a rank up
to `MaxRank`, no extent of `u64::MAX`, which it reads as unlimited
(`Unlimited`), and a filter only on what can be chunked.

Abstractions: elements are integers, so that a float's width is its class alone;
texts are tokens, some of which hold a NUL or are no link name; the order of
nodes and metadata keys is left out (the reader sorts the one and the other is a
hash map); each check is one step, so which of several faults it reports is left
out; `validate_structure` is its condition here and an algorithm in
`StructureValidator`. The file system is `AtomicWrite`'s, and the budgets and
untrusted links are `GraphReader`'s: a file of the writer has hard links only.

### Graph validation

`GraphModel` is the in-memory graph as the validators see it, and the checks of
one graph. `StructureValidator` is `validate_structure`: one action takes a
graph off the work list and checks it, one visits each of its nodes in turn and
puts the nested graphs aside with a frame of the arena, and one turns these onto
the work list, so the order of pushing and popping is explicit; the path of an
error is rebuilt from the arena's parent indices. `NodeParameters` is the list
of conditions on a convolution or pooling node in the order they are made;
`ParameterValidator` the recursive walk that applies them. `GraphValidation`
runs one after the other. `ValidationContract` says what both report from the
documentation: for the structure, the report of a graph from those of the graphs
inside it (`Reports`, a function of the levels that are left); for the
parameters, the set of *all* offending nodes of the tree (`Problems`), with their
places, and that the one reported comes first among them in insertion order
(`FirstOf`, `Earlier`), under conditions in no order (`NodeLegal`). Messages are
not modelled; variants, paths, and which condition failed are. Which of several wrong extents is reported first is left
out, and so is the axis of a zero weight extent.

## 3. What the runs check

| Run | Instance | Question |
|---|---|---|
| `reader` | (a) three graphs, two members each, any of them absent, shared, soft-linked or closing a cycle, and four graphs, under three sets of limits; (b) a readable file with one link removed, redirected, soft or external, or one dataset spoiled in one of 16 ways, under four policies and both entry points; (c) three readable files under byte limits 0 to 30 and node, edge and graph limits around the totals, HDF5 failing or not | Does every read return, with the tree the file describes, decoding no graph twice, exactly when the contract accepts the file? Is anything opened before it was cleared, before the version was accepted, or of a graph before it was counted? Are limits exact? |
| `reader_alias` | two graphs sharing a nodes group | Finding 1 |
| `writer_unix` | two writers with different umasks, two modes, two failing calls, one crash, one change of the directory | Does the code implement `AtomicReplace`, clean up, keep the mode of a file that was there, and return? |
| `writer_windows` | the same with three faults and the remove-first branch | Is a partial file ever at the path? |
| `writer_windows_failure` | one writer, two faults | Finding 2 |
| `writer_umasks` | the same writers, no fault | Finding 3 |
| `graph_writer` | a tree of two graphs with each of the 18 node types at two depths, each field at and past its limits or absent, every kind of metadata on every node, and variations of names, edges, versions, levels and the number of graphs; two rounds | Can what passes the checks always be encoded, read, and written again, and does it come back as documented? |
| `graph_validation` | trees of five graphs up to one level too deep, faults in up to three of them; every convolution and pooling node over small sets of field values | Do both walks report what recursive definitions report? |
| `dataset_decoder` | every element class over shapes of up to three axes with extents around `usize::MAX` and `isize::MAX`; six purposes; three byte limits and a ledger already used; three edge limits | Is every buffer paid for before it exists, exactly by the documented rules and the pairs of an edge list, and by how much may a vector outgrow what was paid? Do the steps add up to `GraphReader`'s one? |
| `version_policy` | 3,200 texts: eight beginnings with every ending of up to three characters; all policies, five lists of majors | Is the parser the grammar, and do all callers decide alike? |
| `staging_base` | destinations of up to two directories of every kind, owner and mode; a shared destination with every combination of bases, and everything the joined names of an accepted one can find, under either umask | Do the walks agree? Is a base taken that the documentation does not allow, and where does only what is joined to it fall short? Is anything else made or closed? |
| `staging_base_added` | bases nobody has prepared, under either umask | Finding 4 |

The properties, by what they would catch:

* `AcceptsExactly` is the strongest of the reader's: each terminated call is
  compared with `Acceptable`. A check dropped, moved or repeated, a charge
  forgotten or made twice, an overflow ignored shows as a file on the wrong side.
  `ReturnsDescribed` adds that the decoded tree is the described one.
* `NodeLedgerExact` relates the node ledger to the names waiting in all open
  graphs at every step, so a node is paid for before its name is held.
* `OnlyHardLinksFollowed` and `VersionFirst` speak of the history of opened
  links: not that a bad file is refused but that it is not touched first.
  `GraphsCountedFirst` says so of the metadata of a nested graph, which no count
  limits, and the graph's own place in the ledger; `AcceptsExactly` cannot see
  that order, since it takes all refusals alike.
* `ImplementsAtomicReplace` covers torn files, lost and false reports and modes
  at once; `ExistingModeKept` that the mode of a file which is there before the
  calls stays at the path whatever replaces it, although the mode is read several
  calls before the rename and umasks differ (where no file is there at first,
  finding 3); `NothingLeftBehind` covers the clean-up, `WholeOrOriginal` what
  remains true on Windows, `WritersReturn` that every path ends.
* `PreflightSuffices` and `WrittenIsReadable` relate tables that are kept by
  hand in three places: the checks, the encoder and the reader. A field missing
  from one of them, or a count that is off by one, shows as a graph that fails
  after staging, or as a file that cannot be read. `PreflightSuffices` excepts
  an extent of `u64::MAX`, which only a tensor without elements can have
  (`[usize::MAX, 0]`): no check looks for it and HDF5 does not create it.
* `ReadsBackAsDocumented` compares the graph read with what the documentation of
  `read` and `WriteOptions` says is filled in or lost; `ValidatedIsLossless` says
  that with validation on nothing of the metadata and versions is.
* `RereadIsStable`: a graph read from a file of this crate is a fixed point.
* `StructureAsRecursive` and `ParametersAsDefined` include the reported path;
  `SameDepthLimit` relates the two walks, which count depth differently;
  `FaultsDecide` says without any order that an accepted tree is sound in every
  graph of it and a rejected one is not; `WorkIsLinear`, that no graph is
  framed twice.
* `PaidBeforeHeld` compares the ledger with the buffers alive at every step, so
  a read moved before its charge shows. It allows for what the code makes room
  for beyond what it charged, by its size: `TextRounding`, `MinText` less one
  byte for each copied string, and `PairRounding`, the room for four pairs that
  `collect` starts with or, when a full vector moves, three times the pairs.
  `BuffersFitObjects` speaks of the single buffers without a limit, the vector
  of pairs and its doublings included.
* `ChargesExactly` is the documented sum, and that of the edge pairs, to the byte; `RefusedOnlyOverBudget`
  asks every refusal for a cause in plain arithmetic, so that a product that
  overflows early, a comparison off by one or a charge against the wrong ledger
  shows; `CountsMathematically` is the zero shortcut.
* `ParsesGrammar` also says that no text has two readings;
  `SamePolicyForSameMajors` that order and repetition in the caller's list do
  not matter; `EnforcedAsDocumented` the verdicts.
* `WalksAgree` relates two hand-written walks that stop differently;
  `TakenAsDocumented` holds the base taken against the documentation: its
  verified part meets it always, and the names joined to a private one exactly
  when they were free (the ones before the last under a strict umask) or owned and
  closed before the call. `TouchesOnlyOwned` says that what a call makes or
  closes, also one that fails half way, is below the first directory of the
  environment that is owned throughout, and only for a destination that needs it.
* `DecodesAsDescribed` (but for a vector of pairs that panics, which the reader's
  one step does not have), `EnforcedAsDocumented` and `ChosenAsInAtomicWrite` join
  each of these modules to the one that abstracts from it.

The type invariants of the modules that have proofs are proved. Only
`GraphWriter`'s also takes part in a run: there the types of what is read back are
the point. `DepthBounded`, the bound on the reader's stack, `OnlyGrows`, that its
ledgers and tokens are never released, and `NothingLeftBehind` on Windows are
proved and in no run.

Bounds. Three graphs with two members are enough for a self-loop, a two-cycle, a
diamond and a chain; the cap `MaxGraphs` of 3 replaces 1024 and is reached
and, by four graphs, exceeded. `UsizeMax` of 40 lets sums and the requests that fit no
`usize` occur. Two writers are enough for each pair of steps to interleave; two
faults reach a failing step with a failing clean-up, and three on Windows both
renames and the clean-up. `MaxDepth` 2 instead of 1024 leaves room for a graph at
and one past the limit. `MaxRank` 2 for 32, `I64Max` 7 and `MaxGraphs` 3 leave
room on both sides of each limit; two rounds suffice because the second starts
from a graph that was read; `Unlimited` 15 is an extent no other tensor of the
instance has. `UsizeMax` 127 and `IsizeMax` 63 with extents 32 and 128
let a product pass each of them, and come back to zero after it, within three
axes; with pairs of 6 bytes, a vector of pairs is never full for two edges, doubles
for five and panics for nine, and no larger machine adds a case. `MinText` is 2,
so that strings shorter and longer than it occur; the fixed-string capacities 2
and 4 have widths below, between and above.
`U64Max` 10 over the digits 0 and 1 makes 11 the number that does not fit; an
ending of three characters fits each separator with an identifier on either side.
Two directories below the root suffice for a walk to meet its obstacle at, above
and below the place itself; the joined names are as many as the code joins. Two
umasks and two modes suffice for a mode to be lost.

Fairness. A read and a validation are single sequential calls that never wait, so
`WF_vars(Next)` says only that the process keeps running. A write waits for
nothing either, so each call is weakly fair on its own steps; `Crash` and
`Reshare` have no fairness. Deadlock checking is off because calls end.

## 4. Findings

1. `src/src/io/mod.rs:150-151` says hard-link aliases are rejected before they
   can charge a second time. Only NIRGraph groups have their token kept
   (`hdf5_read.rs:323-347`): a nodes group, or a leaf, that two graphs link to is
   decoded and charged once for each.
2. `mod.rs:425` says a failed write leaves an existing destination unchanged. On
   Windows `rename_replace` removes the destination before its second rename, and
   when that fails too the destination is gone.
3. `mod.rs:442` says existing mode bits are preserved. A call that finds no file
   at the path keeps the mode its umask gives a new file; if another process, with
   another umask, puts its file there before the rename, that file's mode is lost
   (`hdf5_write.rs:107-122`). A file that was there before all calls does hand its
   mode down, which is `ExistingModeKept`.
4. `mod.rs:431-433` says the private bases are taken if *all ancestors* are owned,
   no links and not open to others. `verify_owned_ancestry` looks at the directory
   of the environment; the names joined to it (`hdf5_write.rs:329`, `337`, `345`)
   are not looked at, and only the last is closed. With a umask of 002,
   `create_dir_all` itself leaves `nir-rs` open to the group above `staging`.

Differences that no run of its own shows:

* `mod.rs:122-137` lists "the exact rules" of what `max_bytes` is charged for;
  `read_edges` charges 48 bytes more for each edge, the pair of strings it collects
  (`hdf5_read.rs:414-421`), which the list does not name: `ChargesExactly` holds
  only because `FullCost` adds them to `DocumentedCost`.
* The vector of these pairs is collected without a size hint and takes more than
  the 48 bytes charged for each: 192 for one edge and, while it moves to a larger
  buffer, up to three times the charge. This is the `PairRounding` of
  `PaidBeforeHeld`. The comment at the charge wants it made "before building the
  pairs", so that no edge list slips under the budget; `mod.rs:154-155` exempts
  "collection bookkeeping, allocator overhead", which may be meant to cover it.
* `shape_product` (`types.rs:319`) multiplies from the left without the zero
  shortcut of the reader's product (`hdf5_read.rs:1430`): a dataset of shape
  `[usize::MAX, 2, 0]` is counted as empty, charged nothing and then refused by
  `Tensor::new`, which is the disjunct `ZeroHidesOverflow` of `Described`.
* The comment of `check_usize_fields` (`hdf5_write.rs:611-612`) says that
  everything it refuses fails in `write_graph_body` too. A Conv2d `input_shape`
  that does not hold exactly two extents is refused (`hdf5_write.rs:664`, as
  `mod.rs:514` documents), but `write_conv2d` writes any number of them
  (`hdf5_write.rs:1013-1015`), and the reader accepts them.
* The extent of `u64::MAX` that fails only in the encoder is the exception of
  `PreflightSuffices`; the comments at the checks name what each looks for, and
  none claims that this is everything.

## 5. What is proved

Every invariant and every safety action property that a passing run checks is
also a theorem, proved by TLAPS for every value of the constants, with the
assumptions named in the modules (`UsizeAssumption`, `NoLimitAssumption`,
`OverflowAssumption`, `ContainerAssumption`, `OptionsAssumption`,
`WriteAssumption`, `DecoderAssumption`, `MachineAssumption`, `VersionAssumption`,
`EncodingAssumption`, `RequestAssumption`, `ModelAssumption`, `InputAssumption`,
`LeafAssumption`), which TLC evaluates on each instance. They say what the
inputs are (names are finitely many, the stride of a convolution is a sequence of
integers) and that markers such as `NoLimit` are no numbers. One is about the
code: in `FieldPlan`, the reader's table of fields, a default is shaped like a
field that had to be read before it. `MCGraphReader` asserts this of every row of
`NodeSchema`.

Types and ledgers of the reader, and what it opens (`GraphReaderProofs`):

| Theorem | Argument |
|---|---|
| `TypeCorrect`, `BudgetsHold` | one invariant `SafeInv`: types, ledgers within limits, and that the fields a default is shaped like were decoded before. Types alone are not inductive: that a charge stays in `usize` needs that it was admitted |
| `StaysInsideTheFile` | `ClearInv` adds, for each position in the code, which groups have been cleared |
| `RecursionIsBounded` | `DepthInv`: each suspended graph has a token of its own |
| `NoGraphTwice` | `TokenInv`: open graphs are entered, pairwise different, and not yet in the tree |
| `EnvelopeFirst` | `VersionInv`: before the policy step nothing of `/node` is opened |
| `NothingReleased` | an action property, from the type invariant |
| `GraphsAreCountedFirst` | `LeafInv`: where the metadata of a node is read before its graph's, the node is no graph; the rest is in the invariants below, which keep that an open graph has its token and that tokens are what the ledger counts |
| `NodesChargedOnce` | `LedgerInv`: the frames of the stack are nested one in the other, no decoded node is below a name that still waits, and the names that wait anywhere add up, over the stack, to what the ledger is ahead of the tree |
| `TreeAsDescribed` | `TreeInv`: what is decoded and what is open lies on a level of the description, and of an open graph everything is decoded but what it waits for. A returned tree is then closed under the description's step, level by level; the paths of open graphs are within it because each level was entered by a name |
| `AcceptedExactly` | `ContractInv`: at every step each ledger is the sum of the prices of what was decoded so far (`PaidInv`, `EdgesInv`, `HeldInv`, `SeenInv`), and all of that is readable (`ReadableInv`). At the end these sums are the contract's, so what returned is acceptable; and `RefusalInv`: each refusal names a part that the description contains and whose price, added to a part of the total, passes the limit, so what the contract accepts is refused only by a fault of HDF5 |

Decoding of one dataset (`DatasetContractProofs`):

| Theorem | Argument |
|---|---|
| `PaidFirst`, `BuffersFit`, `DecoderTypeCorrect` | `IInv`: at each step how much of the charge is spent and which buffers make it up, per class of element; the ledger stays in `usize` because each charge was admitted, and each buffer in `isize` because `AllocationBytes` refused it otherwise, limit or none. The vector of pairs is the first room for them or less than twice the pairs, since it doubles only when full, and it stays in `isize` because it panics otherwise |
| `CountsExactly` | the running product is that of the extents so far; a product that passes `usize` only grows unless an extent is zero, which was looked for first. By induction over the axes |
| `ChargedToTheByte`, `NeverRefusedByWrapping` | `ExactInv`: what is spent at each label in plain arithmetic; each checked operation `Stands` for the amount it computes, so `None` means that the amount is past `usize` or past the largest object |
| `DecodesInOneStep` | `MatchInv`: which checks of `GraphReader`'s `Verdict` the steps so far have passed; the order of the decoder's refusals is that of the verdict |

Version policy (`VersionProofs`):

| Theorem | Argument |
|---|---|
| `DecisionsTyped` | with `DecisionInv`, that an error reports the text observed |
| `GrammarParsed` | a core has no `+` and no `-` and a prerelease no `+`, so that the first plus and, before it, the first hyphen are the only places a reading can cut; a text is words joined by dots exactly if its maximal stretches are words (induction over its length); and digits read from the left have the value of their places |
| `SameMajorsSamePolicy` | sorting is a bijection, so it keeps the set; without equal neighbours a sorted list is strictly ascending; and two strictly ascending lists of the same set are equal |
| `VerdictAsDocumented` | the verdict of each policy by cases, with the two theorems above, and the same for the policy step of `GraphReader` |

Atomic writes and staging (`AtomicWriteProofs`, `StagingBaseProofs`):

| Theorem | Argument |
|---|---|
| `WriterTypeCorrect` | `TypeInv`: types, and a file's directory exists while the file is made |
| `WriteIsAtomic`, `FailuresLeaveThePath` | outside Windows. `ReplaceInv`: at each step what the call's staged files hold, and that a staged file which is next to be renamed has a mode, the one the call found or its own default. Nothing is assumed about how the defaults of two calls relate |
| `ModesSurvive` | outside Windows. For each mode that a file at the path has at the start: the path keeps a file of that mode, and so does every staged file from the step that copies the mode to its rename |
| `NothingStays`, `NeverTorn` | on both platforms. `TidyInv`: unless one of its removals failed, what a call has in its two staging places at each step; `WholeInv`: from the steps a rename can follow, the staged file or its local copy is whole, whichever branch renames it |
| `WalksAlwaysAgree`, `BaseTypeCorrect` | the first untrusted entry of a chain decides both walks |
| `OnlyOwnedIsTouched` | the joined names of a candidate change only in its own step, which follows those of the candidates before it and its own walk |
| `BaseAsDocumented` | `IInv` keeps that a base past the destination is tried only when that one is untrusted, and what its joined names find at each step: as before the call, filled, or filled and the last one closed |
| `ChoicesAgree` | `ChoiceInv`: the verdicts of the candidates passed over, which leave `AtomicWrite` the same base |

Preflight, encoder and round trip (`GraphWriterProofs`):

| Theorem | Argument |
|---|---|
| `PreflightIsEnough` | `CheckInv`: each check holds of the graph from the step after it until the write. `CheckedGraphsEncode` shows that the checks leave the encoder nothing to refuse but an unlimited extent, node type by node type; `FieldsAreWritten`, that a decoder reads exactly the fields its encoder writes, carries the invariant through a read |
| `GraphsStayTyped`, `WrittenIsRead` | `ReadInv`: a file that was written is the file of a checked graph of the caller's kind. `DecoderFollows` shows, node type by node type, that each decoding step uses the accessor for the form the encoder writes, is optional only where the field is an Option, and shapes a default like a field that is always there; `FieldsReadBack` and `MetadataReadsBack` carry the types through the file |
| `ReadsBack`, `NothingIsLost` | the same lemmas give the value of each field: the graph read is the documented conversion (`Expected`) of the one written, field by field and metadata value by metadata value; with validation the conversion leaves metadata and versions alone |
| `SecondRoundIsStable` | a graph that was read is settled: it passes the checks again, and its documented conversion is itself, which `ReadInv` keeps over any number of rounds |

Validation (`GraphValidationProofs`):

| Theorem | Argument |
|---|---|
| `ValidatorsTypeCorrect` | `TypeInv`: the arena is a forest whose parents come first |
| `WalkIsLinear`, `FaultsAreDecided` | `HeapInv`: there is a function from frames to the graphs they stand for. It is injective, waiting graphs have frames of their own, and each graph taken off the list was checked and has its nested graphs framed; types and the list alone do not bound the arena |
| `DepthLimitsAgree` | `HeapInv` and `DepthInv`, both about the set of places (graph, depth) that the nesting leads to: each walk stays inside it, and each finds a place past the limit if there is one |
| `HeapWalkIsRecursive` | `AnswerInv`: what is still ahead, the rest of the scan, the nested graphs found and the work list from its top, gives the recursive answer, where an item says what the recursive definition reports of its graph, under the path rebuilt from the arena. Pushing in reverse and popping keeps "the first that says something"; that depth is counted when pushed and by the levels left agree through the arena |
| `FirstProblemReported` | `CallsInv`: nothing before the next node of any open call is an offence (`Clear`), and the first offence of each open call, put below the path that led there, is the first of the whole tree (`Carried`). A node passes the ordered conditions with no report exactly if it meets the unordered ones (`LegalNode`, with the remainder for groups); returning from a call without a problem means its graph has none |

The proofs about folds (a product over a shape, a ledger over a stack, a path over
an arena) and about definitions by levels need induction, and the library's
theorem takes a predicate as its parameter. `Induction` states it of sets instead:
`SetInduction`, a set of naturals that holds 0 and the successor of each of its
members holds all of them, and `RecursionExists`, for each step function there is
a function that follows it, both from the well-foundedness of `<`. An inductive
claim is the set of the numbers it holds of; a recursive function of the model
equals the one that exists.

Only model-checked: the three liveness properties `Terminates`, `WritersReturn`
and `ValidationsReturn`. They rest on fairness and ENABLED, which this prover does
not treat. The four findings are counterexamples and need no proof.

## 6. Not modelled

Open: a change of the destination's *own* mode between the stat and the rename of a
write (`hdf5_write.rs:109`): the code takes the old mode, and its documentation
promises nothing of that race.

Left out, with the reason:

* the graph container (`insert_node`, `add_edge`, `get`, iteration): one-line
  operations on `IndexMap` and `Vec`, whose result is the input of the validators
  and the writer;
* most of `types.rs` and `nodes.rs`: declarations, constructors and accessors. Where
  one decides something (`Tensor::new`, `zeros_like`, the fields a node has) it is
  modelled where it is called;
* which texts are legal as link names, strings or type names (`io/wire.rs`): a
  constant of the models;
* `error.rs` and `Display` texts; variants are kept where a property tells them
  apart;
* a power loss, about which the crate promises nothing (it does not `fsync`,
  `mod.rs:456`);
* HDF5 itself, `tempfile`, the serde derives, and the example, fuzz and script
  files, which hold no state of the crate.
