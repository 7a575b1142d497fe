# Verification of structstream

structstream is a C++11 library for a binary, hierarchical record format.  A
*stream* is a sequence of records with an id; a record is a leaf or a container
of further records.  Between the format, trees of nodes in memory and user
structs, everything moves as a sequence of four events of one interface,
`StreamSinkIntf`: `start_container`, `push_node`, `end_container`,
`end_of_stream`.  This directory holds TLA+ models of that machinery, their TLC
configurations and TLAPS proofs.  Paths below are relative to the repository.

## 1. Inventory

All of the library is single-threaded: a call runs to its end on the caller's
thread, or leaves by an exception.  What is hard is the *order* of legal calls,
what an exception in the middle of a step leaves behind, two pieces of state that
must move together (a stack and a chain of pipes, depths and containers, a parent
pointer and a child list), and counts at their boundaries.

| component | state | operations | what makes it correct |
|---|---|---|---|
| Stream events (`streaming_base.hpp`) | none | the four events, `ContainerMeta`, `ContainerFooter` | events are balanced; an announced child count is kept |
| Bitstream reader (`FromBitstream`) | `_parent_stack`, `_source_h`, `_sink_h`, `_forgiveness` | `read_all`, `read_next`, `set_forgiving_for`, `close` | sink sees a legal stream; the chain of hash pipes is that of the open containers; a digest covers exactly the body; nothing unvalidated goes unnoticed; every call returns |
| Bitstream writer (`ToBitstream`, `ToBitstreamHashing`) | `_parent_stack`, `_dest`, `_armor_default`, `_hash_functions` | the four events, `set_armor_default`, `set_hash_function`, `close` | what it writes reads back as what was sent; settings changed in mid-container do not matter; an interrupted stream is not a complete one |
| Hash pipes (`io_hash`, `hashing_*`) | an inner stream and a digest in progress | `read`, `write` | see reader and writer |
| Deserializers (`serialize*`) | a chain of generated objects, each with `_depth` and `_nested` | the four events, `finalize`, destructors | every event reaches the object of its own container; missing and surplus records are reported, as exceptions a caller can catch |
| Serializers (`to_sink`) | none | one walk over a value | what a declaration writes, the same declaration reads, in the same place and without an exception |
| Tree streams (`FromTree`, `ToTree`, `streaming.cpp`) | `ToTree`: stack of containers | a walk over a tree; the four events | `ToTree` of `FromTree` is a copy; balanced even when the sink refuses |
| Sinks (`SinkTree`, `SinkChain`, `NullSink`, `ThrowOnAll`, `SinkDebug`) | nested sink and depth; queue of sinks | the four events, `nest` | a nested sink sees exactly one container |
| Node model (`node_container`, `node_base`, `node_factory`) | children, table of ids, parent, `_self` | `child_add`, `child_insert_before`, `child_erase`, `detach_from_parent`, copies | child lists, parents and the table of ids agree; a node is in one container |
| Iterators (`NodeTreeIterator`, `FindMostShallow`, `FindAll`) | a chain of nested iterators | `++`, `skip` | every match is found once, in document order |
| Variable-length integers (`utils.cpp`) | none | `read_var*`, `write_var*` | what is written is read back; nothing that is read takes more bytes when written again |
| Data records (`node_primitive`, `node_blob`, ...) | a value, or a buffer and a length | `read`, `write`, `copy`, `set` | read back on any host as written; every buffer has one owner |
| Input and output (`io*`) | buffer and offset | `read`, `write` | short reads and writes surface as errors |
| Registry (`registry.cpp`) | table from record types to constructors | lookup | unknown types are reported |

Who calls whom: `FromBitstream` *calls* a sink (a `ToTree`, a
`DeserializerSink`, a `ToBitstream`, any user sink) which may refuse (return
false) or throw; it reads through a *shared* chain of `HashPipe`s that it builds
and takes down itself.  `FromTree` and the serializers call a sink in the same
way.  `ToBitstream` is a sink and writes through its own chain of pipes.

`PROJECT.json` lists the hazards line by line; each names the property that
covers it or says why none does.

## 2. Modules

| module | models | composes |
|---|---|---|
| `StreamProtocol` | what a sink may rely on: the abstract specification of any event source | |
| `FromBitstream` | the reader | `StreamProtocol` (as `Sink`, refinement) |
| `FromBitstreamProofs` | theorems about the reader: pipes, digests, pointers | extends `FromBitstream` |
| `ReaderSinkProofs` | theorems about what the reader tells its sink, the refinement | extends `FromBitstreamProofs` |
| `ToBitstream` | the writer | |
| `Roundtrip` | a source writes, the output is read back | `StreamProtocol`, `ToBitstream`, `FromBitstream` |
| `RoundtripProofs` | theorems about the writer | extends `Roundtrip` |
| `ReadBackProofs` | theorems about the round trip: what was sent is read back | extends `RoundtripProofs`; `ReaderSinkProofs` (for the reader) |
| `Deserializer` | the deserializers behind a `DeserializerSink` | |
| `Serializer` | `serialize_to_sink` into the sink that deserializes | extends `Deserializer` |
| `DeserializerProofs` | theorems about the deserializers, for any sender and for the serializers | extends `Serializer` |
| `VarInt` | the variable-length integers | |
| `Memory` | `WritableMemory`, `ReadableMemory`, `sread`, `swrite` | |
| `Records` | data records in memory, written and read with a registry | extends `VarInt`, `Memory` |
| `RecordsProofs` | theorems about memories and buffers | extends `Records` |
| `NodeTree` | nodes in memory: children, tables by id, parents, lifetimes | |
| `NodeTreeProofs` | theorems about tables, parents, places and lifetimes | extends `NodeTree` |
| `TreeIterators` | `NodeTreeIterator`, `FindMostShallow`, `FindAll` | extends `NodeTree` |
| `TreeStream` | `FromTree` into `ToTree`, `SinkTree`, `SinkChain` | extends `TreeIterators`; `StreamProtocol` (as `Sink`, refinement) |
| `TreeStreamProofs` | theorems about `FromTree`, `ToTree` and `SinkTree`, the refinement | extends `TreeStream` |
| `MCFromBitstream`, `MCRoundtrip`, `MCDeserializer`, `MCSerializer`, `MCRecords`, `MCTreeStream` | instances for TLC | |

### StreamProtocol

State: the containers that are open (`open`, each with the count it announced and
the children it got) and whether the stream is `live`, `ended` or `cut`.  One
action per event; `Cut` stands for everything that ends a stream early.  With
`Exact` a container ends with as many children as announced and never gets more.

### FromBitstream

The variables are the fields: `parents` is `_parent_stack` (its last element is
`_curr_parent`), `source` the hash pipes between `_source_h` and the input, `held`
which of the two handles are set, `forgiving` is `_forgiveness`.  `pc`, `api`,
`wait` and `ret` are the control state of the running call:
`read_step`, `check_end_of_container` and `end_of_container` call each other in
tail position only, so one value says which is next.  `wait` is `this_len` of
`read_next`.

The input is a sequence of *units* (a record, a container header, an
end-of-children marker, a footer) that a step chooses when it reads it; all
inputs up to `MaxPos` units are covered.  A token is told by what the code tests:
reserved or unknown record type, appblob, broken body, leaf, EOC, or a header with
its size, armor, hash type and unknown flags.  A digest is abstracted to *what has
been hashed*: each read through the chain adds to `fed` of each frame whose pipe
is on the chain.  `Int32Half` stands for 2^31, so the conversion of the size to
`int32_t` wraps.

Each action is a whole step of the code up to the next call of the reader's own
functions: `ReadEoc`, `SkipAppblob`, `PushNode`, `StartContainer`, `RejectToken`
and `ReadEof` are the outcomes of `read_step`; `CheckFull` and `CheckDone` those
of `check_end_of_container`; `RejectFooter`, `FooterEof`, `EndContainer` and
`EndOfStream` those of `end_of_container`.  A refusal or an exception of the sink
runs `Cleanup` (`cleanup_state`) exactly where the code does.  `Crashed` is the
null pointer of a second `close`.

History variables record what the sink observed (`open`, `phase`, `footer`), what
was ever forgiven, and what one `read_next` has taken.

### ToBitstream and Roundtrip

`out` is the output as a sequence of units, `dest` the chain of write pipes, `stack`
the `_parent_stack`.  A digest in the output carries the set of units it was
computed over.  Writes fail at any event; `StartUnsupported` and
`EndWithoutDigest` are the two places where the code throws, or fails, between
two writes of one event.  Removing a hash function that is not set erases an
`end()` iterator: the state becomes `undefined` and nothing is claimed from there.

`Roundtrip` sends a legal stream (an instance of `StreamProtocol`) to the writer,
may stop it anywhere, and then lets an instance of the reader read the output.  The
reader's tokens are then no longer free but computed from `out`, and a digest
matches if what was fed to the reader's pipe is what was fed to the writer's.

### Deserializer

A declaration is a record of its template arguments.  `levels` is the chain of
deserializers, outermost first, each with `_depth` (0: nothing nested), `_found`,
`_thrown` and `_offs`.  Objects in memory are not modelled, but whether and how often
one was stored is; a `member_record` is told by how many nodes `ToTree` has put in it.
`StartContainer`, `PushNode`, `EndNested`, `EndWithin`, `RefuseChild` are the outcomes of the events, `EndOfStream` and `Destroy` the two
ways the sink ends.  `open` and `unmet` record the truth about the stream
independently of the chain.

### Serializer

`todo` holds the calls of `to_sink` and of the sink that are still to be made, so that the
recursion of the templates becomes a stack.  Each `to_sink` is one action: a value
(`WriteValue`), what is written as a container (`WriteContainer`), a record that `FromTree`
writes under its own id (`WriteRecord`), a null record that is left out
(`OmitRecord`); and every event is one of the actions of `Deserializer`, so that exceptions
of the deserializer end the walk.  A refusal, which the code ignores, ends it in the model too:
`WrittenIsAccepted` shows that nothing is left to write then, so that the code
sends no event either, for the objects it is about.
`sender` says whether the events come from there or are any stream at all.

The serializers write an id, the first of the selector, and rely on the deserializer to
find the same member by it.  `misread` records where that fails: only in structs in which an
earlier member selects the id of a later one.  `lossy` records the values that cannot be read
by their own declaration: a `member_record` that refers to a container with an id it does not
select, and a null one, which writes nothing, where something is `Mandatory`: as the object of
`only`, in a `member_struct_wrap`, or in a `static_array` that requires all.  There the
deserializer throws `RecordNotFound` for what the serializer has written.

### VarInt, Memory and Records

`VarInt` translates `utils.cpp` with the width of a byte as a parameter: bit
operations become arithmetic, and reading returns a value and a count, or why there is none.
`Memory` keeps the two counters that can disagree, bytes written and size of the buffer.

`Records` puts them to use.  `objs` and `heap` are the string and blob records of a program and
the blocks of its heap; `Set`, `Copy` and `Drop` are the methods of `BlobDataRecord`.  What the
code gets wrong when memory is refused is there as well: `SetRefused` (the length is
set, the freed pointer kept), `SetEmptying` (`realloc` to size 0 may return null),
`CopyRefused`, `WriteUnset` (an unset string has length -1) and `UseGone`; they set `excused`,
and nothing is claimed afterwards.  `WritePlain` and `WriteBlob` write a header and a payload
to `mem`; `StartReading` hands it to a reader with some registry on a host of some byte
order; `ReadRecord` is `read_step` within a container, with an unknown appblob skipped if the
reader is `forgiving`.  A `BoolRecord` has no payload: its type is its value.

### NodeTree

`nodes` is the heap; a node has its `_children`, the nodes in its `_id_lut` (`table`)
and its `_parent`.  `held` are the nodes the user has a `NodeHandle` of.  Every
action ends with `Become`, which takes from `alive` what no list, table or handle
refers to any more, as the shared pointers do; a weak handle of a parent that is gone
is empty (`ParentOf`).  What is left (`Kept`) is, beside the nodes held, the largest set
each member of which one of them all refers to.  Each public operation of `Container` and `NodeHandleFactory` is
an action.  `_self` is assigned after the constructor, so the children given to a
constructor, and all those of a deep copy, get an empty parent; the history variable
`listed` remembers them.  A deep copy is told by what it is: new nodes (`of` tells whose
copies they are, `into` which copies are their children), one for each place below the original
(`IsCopy`); a container below itself has none, as `copy()` does not return then.
Calls that throw change nothing and are no steps.

### TreeIterators

An iterator is the sequence of positions of its chain of nested iterators.  `Plus` and
`Skip` are the recursive methods as recursive functions; `DocumentOrder` is the
reference they are compared with.  `Skip` follows the code in skipping again after
it has skipped in the nested iterator: having matched a container two levels down,
`FindMostShallow` goes on behind the child of the root that holds it
(`PassedOver` states what is lost by that).

### TreeStream

`walk` is the stack of the loops of `subtree_to_sink`.  The sink is the head of `chain`: a
`ToTree` (`root`, `stack`) that builds its own tree or adds to the one that is streamed, or
a user's `SinkTree` (`depth`) that may nest another sink whenever a container
starts and answers true, false or with an exception.  Two outcomes are
undefined behaviour in the code, and nothing is claimed after them: a child added
to a container whose iterator is in use, and the front of an empty list.
`DefinedWhenBalanced` says when they can happen.  `open`, `outer`, `nested`,
`within` and `switched` record what was really sent to whom.

## 3. Runs

| run | question | result |
|---|---|---|
| `reader_strict` | with nothing forgiven, are stack, pipes, digests and counts consistent in every state, does the sink see a legal, exact stream (`KeepsProtocol`), does `read_next` stop after the nodes of the depth it measures, and does every call return? | holds |
| `reader_forgiving` | the inductive invariant `ReaderInv`, the sink in step, and trust in digests, with forgiveness switched between calls, unknown functions, also for callers that go on after exceptions | holds |
| `reader_read_next` | does `read_next` read one node, also of size 0? | violated: `read_next` goes on into siblings |
| `reader_size` | has a container as many children as its size says? | violated: truncated to 32 bits |
| `roundtrip` | written streams read back as sent, interrupted ones are noticed | holds |
| `deserializer` | events reach their own object; arrays, sequences, wrappers and records store and report what they should; what the serializers write is read by the declaration that wrote it | holds, except for ambiguous structs and for records left out where one is mandatory |
| `records` | do records of every class come back as written, from full memories and with unknown types too; has every buffer one owner; can all that is read be written again? | holds; memory that is refused, an emptied blob and an unset string are undefined |
| `records_surplus` | are the surplus bits of an unsigned number out of range cut off, as `utils.hpp` says? | violated: what is written has more bytes than a number can have, and is not read |
| `deserializer_missing` | is a missing required record always reported? | violated: an unknown container in a `static_array` counts as an item |
| `deserializer_terminate` | do errors reach the caller as exceptions? | violated: `only` throws from the sink's destructor, `std::terminate` |
| `tree` | do lists, tables and parents agree, has a node one place, is anything kept too long? | holds, except for nodes given to a constructor |
| `tree_stream` | does `FindAll` find every match, and `FindMostShallow` every one but those that `skip` passes over (`PassedOver`); is `ToTree` of `FromTree` a separate, complete copy; is every sink in step; is `FromTree` a legal source? | holds; undefined only for trees without parents and chains that switch within a container |

**Bounds.**  Readers: inputs of five units (`MaxPos`; three where forgiveness
is switched and callers go on after exceptions, which multiplies the states) hold
two nested containers with an unhashed and a hashed one, an exact, a missing and a surplus
child, and siblings after a cascade; the mutants of `PROJECT.json` (a pipe not taken
down, a count off by one, ...) all show within them.  `Int32Half = 4` keeps the wrap
of `int32_t` within reach of the chosen sizes.  `HashTypes` has a supported and an
unsupported function.  `Masks` switches the flags in two groups; a flag affects
the step that tests it only.  Roundtrip: seven units and two containers are what
a hashed, armored container in another one needs (two headers, a leaf, two
markers and digests fit only partly, the interrupted prefixes all do); its `VIEW`
leaves out the unit sets that are functions of the rest.  Deserializers: fourteen
events and five open containers exceed the nesting of the declarations (four) by
an unknown container; the serializers write whole objects, without a bound on events.
Records: a byte of 4 bits makes numbers of 12 bits in one to four bytes, so that `MaxVarUInt`,
`MaxVarInt`, their negatives and the numbers just beyond are among the values; two
records follow each other; a fixed memory of seven bytes is filled within, between and just at
the end of records, and a growing one (by 8) grows; two objects and two blocks make
every copy share if it can; payloads of others are all those of at most two bytes, and
overlong ones of three.  Trees: four nodes, of
which two can be held at a time, make cycles, copies with a child, nodes listed
twice and in two containers; as sources, all 649 trees of at most four nodes and one with a node twice in a list, with
two ids and leaf or empty-container nodes, hold a match below a match, a
match beside one and two levels that end at once.

**Fairness.**  `FairSpec` has weak fairness of `Read`, the steps of a call in
progress.  They run on the caller's thread in a loop without blocking, on an input
that is finite, so that a step that is possible is taken; nothing is assumed of
callers.

`CHECK_DEADLOCK FALSE` is said only in `roundtrip` and `records`, which end when the output
has been read, in `tree_stream`, which ends with the stream, and in `tree`, where a user may
stop at any time.

## 4. Proofs

TLC checks instances; the theorems below hold for every value of the constants: any
sizes, hash functions, registries, masks, declarations, trees and bounds.
`PROJECT.json` lists them with the property of a run that each one states.

**The reader by itself** (`FromBitstreamProofs`): `TypeCorrect`, `ReaderInvInvariant`,
`SourceAlwaysMatchesStack`, `HashAlwaysCoversBody`, `NeverNullAccess`.
Assumptions: `ConstantsAssumption` and `MasksAssumption` of `FromBitstream` (sizes
are naturals, the registry knows functions headers can name, flags are the five of
`Forgiveness`).  `SourceMatchesStack` (the current source is the pipe of the
innermost container that has one) is not inductive: when a container is removed,
the source becomes the stream *below* its pipe, and one must know that this
is the pipe of the next outer container.  `ReaderInv` adds that: the source
reaches the pipes of all containers on the stack (`Reaches`), what is below the
pipe of container *i* reaches those of the containers outside *i*, and the root has no
pipe.  `HashCoversBody` then follows because a read feeds exactly the frames the
source reaches.  TLC checks `ReaderInv` in `reader_forgiving` as well.

**The reader and its sink** (`ReaderSinkProofs`): `UnvalidatedOnlyWhenForgiven`,
`SinkAlwaysInStep`, `ChildCountsAlwaysBounded`, `ReadNextAlwaysKeepsToItsDepth`, and the
refinement `ReaderKeepsProtocol`.  Three invariants carry them.

* `FlagsInv`: what is forgiven now has been forgiven at some time, and a container on
  the stack without a pipe although it is hashed was let in by a flag.  Without the
  second, a container could be reported unvalidated with every flag off.
* `StreamInv`: reader and sink have the same containers; while the stream is live the
  innermost container is not full when a record is looked for, and is full or marked when
  `end_of_container` is under way.  It is the *conjunction* that is inductive: the bound
  on the children of a container rests on the cascade having closed a full one before
  anything more is read, and that rests on the bound.
* `CallInv`: what `read_next` has taken at the depth it noted.

`ReaderKeepsProtocol` has two hypotheses, which are findings about the code.  Callers
stop after an exception (`~Resume`): the stack is left as it was, and a caller that
goes on reading sends the sink events after the stream has been cut.  And where nothing
is ever forgiven, no size becomes less than -1 as an `int32_t` (see `SizeHonoured`):
`ChildCount(f) < -1` is no promise a sink could check.

**The writer** (`RoundtripProofs`): `WriterPipesAlways`, for every exact stream, every
order of settings and every failing write, under `RoundtripAssumption`.  The invariant
`WriterInv` orders the open containers by the unit of their header; only then is the pipe of
the container that ends the *last* one, which is what `write_container_footer` takes
without looking.

**The round trip** (`ReadBackProofs`): `ReadsWhatWasSentAlways`, `InterruptedAlwaysNoticed`
and `CompleteAlwaysReadBack`, for every exact stream the source may send, whatever stops
it, every order of settings and any two sets of supported hash functions; under
`RoundtripAssumption` and `ReaderAssumption` (the bound on the units is a number, and the
model's value for a header without `CF_HASHED` is not a hash function).  The three
properties speak of the events only, and nothing in a state says which units of the
output belong to which event.  `ReadBackInv` therefore says that there are *marks*: for
each number of events sent, how long the output was then and which containers were open, with
their headers and the children they had (`Marks`; neighbouring marks and the units between
them are related by the event, as `Started`, `Pushed` and `Ended` say).  Every write
leaves the marks and adds one (`WriteHistory`).  Reading is then a walk along the marks
(`ReadInv`): when *k* events have been delivered the reader stands at the mark
*k* + 1, its stack `Follows` the containers open there, and it can only do what
the event *k* + 1 makes it do (`TokenRead`, `FooterRead`, `ReadBackReads`); the digests
match because a mark knows which unit the header was, and `ReaderInv`, taken
over from the proofs about the reader by an instance, says what its pipe was
fed.  Behind the last mark only one thing is left: containers without armor that are full
are ended although their `end_container` was never sent (`PastMarks`), and this
stops at the root, which is armored, so that `end_of_stream` is never made up.

**The deserializers** (`DeserializerProofs`): `DeserializerTypeOK`,
`DeserializerHandlesItsOwn`, `DeserializerItemsInStep`, `DeserializerOnlyStoresOne`,
`DeserializerReportsRequirements`, each for both specifications, the one that takes any
stream and the one whose events the serializers send.  `DeclAssumption` says what the C++
types guarantee of a declaration.  In `DInv`, `Chained` ties each deserializer of
the chain to an open container (its `_depth` is the number of containers
within), and `AllCounted` ties `_offs` and `_found` to what has ended there; the
innermost counts all its children, the ones around it all but the nested one, which
is reported only when it ends; that gives `StoredInStep`, one half of `ItemsInStep`.  The other
half, `RecordsInStep`, is about a sum over the containers within a record (`Inside`), which
no step of the code ever takes.  `CInv` says that there are running totals of it (`Counts`)
and that the last one is `_offs`; an event changes the last total, adds one or takes one away
(`CountsNoted`, `CountsOpened`, `CountsEnded`), and the totals are what the recursive
function `Inside` takes, since there is no first place at which they could differ
(`InsideCounts`).

**The serializers** (also in `DeserializerProofs`): `SerializerWrittenIsRecognised` and
`SerializerWrittenIsAccepted`, for all declarations and objects.  Beside
`DeclAssumption` they need `ObjectsAssumption` (objects are written with `only`) and
`WrittenAssumption` (a selector has a first id; arrays, sequences and wrappers are of one
declaration).  The calls that are left are a flat sequence while the properties are about
nested containers.  `WInv` therefore says that `todo` falls into parts, one for each open
container, each closed by the `end_container` of what wrote it (`Parted`); as long as nothing was
`lossy` or ambiguous, that each container is read by what wrote it (`Aligned`) and that its part
still holds what the container lacks (`AllDue`): no more items than an array has room for, and
all of those it requires; the child of a wrapper that has none yet.  From `AllDue` follows that
no `finalize` finds anything missing.  `only` refuses to go on when it has its
object, and that `Satisfied` holds from there is what remains when nothing is left to write.

**Buffers and memories** (`RecordsProofs`): `BuffersAlwaysOwned` and
`MemoryNeverOverruns` (whatever is written, in whatever portions).  `HeapInv` adds to
`BuffersOwned` that every block belongs to an object, and that lengths and indices are
in range.  `BoundsAssumption` says that the bounds are numbers.

**Tree streams** (`TreeStreamProofs`): `ToTreeAlwaysInStep`, `AlwaysDefinedWhenBalanced`,
`NestedSinkAlwaysInStep`, `SourceAlwaysUntouched`, `ToTreeCopies` and the refinement
`FromTreeKeepsProtocol`.  `StreamInv` says where the loops of `subtree_to_sink` are
(`Path`: a way down from the root, each loop just behind the container it is in), that what
has been announced is what they are in (`Announcing`), and what the sinks have open of that
(`TreeInv`, `UserInv`).  `NodesInv` keeps the source's nodes apart from the copies; that
the containers of another tree never get a node of the source is the part that needs
the nodes to know their parents.  `SourcesAssumption` says that a source is a tree, numbered so
that a child comes after its container, whose nodes either know their container or no
parent at all, and that only containers have children; the trees of the run are some of those.  "Below a node" (`Below`) is
defined by sets closed under taking children, without recursion, so that it can be reasoned about.

`ToTreeCopies` (the tree that is built holds what was sent, to every depth) rests on
`CopyInv`: while the stream runs there is a map `f` from all nodes to the source's, the
identity on those, that keeps id and kind (`Standing`).  The children that a copy has got
are mapped, in order, to the first ones of its original (`Matching`; the root of
a later sink in a chain begins where the chain switched).  They are all of them, or, for
a container on the stack, as many as its loop has been through (`Whole`, `Begun`).  A
parent that a source node without one has got since is a copy that has it in
its list (`Parents`), so `ToTree` adds each child once.  This fails for a node that knows no
parent and is twice in one list: the second time, `ToTree` finds it in the
container that it builds and does not add it.  `ListedOnce` excludes that, and
one source of the run (`MCTwice`) has such a node: without `ListedOnce`, TLC finds
`CopyIsComplete` violated.  What a node holds (`Content`) is a recursive function, so it has to be shown first to be what its definition says (`ContentUnfolds`): below every node the numbers of
the source grow, and the copies come before the source (`Ranked`), so of the approximations of
the function that are right up to some rank none is a last one.  Trees that are alike under `f` then hold the
same: of the nodes that do not, the last one of the source would have such a child (`SameContent`).

**Nodes** (`NodeTreeProofs`): `TreeTypeCorrect`, `TablesAlwaysAgree`,
`ParentsAlwaysHaveTheirChildren`, `UnlistedInOnePlace` and `NothingEverLeaks`, for any number of
nodes, children and handles; `NodeTreeAssumption` says that these bounds are numbers.  All follow from
`TreeInv`, which TLC finds true in every state of `tree`.  The properties are about nodes that are alive, and each
call ends with the destruction of others, so the invariant is about all nodes
ever created: lists hold only nodes that are alive (else a list could come to refer to a
node that is gone), list and table have every node equally often (`Tables`), a child that
is not listed is in one list, once, and knows which (`Owned`), and a
parent that is alive has the node in its list (`Present`).  `Owned` is what makes
`Present` survive an erasure: the parent is reset only with the last place.
The steps follow one scheme: the lists that a call makes are the old ones with one
element inserted or removed (`Inserts`; `InsertAt`, `RemoveAt` and
`RemoveFirst` of the library are shown to be that), which changes the counts by one
(`InsertsTimes`); then `BecomeInv` takes away what is destroyed.  `NothingLeaks` speaks of
ways down over any number of levels, while the destruction knows handles only.
`Supported` (a node that is not held is in the list of one that is alive) is what it
leaves, and `NoneLeaks` goes up from there: of a finite set of nodes in which each has
a container, one is below itself (`CycleExists`, by induction on how many are above).

Only model-checked, and why:

* liveness (`CallReturns`) and everything else about fairness: out of the prover's reach;
* what recursive definitions compute (`ReadsWhatWasWritten`, `ForeignNormalised` and the byte
  part of `RecordsTypeOK` with powers of the byte; `FindAllVisitsMatches` and
  `FindMostShallowVisitsShallow`, whose iterators are recursive methods): they need
  induction over data.  `CopyIsComplete` has a recursive `Content` too, but compares two
  trees node by node, for which a least counterexample is enough.

## 5. Not modelled, and where documents disagree

In the stream modules a leaf is a leaf; its payload is in `Records` only.  Not modelled: the
digests of gnutls, text output (`SinkDebug`), standard streams (which succeed or fail like a
memory), a growing memory that is refused more space, the characters of strings.  The
serializer of `iterator` (`structstream/serialize.hpp:234-248`) passes no sink to its items and does not
compile when it is instantiated.

The records as written are the reference where `docs/format.rst` differs:

* `structstream/utils.hpp:58` and `:66` say of numbers out of range "Surplus bits will be cut
  off".  The code writes nine bytes, a leading byte 0x00 first, which its own reader
  rejects, and in between shifts by the width of the type, which C++ leaves
  undefined; whatever the leading byte becomes, the longest number that is
  read has eight bytes.  `records_surplus` shows it for unsigned numbers, where "cut off" has
  one meaning; `ReadsWhatWasWritten` is about numbers in range and takes no side.
* `docs/format.rst:92` demands an error for hash type NONE in a header;
  `streaming_bitstream.cpp:201` accepts the header and reads the body as if it were not
  hashed, as the reader is modelled (`HeaderAccepted`).  No run is spent on it.
* `docs/format.rst:138` gives blobs a *varuint* length; the code writes and reads a
  signed one.  Its own output is the same number read either way; a length from 64 on that
  somebody else has put in one byte is read as negative and refused.
* `docs/format.rst:148` swaps the record types of VARINT and VARUINT.

## 6. Plan

In this order, most important first:

1. Reader, protocol, and their proofs (done); writer and round trip (done);
   deserializers (done).
2. Trees in memory, iterators, tree streams and sinks (done).
3. Integers, records, memory and registry; the serializers with their
   deserializers (done).
4. `FromBitstream` into a `ToTree`: nodes that have no parent yet, with refusals.
5. Proofs: reader, sink and protocol; the pipes of the writer; the round trip;
   deserializers and serializers; buffers and memories; tree streams; nodes in memory (done).
   What is left to TLC is listed at the end of section 4.
