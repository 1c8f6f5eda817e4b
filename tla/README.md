# A formal model of LibREDasm

LibREDasm is the core library of the REDasm disassembler: it loads a binary,
decodes it into instructions, finds functions, strings and references, and
offers the result to user interfaces through a C interface (`rdapi`).  The
modules here are translated from the C++ of `src/rdcore`; `PROJECT.json` names
for each definition the lines it stands for.

## The system

| part | state | operations | interacts with |
|---|---|---|---|
| `Context` (`context.cpp`) | plugins, proposals, analyzers selected, assemblers by id, problems, flags | `findLoaderEntries`, `bind`, `selectAnalyzer`, `disableAnalyzer`, `getAssembler` | owns plugin manager, databases, disassembler |
| `PluginManager`, `PluginModule` (`plugin/interface`) | entries by category, modules by id, files by id; a count per library for the whole process | `load`, `checkCommands`, `selectEntry`, `getAssembler` | dynamic linker, plugins |
| `Disassembler` (`disassembler.cpp`) | engine, algorithm, loader, assembler | `load`, `disassemble` (start or `ignite`), `enqueue`, `disassembleAt/Function/Block` | creates the engine, owns the algorithm |
| `Engine` (`engine/engine.cpp`) | current step, busy and weak flags, runs of each analyzer, merged gaps | `execute`: Stop, Algorithm, CFG, Analyze, Done with repetitions | drains the algorithm, calls analyzers, builds graphs |
| `Algorithm` (`engine/algorithm`) | deque of pending addresses | `enqueue`, `schedule`, `disassemble`, `disassembleBlock`, `decode` | calls the assembler plugin; writes code blocks, links, labels |
| `Document` (`document/document.cpp`) | address space, functions, net, entry | `setSegment`, `setFunction`, `setLabel`, `setData`, `setString`, `setPointer`, `setType`, `checkLocation/Table/String/...` | everything below |
| `AddressSpace` and `BlockContainer` (`document/model`) | segments, their bytes, their ordered blocks | `insert`, `markUnknown/Data/String/Code`, `markInfo`, look-ups | driven by the document |
| `FunctionContainer` | sorted function starts and their graphs | `insert`, `setGraph`, `invalidateGraphs`, `getGraph` | document, engine |
| `DocumentNet` | previous/next, branch and call links per instruction, references | `link*`, `unlink*`, `addRef` | algorithm, graphs, renderer |
| `AddressDatabase` | labels and their inverse, flags and their index, weak marks, comments, assemblers | `setLabel`, `updateLabel`, `setType`, `findLabels`, `pushAssembler` | document, algorithm |
| `WeakScope`, `safe_ptr`, `Object` | the weak flag; one recursive lock per shared object; listeners | save and restore, `operator->`, `notify` | all |
| analyzers (`builtin/analyzer` and plugins) | none | `execute`: set functions, queue or decode addresses | called by the engine |
| graphs (`graph`, `builtin/graph`) | nodes, edges, attributes, layout | `build`, `pushNode`, `removeEdge`, layout | built by the engine from the net, laid out for a user interface |
| `Surface`, `SurfaceRenderer`, `Cursor`, `SurfacePath` | rows of cells, cursor, jump stacks, arrows | resize, scroll, move, select, jump | reads document and net, listens to their events |
| RDIL, `Database`, serializer, `Lexer`, `Config`, utilities | - | - | - |

Hard behaviours.  The thread inside `RDContext_Disassemble` runs the engine.
Other threads (a user interface) meanwhile call the document and the algorithm,
each behind a lock taken per call, so every decision the engine bases on two
calls may be stale, and the two objects call each other with their locks held;
and they call `RDContext_Disassemble` too, which tests only the busy flag.
The engine repeats steps as long as analyzers find more.  A global *weak* flag
tells guesses from facts.  The blocks of a segment are cut and merged by marks
that arrive in any order.  Names, flags and their inverses are written by a
dozen setters.  Graphs are made of programs with loops, switches and shared
code.  A surface shows rows of a document that changes under it.  Contexts
share libraries that any of them may unload.

What makes each part correct: the blocks partition their segment and say of
every byte what the last mark said; the steps end, in an order in which
analyzers and readers see graphs of the code as it is; the flags are true to
what is going on; requests are not lost; links have both ends; labels and
addresses map to each other; basic blocks follow the flow and are drawn apart;
what a surface shows is what the document has; what is called is loaded.
`PROJECT.json` lists the hazards line by line.

## Modules

| module | content |
|---|---|
| `BlockOps` | operators of `BlockContainer`: order, `Get`, `DoInsert`, `Mark`, `MarkInfo` |
| `BlockMap` | abstract specification: one value per byte of a segment, painted by ranges |
| `Blocks` | one segment's container driven by the marks of `AddressSpace`; refines `BlockMap` |
| `Lemmas` | what the operators of `BlockOps` return; push and pop of the stacks of calls |
| `BlocksProofs` | the theorems about `Blocks` |
| `Engine` | the threads inside `disassemble()` and those that ask the algorithm or the document meanwhile, with the two locks |
| `AddressSpace` | pure operators: segments a loader makes, and offsets, pointers and views of their addresses |
| `NetOps` | operators of `DocumentNet`: links between instructions |
| `Algorithm`, `AlgorithmProofs` | decoding: queue, delay slots, results, and what they write; composes `BlockOps` and `NetOps` |
| `Exploration` | `Algorithm` with a history of what was decoded: what is left out when the queue is empty |
| `Locations`, `LocationsProofs` | what the document does with an address an instruction refers to: the walk of `checkLocation`, `checkPointer` and `checkTable` over several segments; composes `BlockOps` and `NetOps` |
| `Labels`, `LabelsProofs` | the address database and every setter of the document that names, flags or types |
| `FunctionGraph` | `cfgStep`: bounds of functions, basic blocks from the net, `getGraph` |
| `LayeredLayout` | the layout of a graph in a grid, and the routes of its edges |
| `CodeGraphs` | composes the two: programs to basic blocks to pictures |
| `FunctionGraphProofs` | the theorems about all three |
| `SurfaceRows` | pure operators: rows from blocks, the iterator over blocks, arrows |
| `Viewer`, `ViewerProofs` | a surface with its cursor, the user's calls and the document's events; uses `SurfaceRows` |
| `Session` | contexts, plugin modules and the choice of analyzers, several contexts in one process |
| `ContextProofs` | the theorems about `Engine` and `Session` |
| `MCBlocks`, `MCEngine`, `MCAlgorithm`, `MCExploration`, `MCLocations`, `MCLabels`, `MCCodeGraphs`, `MCViewer`, `MCSession` | instances for TLC |

Faulty variants.  Modules hold, next to an operator, a variant of it with a
plausible bug (`CanMergeAnyInfo`, `KeepsSelection`, ...).  Nothing uses them;
putting one in the place of its original makes TLC refute the property that
`PROJECT.json` pairs it with, which shows that the property watches that code.

### BlockOps, Blocks, BlockMap

`m_container` is a `std::set<RDBlock, BlockSorter>`; here it is a set of
records.  An iterator is a set with at most one block.  Two blocks that overlap
are equivalent to the sorter, so `Insert` drops a block that overlaps one.
`get`'s walk back from `lower_bound` and its exit at `begin()` are in `Get`:
asked for an address that no block holds it answers with the first block.
`doInsert`'s recursion, which swallows mergeable blocks to the right, is a
search for the first end that no mergeable block contains (`MergeEnd`).
`Mark` is the whole of `BlockContainer::mark`: look up both ends, erase
from one to the other, demote the two leftovers, join or insert them, insert
the new block.

`Blocks` starts with what `AddressSpace::insert` does to an empty container,
and has one action per mark of `AddressSpace`, for each address and size that
stays in the segment.  `BlockMap` forgets the blocks: a mark gives its range a
value and may make adjacent bytes unknown, but only those that were in the
same run of equal bytes as the boundary of the range: a block that is cut
loses its ends.

`ItemsAsMarked` says that marks make no item but the one asked for.
`setAddressAssembler` is no mark in that sense: it gives the block that holds
an address a new info from there on (`BlockContainer::info`), and what lies
before keeps its type, so it does leave a shorter item.

### Engine

`Threads` are all threads, `Callers` those that call `disassemble()`.  `pc[t]`
says where one is: `"out"` of every call, `"loop"` at the head of `execute`'s
loop, then inside `algorithmStep` (`"turn"` to `"merged"`), `cfgStep`
(`"bounds"`, `"build"`), `analyzeStep` (`"count"` to `"again"`, then `"cfg"` and
`"advance"`), or at the end of `execute` (`"ending"`, and `"finish"` between the
last look at the queue and `notifyBusy(false)`).  A drain of the queue
(`"lock"`, `"drain"`, `"scope"` while an address is decoded under a
`WeakScope`) is entered from several of these; `back[t]` says where it goes on.
The step, the flags and the counts of the engine are one for all threads, as in
the code: `disassemble()` begins a loop whenever there is an engine that is not
busy (`Ignite`), also when another thread is at the Stop step, about to start a
drain, or in a loop that finds nothing to do.

The locks are not variables: a thread holds the algorithm's during its drain
(`HoldsAlgorithm`) and the document's while it is in `createFunction` or in a
setter that ends in `checkLocation` (`HoldsDocument`).  A step that takes a
lock, or calls behind it, waits until the other threads do not hold it.

What decoding an address finds is open: any addresses may be queued, any
functions set.  An analyzer may do the same, or decode a block.  `graphs` holds
the functions for which `generateCfg` ran since the code last changed.

Requests, of which `CONSTANT Requests` selects those of a run: queue an address
(`"enqueue"`), set a function (`"function"`; during `cfgStep`'s walk over the
document's array the walk may then miss functions), decode an address or a
block (`"decode"`, `"block"`), a setter of the document that queues an address
(`"location"`), and `createFunction` (`"create"`), which sets a function, decodes
it and builds its graph, all with the document locked.  `Ask` is a
`disassemble()` that meets a busy engine and returns.

Ghosts: `touched`, threads inside `execute()` under whose hands another one
changed the step, the functions, the code or the graphs since their last
`cfgStep` began (`Disturb`); `met`, that the thread that entered `execute()`
last found another one there; `mode`, which way the engine set the weak flag,
or `"crossed"` when another thread's `WeakScope` was open then; `ignored`, that
a `disassemble()` was dropped while addresses were waiting.

Fairness: `WF_vars(Continue(t))` for every thread: one that is inside a call
keeps running unless it waits for a lock.  Nothing makes a thread call.

Left out: two threads in the very first `disassemble()` at once (each makes an
engine, the second ends the first's under it); `disassemble()` called from an
analyzer; that the loop reads the step twice, once for its condition and once
for the `switch`; that `Enqueue` and what an analyzer queues take both locks one
after the other and not at once, so their own part in a deadlock;
`createFunction` before there is an engine, which is a null dereference
(`disassembler.cpp:23`), not a state.  Which function `getFunctionStart` finds for
an address is open (`FunctionCfg`).

### Algorithm

`stack` holds the calls of `decode`, the innermost first: an instruction with
delay slots decodes these before it is marked.  An instruction is a record of
its size, its delay slots and its results in order; `programs` gives one per
address, chosen at the start.  A result of each kind writes what
`processResult` does: links, weak labels, functions, references, data and
strings, and queues what `isAddressValid` accepts at that moment.  A sweep
(`disassembleBlock`) keeps the address and the room its view has, which part
after delay slots as they do in the code.  Other threads may queue, decode,
sweep, and set labels, data and functions between two decodes.

Fairness: whoever drains the queue goes on (`WorkingSpec`).

`Exploration` adds a history, `past`: the bytes that ever were code, data or a
string, the addresses that were decoded, and those that were taken from the
queue for it.  `Explored` says that when the queue is empty nothing is `Missed`
that decoded code leads to.  The blocks do not tell that: an instruction may be
cut by one decoded over its end, and that one by a third; the bytes of the
first are then unknown again and nobody decodes them.  Five bytes suffice:
instructions of two bytes at 1 and at 2, a return at 3, and at 5 the entry,
which branches to 3, to 2 and to 1; they are decoded in the opposite order,
and at the end 1 and 2 are unknown.  This is what the code does:
`BlockContainer::mark` makes unknown what it leaves of code, and an address is
queued only when a result leads to it.  So `Explored` speaks of what was
decoded or held something once, not of the blocks at the end.

### Locations

`checkLocation` asks `checkPointer`, which calls `checkTable`, which calls back
for every word that is an address, and that callback calls `checkLocation`
again.  `stack` holds the calls of `checkTable`, the innermost first; a call is
a record with the arguments of the `checkLocation`, `processCalls`,
`processTable`, `processBranchTable` or `processCallTable` it belongs to
(`kind`), the loop's address and count, and what the outer call will return
(`first`).  `FollowPointer` and `TableEntry` are one pass of the loop with its
callback, `PointerFound`, `StringFound`, `CodeFound` and `DataFound` the rest of
`checkLocation` behind `checkPointer`, with the reference at its end.  What an
address holds is in `image`, chosen when the loader runs: the bytes, read
little-endian at the address width as `readAddress` does, cut at the end of the
segment as `MemoryBuffer::view` does, and the size of the string that
`StringFinder` sees there.  `blocks` has a container per segment; setting a
pointer, a string or data marks them, and `setData` sets no label where
`findBlocks` finds no container.

The document is locked for the whole walk, so nothing else runs between its
steps.  Between walks `SetLabel` stands for the labels that decoding and the
API set.  Results other than tables, and what a call into code does, are in
`Algorithm`.  Segments do not overlap, take their bytes from disjoint parts of
the file and are no smaller than these (`start <= file <= end`).  `MCLocations`
makes them by calls of `SetSegment`, of the module `AddressSpace`.

Fairness: the walk goes on as long as it has calls (`WorkingSpec`); it runs in
one loop on one thread.

### AddressSpace

What `Document::setSegment` makes of a loader's arguments, what
`AddressSpace::insert` refuses, and what offsets, pointers and views of an
address are.  It has no behaviour of its own: segments are made when the loader
runs, and a buffer is filled then and not written later, so it is a function of
segment and file.  An `RDLocation`, a pointer or a view is a set that is empty
when the call fails.  `addressToView` goes by the file: it takes the first
segment that has the address's offset, which may be another one.

`ASSUME`s of `MCLocations`, evaluated by the run `locations`, check three
operators for all documents made by three calls of `setSegment` on a file of
three bytes: segments overlap only when one is inserted around another; every
way to the byte of an address shows the file's; offsets and addresses are
inverse when no byte is in two segments.  Each fails when a test of `insert` or
an offset is dropped, the last one also without its condition: `addressof` of a
view may name the other segment, so that the scan for strings
(`stringfinder.cpp:50`) marks them there.  The same three are theorems for any
segments.

### Labels

`db` is the `AddressDatabase`: `known` the addresses with an entry, `label`,
`flags`, `weak` and `field` of each, `named` the map from names back to
addresses, `index` the addresses by flag.  A name is a pair of a prefix and
the address that `makeLabel` put into it, or of a prefix and 0 when somebody
chose it.  The demangler is the function `Mangled`, identity elsewhere, and is
called where the code calls it (`getAddress` and `setLabel`, not
`updateLabel`).  Each setter of the document is an action; `setType` with its
structures and arrays is a `visit` with one action per member, since members
call `setType` again.

`IndexAgrees` is about the flags that `setLabel` sets.  `Pointer`, `Type`,
`TypeField` and `TypeEnd` are set in the entries only
(`addressdatabase.cpp:152-182`, `document.cpp:84`), so `getLabelsByFlag` lists no
address for them.  `RenameIsUnique` says that `findLabel` finds an address by its
new name.  `getAddress` does so too unless the name is mangled: `updateLabel`
keeps it as it is (`addressdatabase.cpp:54`), `getAddress` demangles what it looks
for (`:11`), and finds nothing, or what was given the demangled name.

What the code does and no property forbids: a rename or a type does not clear
`weak`, so a later guess replaces what the user wrote; two addresses may share
a name, so `getAddress(getLabel(a))` need not be `a`, though
`tests/loadertests.cpp` checks it for the labels it knows; renaming back to an
alias succeeds and changes nothing; `updateLabel` erases the new name's old
binding, not the old name.  `field` exempts the names of typed members, which
never get into `named`.

### FunctionGraph, LayeredLayout, CodeGraphs

`FunctionGraph` starts from what decoding left: a program (`Programs`) and the
net it makes.  `cfgStep` first bounds functions (`unlinkPrev`), then builds each
graph in two passes, as the code does: `incomplete` blocks from the queue of
leaders, then their ends in order of address, with the hop over addresses
without code.  `graphs` is what `FunctionContainer` keeps; `GetGraph` and
`BasicBlock` search it behind the lower bound.  The ghost `members` says which
instructions a block went through.

`LayeredLayout` runs on a graph of numbered nodes: cutting cycles, the tree,
rows and columns, lanes for edges, and the coordinates at the end.  The map of
the code is unordered, so of several candidates any is taken.  `CodeGraphs`
gives it the graphs that `cfgStep` built.

`RoutesClear` is about the lines as they are drawn: none goes through a node,
and no two edges run on top of each other on their ways.  One point is left
out of the second half (`Direct`).  An edge that leaves down the column of its
source gets for that leg the index of its lane in the column
(`layeredlayout.cpp:433`), and the coordinates at the end take it for the index
of a lane in a row (`:306`): the line is led down by so much, past its end or not
as far, and then on or back to it.  What it draws past its end does not lead
into a node, which the first half says of every line; but it can lie on another
edge of the same column.

Fairness: `WF_vars(BuildGraphs)`, the engine's thread is inside `cfgStep`.  A
user may ask for a layout or not; the layout's own steps need no fairness
because no property says it comes to an end before the user does.

### SurfaceRows, Viewer

`SurfaceRows` turns blocks into rows as `SurfaceRenderer` does (segment,
function, separator and empty lines, types), and holds `BlocksIterator`.
`Viewer` has one action per call of a surface: resize, range, scroll, jump,
move, select, back, forward, flags; and the two events it handles: that the
engine has become busy or idle (`BusyChanged`) and that flags of the context
have changed (`ContextFlagsChanged`).  That the document changes
(`Change`) reaches no surface: `view` is what the surface has drawn
last, from the document `view.drawn`; `doc` is the document now.

Where the code reads a row past the end of its vector (`moveTo` tests the
number of rows asked for, not those there are), the model takes any address;
`CursorOnCurrent` leaves such moves out (`placed`), since nothing can be said
of them.

A range that begins outside of all segments, or ends before the block it begins
in, leaves a surface without rows (`surfacerenderer.cpp:194-207`).  `RowsStay`
says that nothing else does.  Without rows `moveTo` and the jumps find no row
and the cursor stays; `select` would take row -1 for the end of a selection and
read before the vector, and is left out for that state.

### Session

`shared` is `PluginModule::m_sharedhandles`, static and so common to all
contexts, `opened` what the dynamic linker counts.  `manager[c]` holds a
context's entries (the lists by category), `owner` (`m_modules`: which load of
which library an id belongs to) and `files` (`m_filepaths`).  A module is not
an object here: it ends when no id leads to it, as the last `shared_ptr` to it
does (`Erased`).  `session[c]` is the rest of the context; its fields `wanted`,
`changed`, `ran` and `again` are ghosts.  What plugins answer is open.

`SortedContainer` looks for an analyzer at `lower_bound` by its order only:
among analyzers of the same order only the first is found, so others can be
selected twice and not be deselected.  The plugins' default order is that of
the built-in function analyzer.  `AnalyzersAsWanted` speaks of analyzers whose
order is their own.  Of those that are to run once it says that they never run
again, not that they run.  The engine counts by position in the list as it was when
the engine was made; selecting others afterwards shifts the counts or reads
behind them (`unknown`), and `AnalyzersAsWanted` leaves that out (`changed`).

Also so in the code, and outside of the properties: a library is opened once
per load and closed once, when the last of its modules ends (`opened` stays
above 0); a second `bind` after one whose load failed returns TRUE without
analyzers; `getAssembler` for an id that is no assembler's loads its library
again, and ends that module at once when nothing of it is new, which calls
`rdplugin_free` of a library in use; `PluginManager::unload` has no caller.

## Runs

| run | bounds | checks |
|---|---|---|
| `blocks` | segment of 4 bytes, info 0 or 1: all 5832 reachable containers | `Partition`, `ItemsAsMarked`, `MapSpec` |
| `engine` | 2 threads, both calling `disassemble()`, one request of any kind or one more `disassemble()` (queueing and setting functions not counted), 2 addresses, each accepted once, 2 analyzers (one run-once) | `BusyWhileWorking`, `WeakDiscipline`, `Settled`, `AnalyzersSeeGraphs`, `Terminates` |
| `engine_lost` | 2 threads that queue addresses and call `disassemble()`, 2 addresses, 1 analyzer | `NoLostRequest` fails (finding) |
| `engine_returns` | one thread that calls `disassemble()` twice | `Returns` fails (finding) |
| `algorithm` | all settling programs of 3 bytes over 24 instructions, no other thread | `CodeIsInstruction`, `Explored`, `FunctionsStandAlone`, `Terminates` |
| `algorithm_threads` | 4 programs of 3 bytes, every request of other threads | `LinksHaveBothEnds` |
| `algorithm_livelock` | two jumps to each other | `Terminates` fails (finding) |
| `locations` | 3 segments of 4, 3 and 2 bytes, pointers of 2 bytes of 4 values, every memory whose pointers fit with at most one string, 8 requests, 2 of them in a row | `NoAddressTwice`, `PointersLead`, `CallerRefers`, `Terminates` |
| `labels` | 3 addresses, one outside of the segments, 3 calls: plain, mangled and stolen names, 7 types | `EveryNameFound`, `IndexAgrees`, `RenameIsUnique`, `EntryKeepsName` |
| `graphs` | every program of 3 bytes over a menu of 13 instructions, with one or two functions, and 576 programs of 8 bytes with loops, switches and two functions; the three types of layout | `TypeOK`, `BlocksAreFlow`, `OwnGraphFound`, `EachNodeOnce`, `NodesApart`, `RoutesClear`, `Terminates` |
| `viewer` | 2 states of a document with 2 segments and a gap, 5 calls and events, surfaces of 3 and 8 rows | `RowsFollowDocument`, `CursorOnCurrent`, `PathsCurrent`, `RowsStay`, `BackAndForth` |
| `session` | 2 contexts, 3 libraries behind 4 files, listed in 2 orders, 3 analyzers, 6 calls | `LibrariesCounted`, `EntriesCallable`, `OffersBind`, `AnalyzersAsWanted` |

The type invariants of `Blocks`, `Engine`, `Algorithm`, `Locations`, `Labels`
and `Viewer` are theorems (see below) and not checked again by the runs.  The run `algorithm` is of `Exploration`, whose steps
are those of `Algorithm`.  `CHECK_DEADLOCK FALSE` stands where the bounds, or the
system, let everything stop; in `engine` also because the code can deadlock,
which `Terminates` speaks of.

Four bytes hold every way two blocks, their leftovers and a mark can lie to
each other, with a third block at either side.  The number of values is that
of the code: `info` is only ever compared.  In `Engine` two addresses give a
function found late, a gap that is merged and a request for either; two
analyzers give a skipped one before or after one that runs.  Two threads give
two loops, a loop and a request, or a request after the loop has ended; a
request that begins twice needs the queue to fill again between, which the
unbounded `Enqueue` does.  `MaxDecodes` bounds how often the algorithm accepts one
address.  The code has no such bound: `isAddressValid` accepts code again as
long as its label is weak, so `Terminates` shows that the engine's own loops end
provided the algorithm's does.  `MaxDecodes = 1` lets the second address be
decoded after the first; 2 is what two loops need to go on for ever (below).
The theorems have no bound but that these are numbers.

Three bytes hold an instruction, its delay slot or second byte, and a target
that overlaps either.  The menu has one instruction for each result and each
way to end, with every target in the segment for branches and calls; delay
slots come with a jump, a call and a return.  `MaxPending` bounds what other
threads queue, not what decoding does.

Seven bytes with contents hold two pointers side by side, overlapping ones, a
table that runs from the data segment into the code segment, cycles of up to
three pointers, and a pointer to itself; the third segment is memory without
bytes.  A byte has values 0 to 2, so that a pointer of two bytes (radix 4)
reaches every segment and the gap between them.  `MaxRequests` lets a second
walk, or a label, meet what the first one left.  `Fitting` keeps memories where
no pointer reaches past the end of its segment, the same assumption under
which the theorems hold.

Three calls suffice in `labels` for a name to be given, taken over and
renamed; a type's members count as one call.  The programs of 3 bytes in
`graphs` have every combination of flow, jump, call and overlap; those of 8
bytes give the layout joins, loops into the middle of others, and switches with
four cases.  The layout was also checked apart from programs, on every graph of
4 nodes with at most 2 edges from each, on graphs of 5 nodes and on switches of
7 nodes, and `FunctionGraph` on all programs of 4 bytes.  Five events let a
surface be shown, the document change while it is busy, and the user move
before and after.  In `session` six calls create and bind two contexts with two more, or let one run, change its selection and
run again; `SYMMETRY` exchanges the contexts, which only invariants are
checked for.

## What the code does wrong

Three runs expect a violation and are findings in `PROJECT.json`: `engine_lost`,
`engine_returns` and `algorithm_livelock`.  Further deviations can be seen by a
change of a configuration or of a property; a run for each would only repeat
them.

- *A mark of zero bytes* (`blockcontainer.cpp:50`): `Blocks.cfg` with
  `MinSize = 0`; `Partition` fails with an empty block.
- *A second loop* (`disassembler.cpp:81`, whose comment at `:80` says `Just wake up
  the engine, if not busy`): the flag is FALSE while a thread is at the Stop step,
  about to drain, or spins.  `BusyWhileWorking` without `~met` fails in `engine`:
  the thread that ends first says that the engine is idle while the other works.
- *Two loops for ever*: with `MaxDecodes = 2`, `Terminates` without
  `<>[]Collide` fails.  One thread sets the Algorithm step for what is pending, the
  other advances it before that is decoded, and no drain ever comes.
- *A queue emptied by another thread* (`engine.cpp:114`): between `hasNext()` in
  `execute` or `analyzeStep` and the one in `algorithmStep`, `RDContext_DisassembleAt`
  or `createFunction` on another thread takes what was pending; the loop then
  asks `algorithmStep` for ever.  `Terminates` without `<>[]Spins(t)`.
- *A deadlock* (`document.cpp:112`): a thread decodes and asks for the document,
  whose lock `createFunction`, or a setter in its `checkLocation`, holds and asks
  for the algorithm's.  `Terminates` without `<>[]Deadlocked`.
- *A flag put back* (`context.h:150`): a `WeakScope` that another thread opened
  when the flag was TRUE sets it again after `cfgStep` or `analyzeStep` cleared it,
  and analyzers run weak.  `WeakDiscipline` without `mode # "crossed"`.
- *A sweep past a delay slot* (`algorithm.cpp:37`): `disassembleBlock` moves its
  view by the size of the instruction and its address past the slot.
  `Algorithm` with `Limit = 5`, `Width = 1`, `Pure = TRUE`,
  `Requests = {"sweep"}`, `MaxPending = 0`, `Programs <- DelayedCall` and
  `SPECIFICATION Spec`; the invariant `CodeFits` fails, code is marked behind
  the segment.
- *The index of a column's lane as one of a row's* (`layeredlayout.cpp:433`,
  `:306`): an edge that leaves straight down is drawn past its end when many
  share its column, and can lie on another one there.  It takes graphs that no
  run has (a switch of some 20 cases far down, 30 to 45 nodes), where
  `RoutesClear` with `Lines` in place of `Direct` fails; on the graphs of the
  runs it holds.  That it never leads into a node is proved.
- *Data past the end of a segment* (`document.cpp:83`, `:207`): `Locations.cfg`
  with `Images <- Zeros`, `Requests <- Overhang`, `MaxRequests = 3`; the
  invariant `EveryAddressHasBlock` fails, bytes have no block at all.

Seen while reading and not modelled as properties: `getGraph` and `basicBlock`
find nothing behind the last function's start or the last leader
(`functioncontainer.cpp:7-11`); a function of one unlinked instruction has no
graph; `ensureVisible` goes back by blocks, not rows, so that its target may be
off the screen; `updateSegments` tests the previous segment's address;
`Graph::removeNode` removes outgoing edges only; `FunctionAnalyzer::findThunk`
tests the inverse of what it means (`functionanalyzer.cpp:50-77`);
`AddressSpace::insert` tests only the ends of a new segment, so one around
another is accepted; `MemoryBuffer::view` subtracts without a test; `exprAND`
builds an `RDIL_Div`; `UnexploredAnalyzer::m_done` is static and shared by all
contexts; `Config` holds a mutex that is not recursive while it calls the user
interface.

## Proofs

With `tlapm`, for every value of the constants:

- `BlocksProofs`: `TypeCorrect`, `PartitionHolds`, `ItemsMarked` and
  `Implementation` (`Blocks` implements `BlockMap`), each under `MinSize = 1`;
  with `MinSize = 0` they are false.  The argument: `MarkResult` (in `Lemmas`)
  says what `Mark` returns on a container of disjoint, non-empty blocks without
  gaps: the new block, the leftovers, and the blocks outside, again disjoint,
  non-empty and without gaps; every other theorem follows from that.
  `MergeEnd` is a least element; the library's induction theorems cannot be
  instantiated here, so `LeastElement` takes it from the well-foundedness of
  strict inclusion on finite sets.
- `ContextProofs`, the engine: `Busy`, `Weak`, `GraphsSettled`,
  `AnalyzersStart` and `TypeCorrect`, for any threads, requests, addresses and
  analyzers, and any bounds.  The inductive invariant `EngineInv` adds to
  `TypeOK` what each control point knows: where a drain may go back to
  (`ReturnsWhere`), that one thread has a lock (`LocksControl`), where the others
  can be while nobody was met (`AloneControl`), which way the flag stands and what
  open scopes will restore (`FlagControl`, `ModeControl`), and that from `cfgStep`
  on every function of an untouched thread is either built or still to build
  (`GraphControl`).  `Settled` and `WeakDiscipline` are not inductive without them.
- `ContextProofs`, the plugins: `LoadsCounted`, `CallsReachModules`,
  `OffersStand` and `SelectionKept`, for any finite number of contexts, any
  files, libraries, listings and entries, where a library's analyzers have an
  order (`SessionAssumption`).  `SessionInv` says two things.  Of the plugins
  (`PluginsKept`): every id leads to a load that has been, and the count of a
  library is the number of its modules that ids lead to, summed over the
  contexts; for one context the others are a constant (`Kept`), so each of its
  calls is proved against that alone and `InUseCounted` sums up.  Of each
  context: it is dead and has no plugins, or what it offers, is bound to and
  has cached is listed (`CallsListed`, `Offered`), the selection is ordered and
  agrees with what was wanted (`Chosen`), and the counts of passes fit it.
  Files and lists are walked by recursive functions of the position
  (`LoadAll`, `ErasedAll`); a lemma for one position (`LoadFileKeeps`,
  `ErasedKeeps`) and one induction over an interval of integers
  (`IntervalInduction`, which is proved from least elements and needs no
  operator as a parameter) give the walk.
- `AlgorithmProofs`: `TypeCorrect`, `CodeWhole`, `BothEnds`, `FunctionsAlone` and
  `AllExplored` under two assumptions:
  nobody sweeps a block (`"sweep" \notin Requests`; `TypeOK` fails otherwise)
  and no datum an instruction refers to reaches past the segment (`DataFits`).
  The inductive invariant `IInv` says that the blocks tile the segment (so that
  `MarkResult` applies), that every call of `decode` holds the instruction the
  program has at its address and, until it has marked it, goes on right behind
  it (`Sane`), and that all calls but the innermost wait for a delay slot.
  `AllExplored` (`Explored`) rests on a second invariant, `EInv`, of
  `Exploration`: a target is not missed, or awaited in the queue or by a call
  of `decode` that has not marked it yet, or among the results that the call
  which decoded its source has left (`ForksInv`); the address an instruction
  goes on to is so too, or is where the outermost call goes on (`FlowInv`).
  Each step moves a target from one of these places to the next (`StepMoves`,
  `AwaitedStep`, `LeftStep`, `GoesOnStep`); `enqueue` drops it only when a byte
  holds something (`RefusedIsCovered`).  When a call for a delay slot returns,
  its caller goes on elsewhere, and that the address it was at has been decoded
  needs `Linear`: a call for a delay slot is where the one below it goes on.
- `LocationsProofs`: `TypeCorrect`, `NoTwice`, `Depth`, `PointersKnown` and
  `CallersReferred`, for any segments, memories and requests under which no
  item reaches past its segment (`DataFits`).  Then the blocks tile every
  segment (`MarkResult` again), so every mark finds its container and every
  `setData` sets its label.  The inductive invariant says that every call but
  the innermost waits at an address that has a label, and that a call is only
  entered at an address without one (`Stacked`): so no address is entered
  twice, and by the pigeonhole principle (`FS_Injection`) the recursion is no
  deeper than there are addresses.  `Leads` adds the calls that are going to
  label a pointer's target.
- `LocationsProofs` also has the theorems about `AddressSpace`:
  `InsertKeepsDisjoint`, `EveryByteAgrees` and `EveryAddressFoundAgain`, for
  segments of any number and size with an address each (`Inhabited`), which is
  what `setSegment` makes of sizes that stay within 64 bits.
- `LabelsProofs`: `TypeCorrect`, `NamesFound`, `IndexTrue` and
  `RenamesAreUnique`, for any addresses, names, demangler and types, and
  `EntriesKeepNames` when the demangler gives no empty name (the two
  demanglers are vendored; a name they fail on is returned as it is).  The
  lemmas say what `SetLabel`, `UpdateLabel`, `UpdateFlags` and `SetType` leave
  of the database's invariant; every action is a chain of those.
- `FunctionGraphProofs`, the graphs: `GraphsAreFlow` and `FunctionsFindGraphs`, for any
  programs and functions (`ProgramsAssumption`).  `GraphsInv` follows the two
  passes of `generateCfg`.  In the first, `Begun` says that there is a set of
  instructions walked so far of which every branch leads to a leader or to an
  address that is still queued, and every flow to one walked or about to be;
  when the queue is empty this set is all that is reached, so every branch
  reached leads to a leader (`Halfway`).  In the second, a finished block is
  what follows its leader up to the next one (`Whole`), the one under
  construction a beginning of that (`Amid`).  `getGraph` searches backwards
  from the lower bound (`BackwardsFinds`) and finds a function's own graph.
  What is reached is stated as a least set (`ReachedBy`), which can be
  reasoned about without induction over paths.
- `FunctionGraphProofs`, the pictures: `LayoutSpans`, `GraphsTyped`,
  `NodesDrawnApart` and `RoutesDrawnClear`, for the graph of any function of any
  program, every type of layout, and any sizes of nodes (`SizesAssumption`: they
  are natural numbers).  Four invariants build on each other.
  - `TreeInv`: the search that cuts cycles and selects edges has made a tree of
    all nodes so far visited, each with one parent, and each node that is not
    yet there has an edge from one that is.
  - `RouteInv`: the trees of two children are set beside each other in all their
    rows, so two nodes of a row are two columns apart; lanes are given inside
    the grid.  The arrays of the code are accessed unchecked.
  - `PictureInv`: rows and columns follow each other, with room for the lanes
    between them, and a node stays within its row and its two columns.
  - `WaysInv`: every route takes a way whose marks (the lane of a row or column,
    between two cells of it) no other route has, in columns that are clear of
    nodes from the row below its source to its end.  Lines are in the lanes of
    their marks (`TracedAll`), so that no two of different routes meet
    (`PiecesApart`).  What remains is the point that `Direct` leaves out, for
    the first half of `RoutesClear`: between two nodes of a column no more
    indices are in use in its lane than there are marks in the lanes of the
    rows, up to one (`LaneHigh`), so the room made for those is enough for an
    index that is taken for one of theirs (`Steep`).
- `ViewerProofs`: `RowsRemain` (`RowsStay`), `RowsAreTheDocument`,
  `CursorStays`, `PathsAreBranches` and `ViewerTyped`, for any documents with the same segments, and any
  addresses, sizes, ranges and number of calls; a surface has at least one row
  when it is resized and segments are mapped before there is one
  (`ViewerAssumption`: a loader sets the segments before the engine runs).  `ViewerInv` says
  that the rows are what the document `view.drawn` has from the first of them
  on (`Sound`), that the cursor is on the current address if it was placed
  (`Kept`), and that paths are those of the document now unless the engine is
  busy (`PathsDrawn`).  The rows are a sequence made by a recursive function
  over the blocks, and their lemmas are inductions over an interval.
- `ViewerProofs` also has `HistoryIsATape`, without assumptions: back stack,
  current address and forward stack are one sequence, and going back or forward
  moves the place of the current address in it, because what is left is pushed
  before the jump.

Every invariant and action property that a passing run checks is stated by a
theorem.  Only model-checked: `Terminates` of `engine`, `algorithm`, `locations`
and `graphs` (liveness is out of the prover's reach); both ends of links
while others sweep, where the code leaves the segment; and the violations.

## Not modelled

- More than half of the lines of `src/` are vendored (`miniz`, the two
  demanglers, the text libraries), and of the rest a third are headers that
  declare the C interface: the share of all lines that the modules translate
  stays small for that reason.
- RDIL (`rdcore/rdil`): expression trees, their lexer and their text.  Plugins
  fill them and a renderer prints them; nothing of it writes the document.
- `Database` and the serializer: a tree of JSON values in a vendored library;
  loading a saved context is a stub in the code.
- Formatting of values, rows and instructions, themes, hex dumps, the
  gibberish detector's trained table.
- `Config`: callbacks and search paths.
- Of the algorithm: results for types.  Tables and pointers are in
  `Locations`, not in `Algorithm`, which has one segment and takes an address
  without a label as data or code.
- Segments that wrap at 64 bits, and writes through the pointers that
  `addrpointer` hands to plugins.
- `CallGraph` and `RDILGraph`: views of the net and of an expression.

## What could come next

1. Both ends of links with sweeps, which needs the bounds of blocks past the
   segment.
2. `Buffers`: search and patterns against a reference definition.
