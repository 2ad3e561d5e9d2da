# TensorFlow Metal plugin: TLA+ models, model checking and proofs

This directory models two parts of the plugin. The first is where order, sharing
and failure matter: the StreamExecutor back end in
`src/src/tensorflow/core/common_runtime/metal/` (streams, events, device,
buffer registry), what kernels share, and the graph optimizer. The second is
what decides whether the plugin is loaded and whether it is right: the packaging
(`src/setup.py`), the decision at load (`src/src/plugin_init.cc`) and the tools
that list its kernels and sweep its ops (`src/tools/`). Paths below are relative
to the back end's directory unless they begin with `src/`.

`PROJECT.json` lists the components, the TLC runs, one mutation of the code for
every checked property, the source lines each definition stands for, the
hazards of the code and the theorems.

## The system

### Components

| Component | State it keeps | Operations | Talks to |
| --- | --- | --- | --- |
| Stream (`metal_stream.{h,mm}`: `SP_Stream_st`, `OrderedCommandBuffer`) | submission lock, last number handed out, sticky failure, one `MTLSharedEvent` that counts finished buffers | number and open a command buffer, commit it, commit and wait, commit with host work on completion, hand it over to MPSGraph, give the number back | the GPU's queue; completion handlers call back and write `failed` |
| Stream operations (`metal_stream_executor.mm`) | none of their own | host callback, copies, fills, drain (`BlockHostUntilDone`), status | Stream |
| Events and dependencies (`metal_stream_executor.mm`) | per event a shared event, its lock and the value of its last record | record, wait, block host, status; one stream waits for another | two streams at a time |
| Device (`MetalDeviceState`) | list of streams and its lock | create and destroy a stream, drain all (`SyncCopy`, `SynchronizeAllActivity`) | every stream |
| Buffer registry (`metal_buffer_registry.{h,mm}`) | ordered map from base address to buffer, statistics | register, unregister, lookup; allocate and deallocate around them | Metal's allocator; every kernel resolves its tensors here |
| MPSGraph cache and run path (`kernels/metal_mps_graph.mm`) | one cache of built graphs, and its lock | look up or build a graph, run it on a stream | Stream, registry |
| Shader library (`kernels/metal_shader_library.mm`) | compiled library and pipelines, latched failure | pipeline for a name | Stream (fills), kernels |
| Timers | two timestamps written by completion handlers | start, stop, nanoseconds | Stream |
| Profiler (`metal_profiler.mm`) | active flag, samples and ids of names, whether collected; the op name of each thread | start, stop, record, collect | completion handlers record into it |
| Graph optimizer (`metal_graph.mm`) | none between calls | read a GraphDef, fuse, write it | Grappler |
| Packaging and loading (`src/setup.py`, `src/tensorflow-plugins/__init__.py`, `src/src/plugin_init.cc`) | the installed TensorFlow and plugin, `build/`, one process | build and install, load at import or by a tool, stand down or offer devices | TensorFlow, which aborts when a platform is registered twice |
| Platform (`metal_platform.mm`) | list of devices | enumerate, create and destroy a device | core |
| Kernel table dump (`src/tools/dump_kernels.py`) | two snapshots of TensorFlow's kernel registry | snapshot, load the plugin, snapshot again, write `kernels.md` and `metal_ops.txt` | the loaded library; the sweep reads its list |
| Recipes (`src/tools/recipes.py`) | tables of calls | find or make a call for an op, look for the entry points | op registry |
| Op sweep (`src/tools/op_sweep.py`) | verdicts, rows of error figures, ops checked by a property | check registrations, run each op by its route on GPU and CPU, compare, report, return code | both devices, the registry, the recipes |
| Shader compile check (`src/tools/compile_shaders.py`) | none | compile the shaders' source once | Metal's compiler |
| Kernels (`kernels/*.mm`, 60 files) | attributes read at construction | validate shapes, allocate outputs, encode work on the context's stream | registry, shader library, MPSGraph |

### What is hard about it

* **Three kinds of actors on one stream.** Host threads number and commit under
  a lock; the GPU begins committed buffers in order but may *overlap* them and
  end them in any order; Metal's callback threads run handlers some time after
  a buffer has ended. Only the event a buffer waits for and signals makes a
  stream ordered.
* **Numbers that are taken before they are sure to be used.** A command queue
  may return no buffer; the number is given back, but others may have read it.
* **Work that is committed by somebody else.** MPSGraph may commit the buffer
  it was given and go on with one of its own.
* **Failure.** A failed buffer must not wedge the stream, and its failure must
  be reported.
* **Reads outside a lock**: the number another stream is to wait for, an
  event's next value, the snapshot of streams a device-wide drain walks, a
  stream's failure read after the event has been reached.
* **Lifetime**: handlers and drains of a stream that is being destroyed; a
  buffer that is released while its addresses are about to be reused.
* **Work done twice.** Threads build the same graph outside the cache's lock;
  one graph is published, the others freed, and none that somebody runs.
* **A session that ends while handlers still run**: what they record must be in
  its profile or nowhere.
* **A library that may be loaded twice**, into a TensorFlow it was not built
  for, or whose first copy has stood down.
* **A verdict computed from answers nobody can foresee**: arrays of another shape or
  number than expected, empty ones, NaN, exceptions on either device; an op is
  to be blamed on a kernel only if the call was good, and a pass must rest on
  something measured.
* **A difference of two snapshots**, either of which may be taken too late.
* **A rewriting pass** whose successive folds must leave every name, input and
  control dependency of a graph intact.

### What makes each part correct

* Stream: buffers commit in the order of their numbers; each begins after its
  predecessor is finished (host work of the completion included); the event
  counts one by one; what a drain read is done when the drain returns; every
  number is signalled in the end, failures or not; a failure is reported.
* Events: dependencies point back in time, so no set of events and dependencies
  stops the streams; a wait lets nothing through before a record with its value or
  a later one, and, with one recorder at a time, before its own; "complete" is only
  said of what was reached; a blocked host is let go.
* Device: a synchronous copy sees all earlier work on all streams; a stream is
  deleted only when its work is done; drains and destructions end. That no drain
  looks at a deleted stream is not kept.
* Registry: an address resolves to the live buffer around it, and to nothing
  elsewhere; references and statistics add up.
* Graph cache: whoever builds, everybody runs the one published graph of the key;
  none is leaked, and none freed in use.
* Profiler: a profile holds what its session recorded, all of it, under the
  right names, and no buffer shows up in two.
* Optimizer: no reference dangles, control dependencies survive, and the remaining
  nodes compute what they did unless a fold lost one of three things.
* Loading: a tool never loads the plugin over a copy that offers devices.
* Dump: the list misses no op that the library adds.
* Sweep: a match means that the two devices agreed, the second time too, where the
  CPU's numbers are finite; a kernel
  is blamed only where the CPU took the same call; the rows tell the verdicts; what
  passes was measured or checked; return code 0 means all this of every op asked
  for, and no registrations that tie or that cannot be satisfied.

## Modules

| Module | Models |
| --- | --- |
| `StreamOrder` | abstract: a strictly ordered queue, three counters |
| `MetalStream`, `MCMetalStream`, `MetalStreamProofs` | one stream, its threads, the GPU and the handlers; implements `StreamOrder` |
| `MetalEvents`, `MCMetalEvents`, `MetalEventsProofs` | several streams, each at the level of `StreamOrder`, with events and dependencies |
| `MetalDevice`, `MCMetalDevice`, `MetalDeviceProofs` | streams that come and go, and drains of all of them |
| `MetalBufferRegistry`, `MCMetalBufferRegistry`, `MetalBufferRegistryProofs` | the registry and the allocation calls around it |
| `KernelLaunch`, `MCKernelLaunch`, `KernelLaunchProofs` | what kernels share from launch to completion: the graph cache, the threads' op names, the profiling session |
| `GraphFusion`, `MCGraphFusion`, `GraphFusionProofs` | the fusion pass |
| `PluginLoad` | building, installing and loading a library, standing down |
| `KernelTable` | operators: the difference of two registries, the table, the two checks of registrations |
| `OpRecipes` | operators: for which op there is a call, and of which sort |
| `OpCompare` | operators: the comparison of two answers, and the row kept of it |
| `OpSweep` | the sweep over the ops asked for |
| `MetalTools`, `MCMetalTools`, `MetalToolsProofs` | the composition: install, dump, sweep |

An operator whose comment begins with "Mutant:" is a plausible bug in the
definition after it. No specification uses it; `PROJECT.json` names the
property that notices it.

### MetalStream

A thread's position is `pc[t]`, at the points others can interleave with:
after taking `submit`, after taking a number, after getting a command buffer,
after commit. The local values of the `OrderedCommandBuffer` are `wait_value`
and `signal_value`. `Commit`, `CommitAndWait`, `CommitWithHostCompletion` and
`ReleaseForExternalCommit` are the four ways to end one; the last one is
`RunGraph`'s, in which `CommitAndContinue` is MPSGraph's own commit, and, in
synchronous mode, a wait for the stream under its lock. `BlockHostUntilDone`
reads the number, waits, then reads `failed`, in three steps.

`queue` holds the committed buffers. `Schedule` begins the next one when its
encoded wait is satisfied; `Complete(i)` ends any begun one and, for an encoded
signal, raises `order_event`; `NoteCompletion`, `BeginHostWork` and
`EndHostWork` are the handlers. Every operation that encodes one buffer (copies,
fills, timers, kernels, event operations) is one of these four paths, and what
it encodes is left out.

Taken of Metal: buffers of a queue begin in commit order and may overlap; a
failed buffer still executes its encoded signal; a signal below the event's
value changes nothing; `waitUntilCompleted` returns after the buffer's own
handlers.

### MetalEvents

Each stream is a sequence of buffers run one at a time, which `MetalStream` is
shown to justify. What is kept of `OrderedCommandBuffer` is that values are
read before the constructor is entered (`Construct`), that a number is handed
out (`Reserve`) some time before the commit, and that it may be given back.
`RecordEvent` raises the event's target before it has a place in the stream, as
the code does. Nothing is asked of callers: any thread may record an event on any
stream, also while another records it or waits for it. `shared` remembers the
events that had two recorders (two streams, or two calls at once), `lost` the
events a record of which got no buffer and the streams a number of which was given
back after another had read it; `stamp` when each number was handed out. These
three are read by properties alone.

What is left with two recorders at once is the weaker half of `WaitSeesItsRecord` and
`CompleteMeansReached`: some record with the value waited for, or a later one, has
executed; the stronger half, that the very record has, excepts the events in
`shared` and `lost`. `InVain` names what somebody may wait for without end: a number
that was given back, an event a record of which got no buffer, and a record whose
call took its value before the wait was encoded and its number after it (the waiter
may then stand before the record on the same stream). `NothingStalls`,
`EveryBufferRuns` and `HostIsUnblocked` hold of everything else.

### MetalDevice

A stream is counters again: an operation takes the submission lock and a number
(`Reserve`), and commits it (`Commit`) or, if the queue has no buffer, gives it back
(`GiveBack`), also after a drain has read it (`revoked` remembers whose). `BlockUntilIdle`
takes a snapshot under the device's lock, then for each stream reads its number
(`ReadTarget`), committed or not, and waits for it (`Await`); the order of the streams
is arbitrary. `DestroyStream` reads the number and waits, `RemoveStream` takes it off
the list, `DeleteStream` frees it. Core may destroy a stream during a drain of the
device, which nothing in the code prevents; a drain that comes to a deleted
stream (`TouchDeleted`) is `"undefined"` from there on and not followed. `Usable` is
all that is asked of core: it uses no stream it has begun to destroy, and destroys
none that a call of its own is using. `Run` lets the GPU finish a buffer; of a failed
one the handler may run at once or later (`late`).

### MetalBufferRegistry

Addresses are small numbers and Metal may place a buffer on any that no
existing buffer covers, so that addresses are reused as soon as they can be.
`NewBuffer`, `Register` and `ReturnFromAllocate` are the three steps of
`Allocate`, `Unregister` and `Release` the two of `Deallocate`: the entry goes
under the lock, the reference outside it. `Lookup` is a pure operator compared
with "the buffer that covers the address".

### KernelLaunch

`call[t]` is the kernel a thread runs: `launched` once `StreamForContext` gave it
its stream, `building` while it is in `LookupOrBuild` outside the lock, with a
graph object of its own, `running` once it has a graph. `Hit` and `Miss` are the
first look under the lock, `BuildFails` and `Publish` what follows the builder,
`RunGraph` the commit, or a failure before it (an array too many or too few, no
command buffer). `graphs` keeps for each object whether it has been freed
and for which key it was built. `current` is the op name of a thread, set by
`StreamForContext` while somebody profiles, also where it then has no stream to
give; the commit copies it to the buffer's label. Core copies and fills on the same
threads between kernels (`RuntimeWork`), under whatever name the last kernel left
there. A copy from or to the host ends by `CommitWithHostCompletion`, whose handler
(`HostCompletion`) records no timing, so that such copies are in no profile; the next
buffer waits for that handler.

The completion handler of a buffer looks at `active` outside the session's lock
(`NoteTiming`) and again inside (`Record`); any number of handlers may be between
the two. `Stop` takes no lock. `CollectSize` and `CollectBytes` are the two calls
of `ProfilerCollect`, with the vector they share in `pending`. What a reader of
the profile makes of it is `Resolve`: an id of zero does not survive proto3.
Core is taken to profile from one thread, in the order start, stop, size, bytes,
which is what TensorFlow's pluggable profiler does; the refusals of
`Session::Start` and of too small a buffer then do not occur.

The stream is that of `StreamOrder`: buffers end in the order they were committed
in.

### GraphFusion

A graph is a sequence of nodes whose inputs name other nodes; one action per
turn of `FuseGraph`'s loop, `Fold` or `Continue`, with the conditions of its
`continue` statements in `Foldable`. A fused node has the base's inputs in their
order, control inputs included, then the bias's value, then the control inputs of the
folded nodes, and the base's attributes; of the bias and the activation only their
operations are kept (`metal_graph.mm:481-497`). `Before` and `After` give what every
node computes as a term over unfolded operations, so that equality of terms is
equality for whatever the operations compute. A fused node's term is built from the
inputs at places one to three, as the kernel reads them, and there is none if a value
stands behind a control input, which TensorFlow refuses. Node names are their places
in the file; attributes are reduced to what the pass reads (can `T` be read) and to
one value for those a result depends on (a LeakyRelu's slope; the layout of the data
of a convolution or a bias).

A fold therefore loses three things: the place of the bias's value, when the base has
control inputs; the bias's own layout, when it is not the base's; an activation's
slope. `LosesNothing` says that a fold lost none, and `ChangesComeFromLosses` that
nothing else changes what the graph computes. That nothing changes at all
(`FusionPreservesValues`) is false, as `FusionSlope` shows.

### PluginLoad

`tensorflow` and `package` are what is installed, `dylib` what lies in `build/`;
a library remembers the TensorFlow whose `headers` it was compiled against and the
`tree` of sources it was compiled from. `Make` and `InstallPlugin` build, the
latter leaving its library in `build/` too and then installing the one release
`install_requires` names. `Start` is `import tensorflow`, which loads what is
installed; `LoadPlugin` is the guarded load both tools do. `SE_InitPlugin` gives
the devices a load offers, none if `StandDownReason`; to register a platform a
second time is a CHECK failure in TensorFlow (`aborted`). Nothing is installed
or built while a process runs.

### KernelTable, OpRecipes, OpCompare

A registry is a sequence of kernels with device, constraints (attributes with the
types allowed, in order) and host arguments; `snapshot` keeps the GPU's as a set, so
that equal registrations are one, and of a kernel's constraints the last on `T` or
`dtype`, as the table does. `Signature` is the key by which the sweep looks for
ties, which is not TensorFlow's own. `OpRecipes` keeps of each table the ops it has a call for. An answer is a
sequence of flat arrays (their shape is their length) of kind `"float"` or
`"exact"`, with elements in units of 1e-6, and infinity and NaN as two values
beyond them. Relative errors, being ratios, are left out of the rows.

### OpSweep

`todo` holds the ops `main()`'s loop has still to come to, `results`, `rows` and
`checked` are its `results`, `ERRORS` and `CHECKED_BY_PROPERTY`; `calls` remembers
what each device answered, for the properties alone. There is one action per route:
`SweepInternal`, `SweepNoCpu`, `SweepResource`, `SweepUncalled`, `SweepRandom`,
`SweepCompared`. What a device answers is open: any of the op's `Answers`, or an
exception, and always an exception on a GPU without a kernel for the op (soft
placement is off). An exception outside a `try` ends the sweep (`Abort`). Ops do not
depend on one another and are taken in any order. A helper a check calls (the plain
op a fused one is compared with, the inverse transform) may answer or raise
as well. `SweepReport` sets the return code.

### MetalTools

One process runs one tool. `DumpLoads` takes the first snapshot and loads,
`DumpWrites` takes the second and writes both files; `metal_ops` is what a later
sweep takes its ops from, those of them `--only` names. What a library
registers depends on its sources and on the entry points the TensorFlow exports
(`RegisterAllMetalKernels`), not on whether it offers devices. `dumped` remembers
from which library and under which TensorFlow the files were made.

## Runs

All runs use two workers and finish in one to three minutes. Where `CHECK_DEADLOCK FALSE`
is given the bounded instance stops once its bounds are used up; the stream runs
keep deadlock checking on, since a drain can always be called, and so do those
of the tools, for one can always be started.

| Run | Bounds | Shows |
| --- | --- | --- |
| `Stream` | 2 threads, 3 numbers, failures, synchronous mode | serial execution, drains cover what they read and return, synchronous graphs are done on return, every number is signalled, failures are reported, refinement of `StreamOrder` with its liveness |
| `StreamSplit` | 2 threads, 3 numbers, nil buffers, splits, failures | commit order, the event counts one by one, the stream is never wedged: only a drain whose number was given back is kept waiting |
| `Events` | 2 streams, one of whose queues may return no buffer, 2 threads, 1 event, 2 records on any stream, 2 numbers a stream and 3 in all | places equal numbers, dependencies point back, waits see a record, "complete" is true, nobody waits while nobody can go on, every buffer runs, hosts are let go |
| `Device` | 2 streams, 2 threads, 2 numbers a stream, one stream with failing buffers, nil buffers | synchronous copies see earlier work, deletions are drained, the list names no deleted stream, drains and destructions end |
| `DeviceTeardown`, `DeviceLateHandler` | 2 streams, 2 threads, 1 number a stream | a drain touches a deleted stream; a handler does (must fail) |
| `Registry` | 2 threads, 3 buffers, addresses 1-4, sizes 0 and 2 | lookups, references, statistics |
| `Launch` | 2 threads for kernels and core's copies, 2 ops of which one's builder fails, 2 graph objects, 2 buffers of which one may be core's, 2 sessions | published graphs only, no leak, no replacement, complete and disjoint profiles, names that resolve |
| `Fusion` | all graphs of 5 nodes over the kinds in `MCGraphFusion`, two slopes, two layouts, bases that wait or do not | references resolve, values change only where a fold lost something, control dependencies survive |
| `FusionSlope` | graphs of 4 nodes, two slopes, one layout, no base that waits | every value is what it was (must fail) |
| `Tools` | 2 releases (the pin, which lacks the entry points, and one that has them), 2 trees of sources, 2 GPUs of which one has unified memory, 13 ops, of each route at least one, in 9 selections, 1 to 6 answers each | the properties of the tools under "What makes each part correct" |
| `ToolsHeaders` | the same | a device is offered to a TensorFlow the library was not built for (must fail) |

Why these bounds are enough: an ordering error on a stream needs a buffer, its
predecessor and a thread between two steps, hence three numbers and two threads
(the third number reuses one that was given back, or follows a host completion);
a cycle of dependencies needs two streams, a stale event value or a race of two
recorders two records, and a wait in vain one number given back.
A wrong lookup needs a buffer below, one above and an address between, with one
buffer released while another is placed. Two folds that could disturb each other
need five nodes. A race in the cache needs two threads on one key, and a graph object for
each, since a thread holds one at most; a stale label needs one copy of core's; a late
handler that could disturb a profile needs a second session. A stale list, a library of the
wrong release and a second load need two releases and two trees; ops do not
affect one another, so one or two at a time per route suffice, with answers that agree,
agree nearly, do not, are no number, are empty, or have another shape or count.
The theorems below hold without the bounds.

Fairness. `Continue(t)`: a thread inside a call goes on when it can, which is
what a running process does; nothing makes a thread *begin* a call. The GPU's
`Schedule`, `Complete` and `Run` are weakly fair, for Metal runs what is
committed, and the handlers of `MetalStream` are, for it calls them. Submission locks need no
strong fairness: no thread is required to get one, only the holder to go on.

### Where the code and its comments part

Each is a run that must fail, on one property:

* `DeviceLateHandler`: `DestroyStream` waits for the event, not for the
  handlers; the handler of a failed buffer writes to a deleted stream.
* `DeviceTeardown`: a drain of the device goes through its snapshot of the streams
  without the device's lock, "must not block stream creation or teardown"
  (`metal_stream.mm:109-110`), and locks and waits on a stream that another thread has
  deleted. `ListedStreamsExist` is what the code does give: the list it copies
  names no deleted stream.
* `FusionSlope`: a LeakyRelu's slope is lost when it is folded.
* `ToolsHeaders`: the plugin compares the TensorFlow that loads it with the pin,
  not with the headers it was compiled against; a `build/` made under another
  release offers a device to the pinned one (`src/README.md:77-82`).

Others are seen by changing a switch of a passing run, or by stating the property:

* `MpsSplits` with `SerialExecution` (`Stream`): when MPSGraph goes on with a
  buffer of its own, the first carries the wait and the second the signal; the
  two overlap, against `metal_stream.h:32-33`.
* A property that a buffer's label names the op it was encoded for (`Launch`): a
  thread keeps the op name beyond the kernel that set it, so that a copy, or an op
  launched after the session, is labelled with another op's name, against
  `metal_profiler.h:36-37`.
* `NilBuffers` with `DrainReturns` (`Stream`): a drain that read a number which
  was then given back waits until a later buffer takes that number
  (`metal_stream.mm:159-168`), and `NothingWedges` says that nobody else is kept
  waiting. Likewise a drain of the device (`revoked` in `DrainsEnd`) and a stream made
  to depend on the number (`lost` in `EveryBufferRuns`).
* `HostIsUnblocked` without the exception of `lost` (`Events`): `RecordEvent` raises the target
  and then fails for want of a buffer; the event no longer reads "never recorded"
  and a host waits for ever (`metal_stream_executor.mm:295-303`).
* That a drain which returns success covered no failed buffer: the GPU signals
  before the handler notes the failure (`metal_stream.mm:205-212`), so that
  `BlockHostUntilDone` may read `failed` too early (`metal_stream_executor.mm:517`).
* `MpsSplits` with `FailureIsReported`: a buffer MPSGraph committed itself has
  no handler (`metal_mps_graph.mm:298`).
* `WaitSeesItsRecord` and `CompleteMeansReached` without the exception of `shared`
  (`Events`): an event recorded on two streams, "well defined" by
  `metal_stream.h:86-88`, takes values of one counter before it has places, and the
  later value may be signalled first (`metal_stream_executor.mm:292-305`): the wait
  for the earlier record is then let through, and the event complete, before that
  record has executed, against `metal_stream.h:76-78`.
* `FusionPreservesValues` on graphs whose bases wait for something, or whose biases
  have a layout of their own: the bias's value is pushed behind the base's control
  inputs (`metal_graph.mm:487`), where TensorFlow takes no value; the bias's
  `data_format` gives way to the base's (`:481-486`). `ChangesComeFromLosses`
  says that these and the slope are all.
* A match where the CPU has a NaN beside a number and the GPU a NaN in the number's
  place (`Tools`, whose answers have such a pair): one element that is not finite
  exempts the whole array (`src/tools/op_sweep.py:520-521`), before `equal_nan` at
  `:534-535` could tell the elements apart. `MatchMeansAgreement` speaks of arrays
  that are finite all over on the CPU, and of the lengths of the others.
* "No process aborts" (`Tools`): the tools' guard asks whether there is a GPU
  device, not whether the plugin has been loaded. An installed copy that stood down
  has registered its platform without offering a device, so that the tool loads a
  second one and takes the process down, which is what the comments at
  `src/tools/dump_kernels.py:92-95` and `src/tools/op_sweep.py:631-633` say the
  guard prevents. `IdleCopiesAbortTools` says exactly when: a tool that has got past
  its guard is taken down if and only if a copy is installed, and that copy is an
  idle one.
* "The sweep is never aborted" (`Tools`): the CPU's call of a variable op and the
  calls made by the checks of properties are outside any `try`, so that one op
  ends the sweep and its report.
* "A match has a row with elements" (`Tools`): a floating-point answer of the CPU that is not
  finite, an exact or an empty one, gives a row of no measured elements and
  passes. What the report calls "passed without measuring anything"
  (`src/tools/op_sweep.py:884-891`) can hold mismatches only, for every match
  has a row or a property (`RowsAccountForVerdicts`).
* A NaN of the GPU's against a number of the CPU's adds nothing to `max_abs`, by
  the way Python's `max` treats it (`:526`), so that the op fails and yet ranks last
  in "worst numeric error".
* A plugin kernel registered exactly as TensorFlow's own is not in the difference
  of the snapshots; its op is not listed, and the sweep's look for ties
  never sees the one there is.
* Kernels of one op whose type sets overlap, or that differ in their host arguments
  alone, tie in TensorFlow and not in the key of the sweep's own look
  (`src/tools/op_sweep.py:297-299`): `PassedMeansClean` is about that key.

Seen while modelling the tools, without a property: ops without a row
are said to be "checked against a property" by the written report (`:612`), those
whose shapes differ or whose second answer differs included; the docstring of
`last_few` speaks of TopK and TileGrad, which are in another table
(`src/tools/recipes.py:803-806`); the blocks for `INTERNAL` and `NO_CPU` are in
`main` twice, the second out of reach (`src/tools/op_sweep.py:749-786`); Adam's
moments and RMSProp's momentum are not read back, although `:402-403` of
`recipes.py` gives the reason to; the "same six symbols" (`recipes.py:451`) begin
with `TF_AssignVariable`, the plugin's with `TF_AssignRefVariable`; and rebuilding
against the TensorFlow at hand, the remedy the stand-down message offers
(`src/src/plugin_init.cc:105-110`), leaves the pin where it is, so that the
plugin stands down again.

Met while reading the optimizer, and not modelled: `metal_graph.mm:479-480` says the fused
node keeps the base's name, while `:512-514` gives it the last folded node's; the
comment at `:454-455` speaks of transposed operands, the code looks for `T`; the
pass does not ask Grappler which nodes must be preserved, so a fetched
convolution that feeds only its bias is folded away; and the loop at `:492-496`
looks for control inputs of an activation, of which a folded one has none.

## Proofs

`tlapm` checks every theorem below for all values of the constants, under the
named assumptions of the modules.

The inductive invariants, and most of the type invariants in them, are proved, so
the runs check what they imply. Every invariant and action property of a passing run
is the subject of a theorem, under the hypotheses named here.

* `MetalStreamProofs`, for any mix of nil buffers, splits and failures: `TypeCorrect`;
  `CommitOrderHolds`, from `CommitInv` (the holder of `submit` is the one thread
  with an open buffer and it has the last number; the order of the queue alone is
  not inductive, for nothing would say that the open number is the greatest);
  `SignalsInOrderHolds`, from `SplitInv` (no two buffers signal the same number,
  and what is next to signal carries the number after the event's);
  `NothingWedgesHolds`, from `OwedInv` (every number is signalled by some buffer or
  is the open one's): where no thread with `submit`, no GPU and no handler can go on,
  everything has run and nobody waits, but for a drain whose number was given back.
  `DrainsAreOwedHolds` (`~NilBuffers`) says that there is no such drain.
  Without splits (`~MpsSplits`), `SerialInvHolds`, `SerialExecutionHolds`,
  `DrainedIsDoneHolds` and `OrderRefinement` (the safety part of `StreamOrder`):
  place `i` of the queue has number `i` and waits for `i - 1`, so at most one
  buffer is begun and unfinished. With splits serial execution is false, hence
  the assumption. From the same and `SyncInv` (a synchronous graph waits for its
  own last number, since it still holds `submit`), `SynchronousGraphIsDoneHolds`.
* `MetalEventsProofs`, for whoever records what and whatever gets no buffer:
  `TypeCorrect`, `PlacesMatchNumbersHolds`, and `DependenciesPointBackHolds`, from
  `DependencyInv` (a call reads the number it depends on before it takes its own).
  `EventInvHolds`: records under way or committed have values the event has had, none of
  which is without its record unless one got no buffer, and the event's value is the
  greatest of those that have run; an event with one recorder at a time has its
  records on one stream in the order of their values, but for the last, which a call
  may still have. From it `WaitSeesItsRecordHolds` and `CompleteMeansReachedHolds`:
  whatever lets a wait through is a record that has run; and with one recorder it has
  run after the record the wait was made for. `NothingStallsHolds` adds `OrderInv`: of
  all streams with work left take the one whose next buffer was numbered first; what
  it waits for was numbered earlier still, hence has run, or it waits in vain. (TLC
  refutes `NothingStalls` without the exception.)
* `MetalBufferRegistryProofs`: `RegistryInvHolds` (existing buffers lie apart, an
  entry describes an existing buffer, what core holds is registered and in
  nobody's call), and from it `ReferencesAddUpHolds`, `LookupFindsOwnerHolds` and
  `LookupRejectsTheRestHolds`. That `Lookup`'s greatest key below the address is
  unique needs the buffers to lie apart; that there is one, the well-foundedness
  of the naturals. `StatsAgreeHolds`, from `StatsInv`, rests on lemmas about the
  sum over a set, which is a fold over the elements in an unknown order: it is
  compared with a function that adds up, whose existence follows from the least
  counterexample.
* `MetalDeviceProofs`, without an assumption: `DeviceInvHolds`,
  `SyncCopySeesEarlierWorkHolds`, `DeletedIsDrainedHolds`, `ListedStreamsExistHolds`
  and `HeldUpByWorkOnlyHolds` (what a drain waits for is committed, or the thread that
  took the number holds the submission lock, or the number was given back, or the
  stream is gone; a destruction waits for committed work of a stream that is there). The
  step that is easy to miss: a stream *not* in the snapshot owes nothing, since it is
  new or was drained before it was taken off.
* `KernelLaunchProofs`: `TypeCorrect`, and for the graph cache `CacheInvHolds`,
  `RunsPublishedGraphHolds`, `NoGraphLostHolds` and `PublishedStaysHolds`.
  That what a kernel runs is the published graph is not inductive: freeing
  the loser of a race could free a graph somebody runs, unless published graphs
  and those being built are different objects, which `CacheInv` adds. For the
  profiler `ProfileInvHolds` (a handler that is still to record has no sample yet,
  and core's profile is formed once recording is over), and from it `InOneProfileHolds`,
  `ProfileIsCompleteHolds` and `EventsKeepTheirNamesHolds`.
* `GraphFusionProofs`: `FusionInvariant` and `FusionNamesResolve`. A folded node
  that did not leave its name to a fused one is read in one place, by a node
  folded with it; and what a fused node reads was read elsewhere too.
  `ControlDepsSurviveHolds`, `ChangesComeFromLossesHolds` and
  `FusionPreservesValuesHolds`, from `FoldsInvariant` (what each fused node was built
  from). The last two have a hypothesis on the graph, `WellFormed` (values are read from
  earlier nodes, a base or a bias reads two values and then waits, a product has none of
  the attributes in question), which an assumption of `MCGraphFusion` checks of every
  graph of the runs. Then a name whose value changed is that of a fold that lost
  something, or reads a name whose value changed; so that where no fold lost anything
  (`LosesNothing`) nothing changes. `FusionSlope` shows that this second hypothesis is
  needed.
  `ComputedEquation` gives the recursive definition of values its equation (by a
  least counterexample, for there is no induction here), and the first name with
  another value than before would have to read one before it.
* `MetalToolsProofs`: `IdleCopiesAbortToolsHolds`, from `LoadInv` (what a process has
  loaded decides the devices it offers, and it has aborted if and only if it has loaded
  over a copy); `OnlyKernelsBlamedHolds`,
  `RowsAccountForVerdictsHolds` and `PassedMeansCleanHolds`, from `SweepInv` (every op
  asked for is still to do or has a verdict, never both, and a row, a check and the
  recorded calls belong to that verdict); `MatchMeansAgreementHolds`, from the same and
  `CloseTwiceIsNear`: the second GPU answer is compared with the first, not with the
  CPU's, so that three tolerances, not one, bound its distance, and a tolerance
  relative to the first answer must be brought back to the CPU's;
  `NothingNewIsMissedHolds`, from `DumpInv` (the first snapshot is of TensorFlow's own
  registry, because a process that gets past its load has loaded once).

Only model-checked: what rests on fairness, that is liveness and the liveness
half of the refinement. Of the reasons why it holds, those that are safety
properties are proved: `NothingWedges` for a stream, `NothingStalls` for events and
dependencies, `HeldUpByWorkOnly` for drains of the device.

## Not modelled, and why

* What a kernel or a shader computes: data-parallel arithmetic, whose tests
  compare it with the CPU's. Its *submission* is an operation of `MetalStream`.
* Reading and writing protobuf bytes, attribute filtering, log lines.
* Host memory, device attributes, memory usage figures: no state of their own.
* `src/tools/compile_shaders.py`: one call of Metal's compiler on a string, which
  succeeds or does not.
* The arguments of the recipes' calls (what a device answers to them is open), the
  numbers in the checks of properties beyond pass and fail, relative errors, and the
  layout of tables and reports.
* The metadata of the package, the tests and the benchmarks.

## Plan

In this order; each step is a module with its runs and, where useful, proofs.

1. Done: stream, events, device, registry, graph cache and profiler, fusion; packaging
   and loading, kernel table, recipes and sweep.
2. `ShaderLibrary`: compilation under the lock, its latched failure, pipelines
   cached by name for devices that may differ; the fill pipeline beside it.
3. `MetalTimer`: timestamps written by handlers of a stream and read after the
   stop buffer.
4. `PluginInit`: creation of devices, and the profiler's and optimizer's entry
   points (standing down and enumeration are in `PluginLoad`).
5. The kernels (90% of the lines), one module per family, each an operator for
   the whole `*_ComputeImpl` (its early returns, the shape it gives its output,
   which input element each output element comes from) checked against a
   reference definition over all small shapes:
   * `SliceKernels`: `ReadHostVector`, `Slice`, `Pad`, `MirrorPad` and its gradient,
     `ReverseV2`, `Split` (`metal_slice_ops.mm`), `ResolveSlice`, `StridedSlice`, its
     gradient and `Roll` (`metal_strided_ops.mm`); a gradient is the adjoint of its
     operation.
   * `LayoutKernels`: `Transpose`, `Concat`, `Tile`, the space and batch
     rearrangements (`metal_array_ops.mm`, `metal_batch_space_ops.mm`); each is
     undone by its counterpart.
   * `IndexKernels`: gathers, scatters, `Unique`, dynamic partition and stitch,
     segments (`metal_index_ops.mm`, `metal_gather_scatter_ops.mm`,
     `metal_dynamic_ops.mm`, `metal_sparse_segment_ops.mm`); indices out of range.
   * `WindowKernels`: output extents and padding of convolutions and pooling
     (`ReadSpatialParams`, `PoolExtent` and the kernels that use them).
   * `CacheKeys`: the keys kernels derive (`KeyOf` in `KernelLaunch` is any function);
     equal keys must mean equal graphs. A fused convolution's key holds its slope
     with six decimals (`kernels/metal_fused_ops.mm:314-320`).
6. The protobuf reader and writer: a round trip keeps unknown fields.
7. Proofs: each safety property of the modules above as it is added, timers first.
