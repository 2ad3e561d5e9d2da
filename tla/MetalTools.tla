----------------------------- MODULE MetalTools -----------------------------
(***************************************************************************)
(* The tools around the plugin, composed: a library is built and perhaps   *)
(* installed (PluginLoad); tools/dump_kernels.py asks TensorFlow what it   *)
(* registers (KernelTable) and writes kernels.md and metal_ops.txt;        *)
(* tools/op_sweep.py reads that list and sweeps the ops on it (OpSweep).   *)
(* A tool is one process, and one runs at a time.                          *)
(***************************************************************************)
EXTENDS PluginLoad, OpSweep

CONSTANTS
  Selections,      \* sets of ops that --only may choose
  Exports,         \* C entry points that each version of TensorFlow exports
  TensorFlowsOwn,  \* the kernels TensorFlow registers itself
  Sources,         \* the kernels each source tree has, those `always' there
                   \* and those `gated' by ResourceVariableApiAvailable
  CheckedIn,       \* metal_ops.txt as it is in the repository
  NoTool, NoSnapshot

AllKernels ==
  ToSet(TensorFlowsOwn) \union
  UNION {ToSet(Sources[t].always) \union ToSet(Sources[t].gated) : t \in Trees}

ASSUME ToolsAssumption ==
  /\ TensorFlowsOwn \in Seq(AllKernels)
  /\ \A t \in Trees : {Sources[t].always, Sources[t].gated} \subseteq Seq(AllKernels)

VARIABLES
  tool,          \* the tool the process runs
  selection,     \* its --only
  loadedIt,      \* whether it has got past its loading of the plugin
  before,        \* dump_kernels: the registry before the plugin
  metal_ops,     \* tools/metal_ops.txt, the ops to sweep
  kernels_md,    \* docs/kernels.md
  dumped         \* what the files were last made from

toolVars == <<tool, selection, loadedIt, before, metal_ops, kernels_md, dumped>>

vars == <<loadVars, sweepVars, toolVars>>

-----------------------------------------------------------------------------
(* What a library registers. *)

kRequired == {
  "TF_AssignRefVariable", "TF_GetInputTensorFromVariable",
  "TF_MaybeLockVariableInputMutexesInOrder",
  "TF_ReleaseVariableInputLockHolder",
  "TF_OpKernelConstruction_GetAttrTensorShape",
  "TF_OpKernelContext_ForwardRefInputToRefOutput"}

ResourceVariableApiAvailable(tf) == kRequired \subseteq Exports[tf]

\* Said to be the same six: the first is another one.
RESOURCE_VARIABLE_ENTRY_POINTS ==
  (kRequired \ {"TF_AssignRefVariable"}) \union {"TF_AssignVariable"}

resource_variable_api_available(tf) ==
  RESOURCE_VARIABLE_ENTRY_POINTS \subseteq Exports[tf]

\* Kernels are registered whether or not a device is offered.
RegisterAllMetalKernels(tf, tree) ==
  IF ResourceVariableApiAvailable(tf)
  THEN Sources[tree].always \o Sources[tree].gated ELSE Sources[tree].always

Registry(p) ==
  IF p.loads = <<>> THEN TensorFlowsOwn
  ELSE TensorFlowsOwn \o RegisterAllMetalKernels(p.tf, p.loads[1].tree)

-----------------------------------------------------------------------------
Init ==
  /\ LoadInit /\ SweepInit
  /\ tool = NoTool /\ selection = {} /\ loadedIt = FALSE
  /\ before = NoSnapshot
  /\ metal_ops = CheckedIn /\ kernels_md = {}
  /\ dumped = NoTool

Install ==
  /\ \/ \E v \in Versions : PipInstall(v)
     \/ \E tree \in Trees : Make(tree) \/ InstallPlugin(tree)
  /\ UNCHANGED <<sweepVars, toolVars>>

StartDump(disabled, skip) ==
  /\ Start(disabled, skip)
  /\ tool' = "dump"
  /\ UNCHANGED <<sweepVars, selection, loadedIt, before, metal_ops, kernels_md,
                 dumped>>

StartSweep(disabled, skip, only) ==
  /\ Start(disabled, skip)
  /\ tool' = "sweep" /\ selection' = only
  /\ UNCHANGED <<sweepVars, loadedIt, before, metal_ops, kernels_md, dumped>>

Gone ==
  /\ End /\ SweepGone
  /\ tool' = NoTool /\ selection' = {} /\ loadedIt' = FALSE
  /\ before' = NoSnapshot

KeepFiles == UNCHANGED <<metal_ops, kernels_md, dumped>>

Loading(t) == tool = t /\ ~loadedIt /\ ~process.aborted

\* There is no registry without the plugin to compare with.
DumpRefuses == Loading("dump") /\ process.devices # {} /\ Gone /\ KeepFiles

DumpLoads ==
  /\ Loading("dump")
  /\ LoadPlugin
  /\ before' = snapshot(Registry(process))
  /\ loadedIt' = TRUE
  /\ UNCHANGED <<sweepVars, tool, selection, metal_ops, kernels_md, dumped>>

\* The ops that need unexported entry points are listed all the same.
sweepable(rowsOfTable) ==
  {row.op : row \in rowsOfTable} \union NEEDS_UNEXPORTED_C_API

DumpWrites ==
  /\ tool = "dump" /\ loadedIt /\ ~process.aborted
  /\ LET table == Rows(before, snapshot(Registry(process)))
     IN /\ kernels_md' = table
        /\ metal_ops' = sweepable(table)
  /\ dumped' = [tf |-> process.tf, tree |-> process.loads[1].tree]
  /\ Gone

SweepLoads ==
  /\ Loading("sweep")
  /\ LoadPlugin
  /\ loadedIt' = TRUE
  /\ UNCHANGED <<sweepVars, tool, selection, before, metal_ops, kernels_md,
                 dumped>>

\* The library to load is not there, a second load has taken the process down,
\* or there is no device to sweep.
ToolFails ==
  /\ tool # NoTool
  /\ \/ process.aborted
     \/ ~loadedIt /\ process.devices = {} /\ dylib = NoLibrary
     \/ tool = "sweep" /\ loadedIt /\ process.devices = {}
  /\ Gone /\ KeepFiles

Sweeps ==
  /\ tool = "sweep" /\ process # NoProcess
  /\ process.devices # {} /\ ~process.aborted
  /\ \/ SweepBegin(Registry(process),
                   resource_variable_api_available(process.tf),
                   metal_ops \intersect selection)
     \/ SweepStep
  /\ UNCHANGED <<loadVars, toolVars>>

SweepEnds ==
  /\ exit \in {"passed", "failed", "aborted"}
  /\ Gone /\ KeepFiles

Next ==
  \/ Install
  \/ \E disabled, skip \in BOOLEAN :
       \/ StartDump(disabled, skip)
       \/ \E only \in Selections : StartSweep(disabled, skip, only)
  \/ DumpRefuses \/ DumpLoads \/ DumpWrites
  \/ SweepLoads \/ Sweeps \/ SweepEnds
  \/ ToolFails

Spec == Init /\ [][Next]_vars

-----------------------------------------------------------------------------
(* Properties. *)

\* What becomes of a tool that has got past its guard: the load takes it down
\* if and only if a copy of the plugin is installed, and that copy is one that
\* offers nothing, for it stood down or found no device it could use. The
\* comments on the guard say that no tool loads over an installed copy
\* (op_sweep.py:631-633, dump_kernels.py:92-95); an idle one it does not see.
IdleCopiesAbortTools ==
  loadedIt =>
    /\ process.aborted <=> package # NoLibrary
    /\ process.aborted => StandDownReason(process) \/ HasUnifiedMemory = {}

\* The list made by the dump misses nothing new: every op that the library it
\* was made from registers, and TensorFlow itself has no GPU kernel for, is on
\* it, and a row of the table says it is new; what is listed besides is either
\* registered or waits for the entry points (dump_kernels.py's guard, the
\* order of its two snapshots, and `sweepable').
NothingNewIsMissed ==
  dumped # NoTool =>
    LET plugins == RegisterAllMetalKernels(dumped.tf, dumped.tree)
        new == GpuOps(plugins) \ GpuOps(TensorFlowsOwn)
    IN /\ new \subseteq metal_ops
       /\ new = {row.op : row \in {r \in kernels_md : r.new}}
       /\ metal_ops \ NEEDS_UNEXPORTED_C_API \subseteq GpuOps(plugins)

=============================================================================
