-------------------------- MODULE MetalToolsProofs --------------------------
(***************************************************************************)
(* What holds of the tools for every TensorFlow, source tree, selection    *)
(* and answer of a kernel.                                                 *)
(***************************************************************************)
EXTENDS MetalTools, SequenceTheorems, FiniteSetTheorems, TLAPS

-----------------------------------------------------------------------------
(* Loading. *)

\* A process offers the devices that its first copy of the plugin offered, and
\* was taken down only where that copy had offered none. Before its tool has
\* loaded anything it holds the installed copy, if there is one, and is up;
\* after that it is up if and only if there was none.
LoadInv ==
  /\ LoadTypeOK
  /\ loadedIt => process # NoProcess
  /\ process # NoProcess =>
       /\ ~loadedIt => /\ ~process.aborted
                       /\ process.loads = <<>> <=> package = NoLibrary
       /\ loadedIt => (process.aborted <=> package # NoLibrary)
  /\ process # NoProcess =>
       /\ process.loads = <<>> => process.devices = {} /\ ~process.aborted
       /\ process.loads # <<>> => process.devices = SE_InitPlugin(process)
       /\ process.aborted => process.devices = {}

\* Loading a library into a process in which no device is offered keeps it a
\* process, and what LoadInv says of it.
LEMMA LoadedKeeps ==
  ASSUME NEW p \in Processes, NEW lib \in Libraries,
         p.devices = {},
         p.loads = <<>> => ~p.aborted,
         p.loads # <<>> => SE_InitPlugin(p) = {}
  PROVE  /\ Loaded(p, lib) \in Processes
         /\ Loaded(p, lib).loads # <<>>
         /\ Loaded(p, lib).devices = SE_InitPlugin(Loaded(p, lib))
         /\ Loaded(p, lib).aborted => Loaded(p, lib).devices = {}
         /\ Loaded(p, lib).aborted <=> p.aborted \/ p.loads # <<>>
PROOF
<1>1. SE_InitPlugin(p) \in SUBSET Gpus
  BY DEF SE_InitPlugin, UsableDevices
<1>2. CASE p.loads = <<>>
  <2>1. Loaded(p, lib) = [p EXCEPT !.loads = <<lib>>, !.devices = SE_InitPlugin(p)]
    BY <1>2 DEF Loaded
  <2>2. /\ Loaded(p, lib).loads = <<lib>> /\ Loaded(p, lib).devices = SE_InitPlugin(p)
        /\ Loaded(p, lib).aborted = p.aborted
        /\ Loaded(p, lib).disabled = p.disabled /\ Loaded(p, lib).skip = p.skip
        /\ Loaded(p, lib).tf = p.tf
    BY <2>1 DEF Processes
  <2>3. SE_InitPlugin(Loaded(p, lib)) = SE_InitPlugin(p)
    BY <2>2 DEF SE_InitPlugin, StandDownReason
  <2>4. <<lib>> \in Seq(Libraries) /\ <<lib>> # <<>>
    OBVIOUS
  <2>5. Loaded(p, lib) \in Processes
    BY <1>1, <2>1, <2>4 DEF Processes
  <2> QED BY <1>2, <2>2, <2>3, <2>4, <2>5
<1>3. CASE p.loads # <<>>
  <2>1. Loaded(p, lib) = [p EXCEPT !.loads = Append(p.loads, lib), !.aborted = TRUE]
    BY <1>3 DEF Loaded
  <2>2. /\ Loaded(p, lib).loads = Append(p.loads, lib)
        /\ Loaded(p, lib).aborted
        /\ Loaded(p, lib).devices = p.devices
        /\ Loaded(p, lib).disabled = p.disabled /\ Loaded(p, lib).skip = p.skip
        /\ Loaded(p, lib).tf = p.tf
    BY <2>1 DEF Processes
  <2>3. SE_InitPlugin(Loaded(p, lib)) = SE_InitPlugin(p)
    BY <2>2 DEF SE_InitPlugin, StandDownReason
  <2>4. Append(p.loads, lib) \in Seq(Libraries) /\ Append(p.loads, lib) # <<>>
    <3>1. p.loads \in Seq(Libraries)
      BY DEF Processes
    <3> QED BY <3>1, AppendProperties
  <2>5. Loaded(p, lib) \in Processes
    BY <2>1, <2>4 DEF Processes
  <2> QED BY <1>3, <2>2, <2>3, <2>4, <2>5
<1> QED BY <1>2, <1>3

LEMMA StartKeepsLoadInv ==
  ASSUME LoadInv, NEW disabled \in BOOLEAN, NEW skip \in BOOLEAN,
         Start(disabled, skip), UNCHANGED loadedIt
  PROVE  LoadInv'
PROOF
<1> DEFINE p == [tf |-> tensorflow, disabled |-> disabled, skip |-> skip,
                 loads |-> <<>>, devices |-> {}, aborted |-> FALSE]
<1>1. p \in Processes /\ p.loads = <<>> /\ p.devices = {} /\ ~p.aborted
  BY DEF LoadInv, LoadTypeOK, Start, Processes
<1>2. process' = IF package = NoLibrary THEN p ELSE Loaded(p, package)
  BY DEF Start
<1>3. UNCHANGED <<tensorflow, package, dylib>> /\ ~loadedIt'
  BY DEF Start, LoadInv
<1>4. CASE package = NoLibrary
  BY <1>1, <1>2, <1>3, <1>4 DEF LoadInv, LoadTypeOK
<1>5. CASE package # NoLibrary
  <2>1. package \in Libraries
    BY <1>5 DEF LoadInv, LoadTypeOK
  <2> QED BY <1>1, <1>2, <1>3, <1>5, <2>1, LoadedKeeps DEF LoadInv, LoadTypeOK
<1> QED BY <1>4, <1>5

LEMMA LoadPluginKeepsLoadInv ==
  ASSUME LoadInv, LoadPlugin, ~loadedIt, loadedIt'
  PROVE  LoadInv'
PROOF
<1>1. process \in Processes /\ dylib \in Libraries /\ process.devices = {}
  BY DEF LoadInv, LoadTypeOK, LoadPlugin
<1>4. ~process.aborted /\ (process.loads = <<>> <=> package = NoLibrary)
  BY DEF LoadInv, LoadPlugin
<1>2. process.loads # <<>> => SE_InitPlugin(process) = {}
  BY <1>1 DEF LoadInv, LoadPlugin
<1>3. process' = Loaded(process, dylib) /\ UNCHANGED <<tensorflow, package, dylib>>
  BY DEF LoadPlugin
<1> QED BY <1>1, <1>2, <1>3, <1>4, LoadedKeeps, NoProcessAssumption
        DEF LoadInv, LoadTypeOK, LoadPlugin

LEMMA GoneKeepsLoadInv == LoadInv /\ Gone => LoadInv'
PROOF BY DEF Gone, End, LoadInv, LoadTypeOK

LEMMA InstallKeepsLoadInv == LoadInv /\ Install => LoadInv'
PROOF
<1> SUFFICES ASSUME LoadInv, Install PROVE LoadInv'
  OBVIOUS
<1>1. process = NoProcess /\ process' = NoProcess
  BY DEF Install, PipInstall, Make, InstallPlugin, install_requires
<1>2. \A tree \in Trees : tensorflow_paths => Built(tree) \in Libraries
  BY DEF LoadInv, LoadTypeOK, tensorflow_paths, Built, Libraries
<1>3. LoadTypeOK'
  BY <1>1, <1>2, LoadAssumption
     DEF LoadInv, LoadTypeOK, Install, PipInstall, Make, InstallPlugin, install_requires
<1>4. ~loadedIt'
  BY <1>1 DEF LoadInv, Install, toolVars
<1> QED BY <1>1, <1>3, <1>4 DEF LoadInv

LEMMA LoadInvStep == LoadInv /\ [Next]_vars => LoadInv'
PROOF
<1> SUFFICES ASSUME LoadInv, [Next]_vars PROVE LoadInv'
  OBVIOUS
<1>1. CASE Install
  BY <1>1, InstallKeepsLoadInv
<1>2. CASE \E disabled, skip \in BOOLEAN :
             \/ StartDump(disabled, skip)
             \/ \E only \in Selections : StartSweep(disabled, skip, only)
  BY <1>2, StartKeepsLoadInv DEF StartDump, StartSweep
<1>3. CASE DumpLoads \/ SweepLoads
  BY <1>3, LoadPluginKeepsLoadInv DEF DumpLoads, SweepLoads, Loading
<1>4. CASE DumpRefuses \/ DumpWrites \/ SweepEnds \/ ToolFails
  BY <1>4, GoneKeepsLoadInv DEF DumpRefuses, DumpWrites, SweepEnds, ToolFails
<1>5. CASE Sweeps
  BY <1>5 DEF Sweeps, loadVars, toolVars, LoadInv, LoadTypeOK, SE_InitPlugin,
              StandDownReason
<1>6. CASE UNCHANGED vars
  BY <1>6 DEF vars, loadVars, toolVars, LoadInv, LoadTypeOK, SE_InitPlugin,
              StandDownReason
<1> QED BY <1>1, <1>2, <1>3, <1>4, <1>5, <1>6 DEF Next

\* Whatever was built and installed before, in whatever order: a tool's load
\* takes it down exactly where an installed copy offers nothing.
THEOREM IdleCopiesAbortToolsHolds == Spec => []IdleCopiesAbortTools
PROOF
<1>1. Init => LoadInv
  BY DEF Init, LoadInit, LoadInv, LoadTypeOK
<1>2. LoadInv => IdleCopiesAbortTools
  BY LoadAssumption
     DEF LoadInv, IdleCopiesAbortTools, SE_InitPlugin, UsableDevices
<1> QED BY <1>1, <1>2, LoadInvStep, PTL DEF Spec

-----------------------------------------------------------------------------
(* The sweep. *)

\* Every op asked for is still to be swept or has its verdict; a row belongs to
\* an op with a verdict, and agrees with it; what passed has a row or was
\* checked against a property; whatever is held against an op that the CPU
\* could have run was found after the CPU had run it.
SweepInv ==
  /\ kernels \in Seq(AllKernels)
  /\ exit = "idle" => ops = {}
  /\ todo \subseteq ops
  /\ DOMAIN results = ops \ todo
  /\ DOMAIN rows \subseteq DOMAIN results
  /\ RowsTellTheVerdict
  /\ PassesAreRowed
  /\ \A op \in DOMAIN results :
       results[op] \in {MISMATCH, GPU_ERROR} /\ Callable(op) /\ op \notin RANDOM =>
         op \in DOMAIN calls /\ calls[op].cpu \notin {Raised, NotCalled}
  /\ exit = "passed" => todo = {} /\ ~Failed

\* What an op's sweep may do to the state for the invariant to survive.
LEMMA DoneKeepsSweepInv ==
  ASSUME SweepInv, NEW op, NEW verdict,
         Sweeping(op), Done(op, verdict),
         DOMAIN rows \subseteq DOMAIN rows',
         DOMAIN rows' \subseteq DOMAIN rows \union {op},
         \A o \in DOMAIN rows : o # op => rows'[o] = rows[o],
         op \in DOMAIN rows' => (rows'[op].ok <=> verdict = MATCH),
         checked \subseteq checked',
         verdict = MATCH =>
           op \in UNION {DOMAIN rows', NO_CPU, RANDOM, checked'},
         DOMAIN calls \subseteq DOMAIN calls',
         \A o \in DOMAIN calls : o # op => calls'[o] = calls[o],
         verdict \in {MISMATCH, GPU_ERROR} /\ Callable(op) /\ op \notin RANDOM =>
           op \in DOMAIN calls' /\ calls'[op].cpu \notin {Raised, NotCalled}
  PROVE  SweepInv'
PROOF
<1>1. /\ op \in todo /\ exit = "running"
      /\ results' = With(results, op, verdict)
      /\ todo' = todo \ {op}
      /\ UNCHANGED <<kernels, api, ops, exit>>
  BY DEF Sweeping, Done
<1>2. /\ DOMAIN results' = DOMAIN results \union {op}
      /\ results'[op] = verdict
      /\ \A o \in DOMAIN results : o # op /\ results'[o] = results[o]
  BY <1>1 DEF SweepInv, With
<1>3. todo' \subseteq ops' /\ DOMAIN results' = ops' \ todo'
  BY <1>1, <1>2 DEF SweepInv
<1>4. DOMAIN rows' \subseteq DOMAIN results'
  BY <1>2 DEF SweepInv
<1>5. RowsTellTheVerdict'
  BY <1>2 DEF SweepInv, RowsTellTheVerdict
<1>6. PassesAreRowed'
  <2> SUFFICES ASSUME NEW o \in unmeasured', results'[o] = MATCH PROVE FALSE
    BY DEF PassesAreRowed
  <2>1. o \in DOMAIN results' /\ o \notin DOMAIN rows'
        /\ o \notin NO_CPU /\ o \notin RANDOM /\ o \notin checked'
    BY DEF unmeasured, Rowless
  <2>2. o # op
    BY <1>2, <2>1
  <2>3. o \in unmeasured /\ results[o] = MATCH
    BY <1>2, <2>1, <2>2 DEF unmeasured, Rowless
  <2> QED BY <2>3 DEF SweepInv, PassesAreRowed
<1>7. \A o : Callable(o)' <=> Callable(o)
  BY <1>1 DEF Callable, Tabled, Exempt
<1>8. ASSUME NEW o \in DOMAIN results', results'[o] \in {MISMATCH, GPU_ERROR},
             Callable(o)', o \notin RANDOM
      PROVE  o \in DOMAIN calls' /\ calls'[o].cpu \notin {Raised, NotCalled}
  BY <1>2, <1>7, <1>8 DEF SweepInv
<1>9. exit' \notin {"idle", "passed"} /\ kernels' \in Seq(AllKernels)
  BY <1>1 DEF SweepInv
<1> QED BY <1>3, <1>4, <1>5, <1>6, <1>8, <1>9 DEF SweepInv

LEMMA RecordIs ==
  ASSUME NEW op, NEW cpu, NEW gpu
  PROVE  /\ DOMAIN rows \subseteq DOMAIN Record(rows, cpu, gpu, op)
         /\ DOMAIN Record(rows, cpu, gpu, op) \subseteq DOMAIN rows \union {op}
         /\ \A o \in DOMAIN rows : o # op => Record(rows, cpu, gpu, op)[o] = rows[o]
         /\ Comparable(cpu, gpu, op) =>
              /\ op \in DOMAIN Record(rows, cpu, gpu, op)
              /\ Record(rows, cpu, gpu, op)[op].ok = ~Failing(cpu, gpu, op)
         /\ ~Comparable(cpu, gpu, op) => Record(rows, cpu, gpu, op) = rows
PROOF BY DEF Record, Row

\* An answer is not one of the marks for a call that did not give any.
LEMMA AnswersAreCalls ==
  ASSUME NEW op, NEW answer \in OnCPU(op)
  PROVE  answer # NotCalled
PROOF BY SweepAssumption DEF OnCPU

LEMMA ComparedKeeps ==
  ASSUME SweepInv, NEW op, NEW cpu, NEW gpu, NEW gpus, Sweeping(op),
         cpu \notin {Raised, NotCalled},
         Compared(op, cpu, gpu), Called(op, cpu, gpus)
  PROVE  SweepInv'
PROOF
<1> DEFINE verdict == IF compare(cpu, gpu, op) THEN MATCH ELSE MISMATCH
<1>1. /\ Done(op, verdict) /\ rows' = Record(rows, cpu, gpu, op)
      /\ checked' = checked
      /\ calls' = With(calls, op, [cpu |-> cpu, gpu |-> gpus])
  BY DEF Compared, Judged, Called
<1>2. compare(cpu, gpu, op) <=>
        Comparable(cpu, gpu, op) /\ ~Failing(cpu, gpu, op)
  BY DEF compare
<1>3. op \notin DOMAIN rows
  BY DEF SweepInv, Sweeping
<1>4. op \in DOMAIN rows' => (rows'[op].ok <=> verdict = MATCH)
  BY <1>1, <1>2, <1>3, RecordIs DEF MATCH, MISMATCH
<1>5. verdict = MATCH => op \in DOMAIN rows'
  BY <1>1, <1>2, RecordIs DEF MATCH, MISMATCH
<1>6. /\ DOMAIN calls' = DOMAIN calls \union {op}
      /\ calls'[op].cpu = cpu
      /\ \A o \in DOMAIN calls : o # op => calls'[o] = calls[o]
  BY <1>1 DEF With
<1>7. /\ DOMAIN rows \subseteq DOMAIN rows'
      /\ DOMAIN rows' \subseteq DOMAIN rows \union {op}
      /\ \A o \in DOMAIN rows : o # op => rows'[o] = rows[o]
  BY <1>1, RecordIs
<1> QED BY <1>1, <1>4, <1>5, <1>6, <1>7, DoneKeepsSweepInv

\* A verdict that leaves the rows alone.
LEMMA RowlessKeeps ==
  ASSUME SweepInv, NEW op, NEW verdict, NEW cpu, NEW gpus, Sweeping(op),
         Done(op, verdict), Called(op, cpu, gpus), UNCHANGED rows,
         checked \subseteq checked',
         verdict = MATCH => op \in UNION {NO_CPU, RANDOM, checked'},
         verdict \in {MISMATCH, GPU_ERROR} /\ Callable(op) /\ op \notin RANDOM =>
           cpu \notin {Raised, NotCalled}
  PROVE  SweepInv'
PROOF
<1>1. /\ DOMAIN calls' = DOMAIN calls \union {op}
      /\ calls'[op].cpu = cpu
      /\ \A o \in DOMAIN calls : o # op => calls'[o] = calls[o]
  BY DEF Called, With
<1>2. op \notin DOMAIN rows
  BY DEF SweepInv, Sweeping
<1> QED BY <1>1, <1>2, DoneKeepsSweepInv

\* The sweep ends where it is; the call that ended it is of an op without a
\* verdict.
LEMMA AbortKeeps ==
  ASSUME SweepInv, NEW op, NEW cpu, NEW gpus, Sweeping(op), Abort,
         Called(op, cpu, gpus), checked \subseteq checked'
  PROVE  SweepInv'
PROOF
<1>1. /\ op \notin DOMAIN results
      /\ UNCHANGED <<kernels, api, ops, todo, results, rows>>
      /\ exit' = "aborted"
  BY DEF SweepInv, Sweeping, Abort
<1>2. /\ DOMAIN calls' = DOMAIN calls \union {op}
      /\ \A o \in DOMAIN calls : o # op => calls'[o] = calls[o]
  BY DEF Called, With
<1>3. PassesAreRowed'
  BY <1>1 DEF SweepInv, PassesAreRowed, unmeasured, Rowless
<1>4. RowsTellTheVerdict'
  BY <1>1 DEF SweepInv, RowsTellTheVerdict
<1>5. \A o : Callable(o)' <=> Callable(o)
  BY <1>1 DEF Callable, Tabled, Exempt
<1>6. ASSUME NEW o \in DOMAIN results', results'[o] \in {MISMATCH, GPU_ERROR},
             Callable(o)', o \notin RANDOM
      PROVE  o \in DOMAIN calls' /\ calls'[o].cpu \notin {Raised, NotCalled}
  BY <1>1, <1>2, <1>5, <1>6 DEF SweepInv
<1> QED BY <1>1, <1>3, <1>4, <1>6 DEF SweepInv

LEMMA InternalKeeps ==
  ASSUME SweepInv, NEW op, SweepInternal(op)
  PROVE  SweepInv'
PROOF
<1>1. Sweeping(op) /\ ~Callable(op)
  BY DEF SweepInternal, Callable, Tabled
<1>2. PICK gpu \in OnGPU(op), cpu \in OnCPU(op), other \in OnHelper(op) :
        \/ /\ gpu = Raised
           /\ Done(op, GPU_ERROR) /\ Called(op, NotCalled, <<gpu>>)
           /\ UNCHANGED <<rows, checked>>
        \/ /\ gpu # Raised /\ cpu = Raised
           /\ checked' = checked \union {op}
           /\ Called(op, cpu, <<gpu>>)
           /\ Checked(op, IF gpu # <<>> /\ other = Raised THEN Raised
                          ELSE check_internal_without_cpu(op, gpu, Head(other)))
        \/ /\ gpu # Raised /\ cpu # Raised
           /\ Compared(op, cpu, gpu) /\ Called(op, cpu, <<gpu>>)
  BY DEF SweepInternal
<1>3. CASE /\ gpu = Raised
           /\ Done(op, GPU_ERROR) /\ Called(op, NotCalled, <<gpu>>)
           /\ UNCHANGED <<rows, checked>>
  BY <1>1, <1>3, RowlessKeeps DEF GPU_ERROR, MATCH
<1>4. CASE /\ gpu # Raised /\ cpu = Raised
           /\ checked' = checked \union {op}
           /\ Called(op, cpu, <<gpu>>)
           /\ Checked(op, IF gpu # <<>> /\ other = Raised THEN Raised
                          ELSE check_internal_without_cpu(op, gpu, Head(other)))
  BY <1>1, <1>4, RowlessKeeps, AbortKeeps DEF Checked, Judged
<1>5. CASE /\ gpu # Raised /\ cpu # Raised
           /\ Compared(op, cpu, gpu) /\ Called(op, cpu, <<gpu>>)
  BY <1>1, <1>5, ComparedKeeps, AnswersAreCalls
<1> QED BY <1>2, <1>3, <1>4, <1>5

LEMMA NoCpuKeeps ==
  ASSUME SweepInv, NEW op, SweepNoCpu(op)
  PROVE  SweepInv'
PROOF
<1>1. Sweeping(op) /\ ~Callable(op) /\ op \in NO_CPU /\ UNCHANGED checked
  BY DEF SweepNoCpu, Callable, Tabled
<1>2. PICK gpu \in OnGPU(op), other \in OnHelper(op) :
        /\ Called(op, NotCalled, <<gpu>>)
        /\ \/ gpu = Raised /\ Done(op, GPU_ERROR) /\ UNCHANGED rows
           \/ /\ gpu # Raised
              /\ Checked(op, IF op \in LAST_FEW THEN check_last_few(op, gpu)
                             ELSE IF other = Raised THEN Raised
                             ELSE check_no_cpu(op, gpu, Head(other)))
  BY DEF SweepNoCpu
<1> QED BY <1>1, <1>2, RowlessKeeps, AbortKeeps DEF Checked, Judged

LEMMA ResourceKeeps ==
  ASSUME SweepInv, NEW op, SweepResource(op)
  PROVE  SweepInv'
PROOF
<1>1. Sweeping(op) /\ ~Callable(op)
  BY DEF SweepResource, Callable, Tabled
<1>2. PICK gpu \in OnGPU(op), cpu \in OnCPU(op) :
       \/ /\ gpu = Raised
          /\ Done(op, GPU_ERROR) /\ Called(op, NotCalled, <<gpu>>)
          /\ UNCHANGED <<rows, checked>>
       \/ /\ gpu # Raised /\ cpu = Raised
          /\ Abort /\ Called(op, cpu, <<gpu>>) /\ UNCHANGED checked
       \/ /\ gpu # Raised /\ cpu # Raised
          /\ Compared(op, cpu, gpu) /\ Called(op, cpu, <<gpu>>)
  BY DEF SweepResource
<1>3. CASE Done(op, GPU_ERROR) /\ Called(op, NotCalled, <<gpu>>)
           /\ UNCHANGED <<rows, checked>>
  BY <1>1, <1>3, RowlessKeeps DEF GPU_ERROR, MATCH
<1>4. CASE Abort /\ Called(op, cpu, <<gpu>>) /\ UNCHANGED checked
  BY <1>1, <1>4, AbortKeeps
<1>5. CASE cpu # Raised /\ Compared(op, cpu, gpu) /\ Called(op, cpu, <<gpu>>)
  BY <1>1, <1>5, ComparedKeeps, AnswersAreCalls
<1> QED BY <1>2, <1>3, <1>4, <1>5

LEMMA UncalledKeeps ==
  ASSUME SweepInv, NEW op, SweepUncalled(op)
  PROVE  SweepInv'
PROOF
<1>1. /\ Sweeping(op) /\ UNCHANGED <<calls, rows, checked>>
      /\ \E verdict \in {NO_ENTRY_POINTS, NOT_EAGER, NO_RECIPE} : Done(op, verdict)
  BY DEF SweepUncalled
<1>2. PICK verdict \in {NO_ENTRY_POINTS, NOT_EAGER, NO_RECIPE} : Done(op, verdict)
  BY <1>1
<1>3. verdict \notin {MATCH, MISMATCH, GPU_ERROR}
  BY DEF NO_ENTRY_POINTS, NOT_EAGER, NO_RECIPE, MATCH, MISMATCH, GPU_ERROR
<1>4. op \notin DOMAIN rows
  BY <1>1 DEF SweepInv, Sweeping
<1> QED BY <1>1, <1>2, <1>3, <1>4, DoneKeepsSweepInv

LEMMA RandomKeeps ==
  ASSUME SweepInv, NEW op, SweepRandom(op)
  PROVE  SweepInv'
PROOF
<1>1. Sweeping(op) /\ op \in RANDOM /\ UNCHANGED <<rows, checked>>
  BY DEF SweepRandom
<1>2. PICK gpu \in OnGPU(op) :
        /\ Called(op, NotCalled, <<gpu>>)
        /\ \/ gpu = Raised /\ Done(op, GPU_ERROR)
           \/ gpu # Raised /\ Judged(op, FiniteAndVarying(gpu))
  BY DEF SweepRandom
<1> QED BY <1>1, <1>2, RowlessKeeps DEF Judged

LEMMA ComparedRouteKeeps ==
  ASSUME SweepInv, NEW op, SweepCompared(op)
  PROVE  SweepInv'
PROOF
<1>1. Sweeping(op)
  BY DEF SweepCompared
<1>2. PICK cpu \in OnCPU(op), gpu \in OnGPU(op), again \in OnGPU(op) :
       \/ /\ cpu = Raised
          /\ Done(op, UNEXERCISED) /\ Called(op, cpu, <<>>)
          /\ UNCHANGED <<rows, checked>>
       \/ /\ cpu # Raised /\ Raised \in {gpu, again}
          /\ Done(op, GPU_ERROR)
          /\ Called(op, cpu, IF gpu = Raised THEN <<gpu>> ELSE <<gpu, again>>)
          /\ UNCHANGED <<rows, checked>>
       \/ /\ Raised \notin {cpu, gpu, again}
          /\ Called(op, cpu, <<gpu, again>>)
          /\ IF compare(gpu, again, op) THEN Compared(op, cpu, gpu)
             ELSE Done(op, MISMATCH) /\ UNCHANGED <<rows, checked>>
  BY DEF SweepCompared
<1>3. cpu # NotCalled
  BY AnswersAreCalls
<1>4. CASE Done(op, UNEXERCISED) /\ Called(op, cpu, <<>>)
           /\ UNCHANGED <<rows, checked>>
  BY <1>1, <1>4, RowlessKeeps DEF UNEXERCISED, MATCH, MISMATCH, GPU_ERROR
<1>5. CASE /\ cpu # Raised /\ Done(op, GPU_ERROR)
           /\ Called(op, cpu, IF gpu = Raised THEN <<gpu>> ELSE <<gpu, again>>)
           /\ UNCHANGED <<rows, checked>>
  BY <1>1, <1>3, <1>5, RowlessKeeps DEF MATCH, GPU_ERROR
<1>6. CASE /\ cpu # Raised /\ Called(op, cpu, <<gpu, again>>)
           /\ Compared(op, cpu, gpu)
  BY <1>1, <1>3, <1>6, ComparedKeeps
<1>7. CASE /\ cpu # Raised /\ Called(op, cpu, <<gpu, again>>)
           /\ Done(op, MISMATCH) /\ UNCHANGED <<rows, checked>>
  BY <1>1, <1>3, <1>7, RowlessKeeps DEF MATCH, MISMATCH
<1> QED BY <1>2, <1>4, <1>5, <1>6, <1>7

LEMMA GpuKernelsFinite ==
  ASSUME kernels \in Seq(AllKernels), NEW op
  PROVE  IsFiniteSet(GpuKernels(kernels, op))
PROOF
<1>1. GpuKernels(kernels, op) \subseteq 1 .. Len(kernels)
  BY DEF GpuKernels, OnGpu
<1>2. IsFiniteSet(1 .. Len(kernels))
  BY FS_Interval, LenProperties
<1> QED BY <1>1, <1>2, FS_Subset

\* Where no kernels of an op are counted as one too many, no two are alike.
LEMMA NoneExtra ==
  ASSUME kernels \in Seq(AllKernels), NEW op, Extra(kernels, op) <= 0
  PROVE  \A j, k \in GpuKernels(kernels, op) :
           j # k => Signature(kernels[j]) # Signature(kernels[k])
PROOF
<1> DEFINE ks == GpuKernels(kernels, op)
           signatures == {Signature(kernels[k]) : k \in ks}
           f == [k \in ks |-> Signature(kernels[k])]
<1>1. IsFiniteSet(ks)
  BY GpuKernelsFinite
<1>2. f \in Surjection(ks, signatures)
  BY DEF Surjection
<1>3. /\ IsFiniteSet(signatures)
      /\ Cardinality(signatures) <= Cardinality(ks)
      /\ Cardinality(signatures) = Cardinality(ks) <=> f \in Injection(ks, signatures)
  <2> HIDE DEF ks, signatures, f
  <2> QED BY <1>1, <1>2, FS_Surjection
<1>4. Cardinality(ks) \in Nat /\ Cardinality(signatures) \in Nat
  BY <1>1, <1>3, FS_CardinalityType
<1>5. Cardinality(ks) - Cardinality(signatures) <= 0
  BY DEF Extra
<1>6. f \in Injection(ks, signatures)
  <2> HIDE DEF ks, signatures, f
  <2> QED BY <1>3, <1>4, <1>5
<1>7. ASSUME NEW j \in ks, NEW k \in ks, j # k
      PROVE  Signature(kernels[j]) # Signature(kernels[k])
  <2>1. f[j] # f[k]
    <3> HIDE DEF ks, signatures, f
    <3> QED BY <1>6, <1>7 DEF Injection, IsInjective
  <2> QED BY <2>1
<1> QED BY <1>7

\* Return code 0 means what it says.
LEMMA PassedIsClean == SweepInv => PassedMeansClean
PROOF
<1> SUFFICES ASSUME SweepInv, exit = "passed" PROVE PassedMeansClean
  BY DEF PassedMeansClean
<1>1. todo = {} /\ DOMAIN results = ops /\ ~Failed /\ kernels \in Seq(AllKernels)
  BY DEF SweepInv
<1>2. \A op \in ops : results[op] \notin {MISMATCH, GPU_ERROR}
  BY <1>1 DEF Failed
<1>3. ASSUME NEW op \in ops PROVE Extra(kernels, op) <= 0
  <2>1. ~(Extra(kernels, op) > 0)
    BY <1>1 DEF Failed, duplicate_registrations
  <2>2. Extra(kernels, op) \in Int
    <3>2. IsFiniteSet(GpuKernels(kernels, op))
      BY <1>1, GpuKernelsFinite
    <3> DEFINE ks == GpuKernels(kernels, op)
               signatures == {Signature(kernels[k]) : k \in ks}
               f == [k \in ks |-> Signature(kernels[k])]
    <3>3. f \in Surjection(ks, signatures)
      BY DEF Surjection
    <3>4. IsFiniteSet(signatures)
      <4> HIDE DEF ks, signatures, f
      <4> QED BY <3>2, <3>3, FS_Surjection DEF ks
    <3> QED BY <3>2, <3>4, FS_CardinalityType DEF Extra
  <2> QED BY <2>1, <2>2
<1>4. ASSUME NEW op \in ops, NEW j \in GpuKernels(kernels, op),
             NEW k \in GpuKernels(kernels, op), j # k
      PROVE  Signature(kernels[j]) # Signature(kernels[k])
  BY <1>1, <1>3, <1>4, NoneExtra
<1>5. ASSUME NEW op \in ops, NEW j \in GpuKernels(kernels, op), op \in DOMAIN OpDefs
      PROVE  Constrained(kernels[j]) \subseteq OpDefs[op].attrs
  BY <1>1, <1>5 DEF Failed, invalid_constraints, AttrsOf
<1> QED BY <1>1, <1>2, <1>4, <1>5 DEF PassedMeansClean

\* What a library registers, and what a process holds, is a sequence of kernels.
LEMMA PluginsAreSequence ==
  ASSUME NEW p \in Processes, p.loads # <<>>
  PROVE  RegisterAllMetalKernels(p.tf, p.loads[1].tree) \in Seq(AllKernels)
PROOF
<1>1. p.loads \in Seq(Libraries)
  BY DEF Processes
<1>2. p.loads[1] \in Libraries
  BY <1>1
<1>3. /\ Sources[p.loads[1].tree].always \in Seq(AllKernels)
      /\ Sources[p.loads[1].tree].gated \in Seq(AllKernels)
  BY <1>2, ToolsAssumption DEF Libraries
<1> QED BY <1>3, ConcatProperties DEF RegisterAllMetalKernels

LEMMA RegistryIsSequence ==
  ASSUME NEW p \in Processes
  PROVE  Registry(p) \in Seq(AllKernels)
PROOF
<1>1. CASE p.loads = <<>>
  BY <1>1, ToolsAssumption DEF Registry
<1>2. CASE p.loads # <<>>
  BY <1>2, PluginsAreSequence, ToolsAssumption, ConcatProperties DEF Registry
<1> QED BY <1>1, <1>2

LEMMA SweepInvStep ==
  LoadInv /\ SweepInv /\ [Next]_vars => SweepInv'
PROOF
<1> SUFFICES ASSUME LoadInv, SweepInv, [Next]_vars PROVE SweepInv'
  OBVIOUS
<1>1. CASE UNCHANGED sweepVars
  <2>1. /\ UNCHANGED <<kernels, api, ops, todo, results, rows, checked, calls, exit>>
    BY <1>1 DEF sweepVars
  <2>2. RowsTellTheVerdict' /\ PassesAreRowed'
    BY <2>1 DEF SweepInv, RowsTellTheVerdict, PassesAreRowed, unmeasured, Rowless
  <2>3. Failed' <=> Failed
    BY <2>1 DEF Failed
  <2>4. \A o : Callable(o)' <=> Callable(o)
    BY <2>1 DEF Callable, Tabled, Exempt
  <2> QED BY <2>1, <2>2, <2>3, <2>4 DEF SweepInv
<1>2. CASE SweepGone
  BY <1>2 DEF SweepGone, SweepInv, RowsTellTheVerdict, PassesAreRowed,
              unmeasured, Rowless
<1>3. CASE Sweeps
  <2>1. ASSUME NEW registry, NEW exported, NEW asked, registry \in Seq(AllKernels),
               SweepBegin(registry, exported, asked)
        PROVE  SweepInv'
    <3>1. DOMAIN results = {} /\ DOMAIN rows = {}
      BY <2>1 DEF SweepBegin, SweepInv
    <3> QED BY <2>1, <3>1 DEF SweepBegin, SweepInv, RowsTellTheVerdict,
                              PassesAreRowed, unmeasured, Rowless
  <2>2. CASE SweepBegin(Registry(process),
                        resource_variable_api_available(process.tf),
                        metal_ops \intersect selection)
    <3>1. process \in Processes
      BY <1>3 DEF Sweeps, LoadInv, LoadTypeOK
    <3>2. Registry(process) \in Seq(AllKernels)
      BY <3>1, RegistryIsSequence
    <3> QED BY <2>1, <2>2, <3>2
  <2>3. CASE SweepReport
    <3>1. PassesAreRowed' /\ RowsTellTheVerdict'
      BY <2>3 DEF SweepReport, SweepInv, RowsTellTheVerdict, PassesAreRowed,
                  unmeasured, Rowless
    <3>2. \A o : Callable(o)' <=> Callable(o)
      BY <2>3 DEF SweepReport, Callable, Tabled, Exempt
    <3>3. (exit = "passed")' => todo' = {} /\ ~Failed'
      BY <2>3 DEF SweepReport, Failed
    <3>4. (exit = "idle")' => ops' = {}
      BY <2>3 DEF SweepReport
    <3> QED BY <2>3, <3>1, <3>2, <3>3, <3>4 DEF SweepReport, SweepInv
  <2> QED BY <1>3, <2>2, <2>3, InternalKeeps, NoCpuKeeps, ResourceKeeps,
             UncalledKeeps, RandomKeeps, ComparedRouteKeeps DEF Sweeps, SweepStep
<1>4. CASE ~Sweeps
  <2>1. UNCHANGED sweepVars \/ SweepGone
    BY <1>4 DEF Next, vars, Install, StartDump, StartSweep, DumpRefuses, DumpLoads,
                DumpWrites, SweepLoads, SweepEnds, ToolFails, Gone
  <2> QED BY <1>1, <1>2, <2>1
<1> QED BY <1>3, <1>4

LEMMA SweepInvHolds == Spec => []SweepInv
PROOF
<1>1. Init => LoadInv
  BY DEF Init, LoadInit, LoadInv, LoadTypeOK
<1>2. Init => SweepInv
  BY DEF Init, SweepInit, SweepInv, RowsTellTheVerdict, PassesAreRowed,
         unmeasured, Rowless
<1> QED BY <1>1, <1>2, LoadInvStep, SweepInvStep, PTL DEF Spec

\* The row kept of an op and the verdict on it agree, for every pair of answers,
\* and whatever passes has a row or was checked against a property.
THEOREM RowsAccountForVerdictsHolds == Spec => []RowsAccountForVerdicts
PROOF
<1>1. SweepInv => RowsAccountForVerdicts
  BY DEF SweepInv, RowsAccountForVerdicts
<1> QED BY <1>1, SweepInvHolds, PTL

\* A kernel is blamed for nothing that its op's call on the CPU may explain.
THEOREM OnlyKernelsBlamedHolds == Spec => []OnlyKernelsBlamed
PROOF
<1>1. SweepInv => OnlyKernelsBlamed
  BY DEF SweepInv, OnlyKernelsBlamed
<1> QED BY <1>1, SweepInvHolds, PTL

\* Return code 0 leaves no op without a verdict, none with a bad one, and none
\* with tied or impossible registrations, for every registry.
THEOREM PassedMeansCleanHolds == Spec => []PassedMeansClean
PROOF BY PassedIsClean, SweepInvHolds, PTL

-----------------------------------------------------------------------------
(* A match. *)

\* One comparison.
LEMMA CloseIsNear ==
  ASSUME NEW x \in Int, NEW y \in Int, IsFinite(x), Close(x, y)
  PROVE  IsFinite(y) /\ Near(x, y)
PROOF BY DEF Close, Near, Gap, Magnitude, IsFinite, Inf, NaN

\* Two of them, one after the other.
LEMMA CloseTwiceIsNear ==
  ASSUME NEW x \in Int, NEW y \in Int, NEW z \in Int,
         IsFinite(x), Close(x, y), Close(y, z)
  PROVE  Near(x, z)
PROOF BY DEF Close, Near, Gap, Magnitude, IsFinite, Inf, NaN

LEMMA SameArray ==
  ASSUME NEW a \in Arrays, NEW b \in Arrays, a.kind = b.kind, a.data = b.data
  PROVE  a = b
PROOF BY DEF Arrays

\* What comparing two answers of one op establishes.
LEMMA ComparedIs ==
  ASSUME NEW op, NEW cpu \in Seq(Arrays), NEW gpu \in Seq(Arrays),
         \A i \in DOMAIN cpu \intersect DOMAIN gpu : cpu[i].kind = gpu[i].kind,
         compare(cpu, gpu, op),
         NEW i \in DOMAIN cpu \ OPAQUE_OUTPUTS(op)
  PROVE  /\ i \in DOMAIN gpu /\ cpu[i] \in Arrays /\ gpu[i] \in Arrays
         /\ cpu[i].kind = gpu[i].kind
         /\ DOMAIN cpu[i].data = DOMAIN gpu[i].data
         /\ Len(cpu[i].data) = Len(gpu[i].data)
         /\ cpu[i].kind = "exact" => gpu[i] = cpu[i]
         /\ cpu[i].kind # "exact" /\ AllFinite(cpu[i]) =>
              \A e \in DOMAIN cpu[i].data :
                Close(cpu[i].data[e], gpu[i].data[e])
PROOF
<1>1. /\ Len(cpu) = Len(gpu) /\ Len(cpu[i].data) = Len(gpu[i].data)
      /\ ~Differs(cpu[i], gpu[i])
  BY DEF compare, Comparable, Failing, Examined
<1>2. i \in DOMAIN gpu /\ cpu[i] \in Arrays /\ gpu[i] \in Arrays
  BY <1>1
<1>3. cpu[i].kind = gpu[i].kind
  BY <1>2
<1>4. DOMAIN cpu[i].data = DOMAIN gpu[i].data
  BY <1>1, <1>2 DEF Arrays
<1>5. ASSUME cpu[i].kind = "exact" PROVE gpu[i] = cpu[i]
  <2>1. cpu[i].data = gpu[i].data
    BY <1>1, <1>5 DEF Differs
  <2> QED BY <1>2, <1>3, <2>1, SameArray
<1>6. ASSUME cpu[i].kind # "exact", AllFinite(cpu[i]),
             NEW e \in DOMAIN cpu[i].data
      PROVE  Close(cpu[i].data[e], gpu[i].data[e])
  <2>1. cpu[i].kind = "float"
    BY <1>2, <1>6 DEF Arrays
  <2> QED BY <1>1, <1>6, <2>1 DEF Differs
<1> QED BY <1>1, <1>2, <1>3, <1>4, <1>5, <1>6

LEMMA ComparedAgree ==
  ASSUME NEW op, NEW cpu \in Seq(Arrays), NEW gpu \in Seq(Arrays),
         \A i \in DOMAIN cpu \intersect DOMAIN gpu : cpu[i].kind = gpu[i].kind,
         compare(cpu, gpu, op)
  PROVE  Agree(cpu, gpu, op)
PROOF
<1>1. ASSUME NEW i \in DOMAIN cpu \ OPAQUE_OUTPUTS(op), cpu[i].kind # "exact",
             AllFinite(cpu[i]), NEW e \in DOMAIN cpu[i].data
      PROVE  IsFinite(gpu[i].data[e]) /\ Near(cpu[i].data[e], gpu[i].data[e])
  <2>1. /\ cpu[i] \in Arrays /\ gpu[i] \in Arrays
        /\ DOMAIN cpu[i].data = DOMAIN gpu[i].data
        /\ Close(cpu[i].data[e], gpu[i].data[e])
    BY <1>1, ComparedIs
  <2>2. cpu[i].data[e] \in Int /\ gpu[i].data[e] \in Int
    BY <1>1, <2>1 DEF Arrays
  <2>3. IsFinite(cpu[i].data[e])
    BY <1>1 DEF AllFinite, Elements
  <2> QED BY <2>1, <2>2, <2>3, CloseIsNear
<1>2. Len(gpu) = Len(cpu)
  BY DEF compare, Comparable
<1>3. ASSUME NEW i \in DOMAIN cpu \ OPAQUE_OUTPUTS(op)
      PROVE  /\ Len(gpu[i].data) = Len(cpu[i].data)
             /\ cpu[i].kind = "exact" => gpu[i] = cpu[i]
  BY <1>3, ComparedIs
<1>4. "exact" # "float"
  OBVIOUS
<1> QED BY <1>1, <1>2, <1>3, <1>4 DEF Agree

LEMMA ComparedTwiceAgree ==
  ASSUME NEW op, NEW cpu \in Seq(Arrays), NEW gpu \in Seq(Arrays),
         NEW again \in Seq(Arrays),
         \A i \in DOMAIN cpu \intersect DOMAIN gpu : cpu[i].kind = gpu[i].kind,
         \A i \in DOMAIN gpu \intersect DOMAIN again : gpu[i].kind = again[i].kind,
         compare(cpu, gpu, op), compare(gpu, again, op)
  PROVE  Agree(cpu, again, op)
PROOF
<1>1. ASSUME NEW i \in DOMAIN cpu \ OPAQUE_OUTPUTS(op)
      PROVE  /\ i \in DOMAIN gpu \ OPAQUE_OUTPUTS(op)
             /\ cpu[i] \in Arrays /\ gpu[i] \in Arrays /\ again[i] \in Arrays
             /\ cpu[i].kind = gpu[i].kind
             /\ DOMAIN cpu[i].data = DOMAIN gpu[i].data
             /\ DOMAIN gpu[i].data = DOMAIN again[i].data
             /\ Len(again[i].data) = Len(cpu[i].data)
  BY <1>1, ComparedIs
<1>2. ASSUME NEW i \in DOMAIN cpu \ OPAQUE_OUTPUTS(op), cpu[i].kind = "exact"
      PROVE  again[i] = cpu[i]
  BY <1>1, <1>2, ComparedIs
<1>3. ASSUME NEW i \in DOMAIN cpu \ OPAQUE_OUTPUTS(op), cpu[i].kind # "exact",
             AllFinite(cpu[i])
      PROVE  \A e \in DOMAIN cpu[i].data :
               /\ IsFinite(again[i].data[e])
               /\ Near(cpu[i].data[e], again[i].data[e])
  <2>1. \A e \in DOMAIN cpu[i].data :
          /\ cpu[i].data[e] \in Int /\ gpu[i].data[e] \in Int
          /\ again[i].data[e] \in Int
    BY SMTT(30), <1>1 DEF Arrays
  <2>2. \A e \in DOMAIN cpu[i].data :
          IsFinite(cpu[i].data[e]) /\ Close(cpu[i].data[e], gpu[i].data[e])
    BY <1>3, ComparedIs DEF AllFinite, Elements
  <2>3. AllFinite(gpu[i])
    BY <1>1, <2>1, <2>2, CloseIsNear DEF AllFinite, Elements
  <2>4. \A e \in DOMAIN cpu[i].data : Close(gpu[i].data[e], again[i].data[e])
    BY <1>1, <1>3, <2>3, ComparedIs
  <2>5. \A e \in DOMAIN cpu[i].data : IsFinite(gpu[i].data[e])
    BY <2>1, <2>2, CloseIsNear
  <2>6. \A e \in DOMAIN cpu[i].data : IsFinite(again[i].data[e])
    BY <2>1, <2>4, <2>5, CloseIsNear
  <2> QED BY <2>1, <2>2, <2>4, <2>6, CloseTwiceIsNear
<1>4. Len(again) = Len(cpu)
  BY DEF compare, Comparable
<1>5. "exact" # "float"
  OBVIOUS
<1> QED BY <1>1, <1>2, <1>3, <1>4, <1>5 DEF Agree

\* What is not an exception is an answer.
LEMMA AnswersAreArrays ==
  ASSUME NEW op, NEW a, NEW b, a \in OnCPU(op) \union OnGPU(op),
         b \in OnCPU(op) \union OnGPU(op), Raised \notin {a, b}
  PROVE  /\ a \in Seq(Arrays) /\ b \in Seq(Arrays)
         /\ \A i \in DOMAIN a \intersect DOMAIN b : a[i].kind = b[i].kind
PROOF
<1>1. op \in DOMAIN Answers /\ a \in Answers[op] /\ b \in Answers[op]
  BY DEF OnCPU, OnGPU
<1> QED BY <1>1, SweepAssumption

LEMMA AnswersAgree ==
  ASSUME NEW op, NEW cpu \in OnCPU(op), NEW gpu \in OnGPU(op),
         Raised \notin {cpu, gpu}, compare(cpu, gpu, op)
  PROVE  \A g \in DOMAIN <<gpu>> : Agree(cpu, <<gpu>>[g], op)
PROOF
<1>1. /\ cpu \in Seq(Arrays) /\ gpu \in Seq(Arrays)
      /\ \A i \in DOMAIN cpu \intersect DOMAIN gpu : cpu[i].kind = gpu[i].kind
  BY AnswersAreArrays
<1>2. Agree(cpu, gpu, op)
  BY <1>1, ComparedAgree
<1> QED BY <1>2

LEMMA AnswersAgreeTwice ==
  ASSUME NEW op, NEW cpu \in OnCPU(op), NEW gpu \in OnGPU(op), NEW again \in OnGPU(op),
         Raised \notin {cpu, gpu, again},
         compare(cpu, gpu, op), compare(gpu, again, op)
  PROVE  \A g \in DOMAIN <<gpu, again>> : Agree(cpu, <<gpu, again>>[g], op)
PROOF
<1>0. Raised \notin {cpu, gpu} /\ Raised \notin {gpu, again}
  OBVIOUS
<1>1. /\ cpu \in Seq(Arrays) /\ gpu \in Seq(Arrays)
      /\ \A i \in DOMAIN cpu \intersect DOMAIN gpu : cpu[i].kind = gpu[i].kind
  BY <1>0, AnswersAreArrays
<1>2. /\ again \in Seq(Arrays)
      /\ \A i \in DOMAIN gpu \intersect DOMAIN again : gpu[i].kind = again[i].kind
  BY <1>0, AnswersAreArrays
<1>3. Agree(cpu, gpu, op)
  BY <1>1, ComparedAgree
<1>4. Agree(cpu, again, op)
  BY <1>1, <1>2, ComparedTwiceAgree
<1> QED BY <1>3, <1>4

\* What an op's sweep may do for a match to go on meaning what it says.
LEMMA OpKeepsMatch ==
  ASSUME SweepInv, MatchMeansAgreement, NEW op, NEW cpu, NEW gpus,
         Sweeping(op), Called(op, cpu, gpus),
         \/ Abort
         \/ \E verdict : /\ Done(op, verdict)
                         /\ verdict = MATCH /\ cpu \notin {Raised, NotCalled} =>
                              \A g \in DOMAIN gpus : Agree(cpu, gpus[g], op)
  PROVE  MatchMeansAgreement'
PROOF
<1>1. op \notin DOMAIN results
  BY DEF SweepInv, Sweeping
<1>2. /\ DOMAIN calls' = DOMAIN calls \union {op}
      /\ calls'[op].cpu = cpu /\ calls'[op].gpu = gpus
      /\ \A o \in DOMAIN calls : o # op => calls'[o] = calls[o]
  BY DEF Called, With
<1>3. ASSUME NEW o, o # op, o \in DOMAIN calls', o \in DOMAIN results,
             results[o] = MATCH, calls'[o].cpu \notin {Raised, NotCalled},
             NEW g \in DOMAIN calls'[o].gpu
      PROVE  Agree(calls'[o].cpu, calls'[o].gpu[g], o)
  BY <1>2, <1>3 DEF MatchMeansAgreement
<1>4. CASE Abort
  BY <1>1, <1>3, <1>4 DEF Abort, MatchMeansAgreement
<1>5. ASSUME NEW verdict, Done(op, verdict),
             verdict = MATCH /\ cpu \notin {Raised, NotCalled} =>
               \A g \in DOMAIN gpus : Agree(cpu, gpus[g], op)
      PROVE  MatchMeansAgreement'
  <2>1. /\ DOMAIN results' = DOMAIN results \union {op}
        /\ results'[op] = verdict
        /\ \A o \in DOMAIN results : results'[o] = results[o]
    BY <1>1, <1>5 DEF Done, With
  <2> QED BY <1>2, <1>3, <1>5, <2>1 DEF MatchMeansAgreement
<1> QED BY <1>4, <1>5

LEMMA ComparedKeepsMatch ==
  ASSUME SweepInv, MatchMeansAgreement, NEW op, NEW cpu, NEW gpu, NEW gpus,
         Sweeping(op), Compared(op, cpu, gpu), Called(op, cpu, gpus),
         compare(cpu, gpu, op) => \A g \in DOMAIN gpus : Agree(cpu, gpus[g], op)
  PROVE  MatchMeansAgreement'
PROOF
<1> DEFINE verdict == IF compare(cpu, gpu, op) THEN MATCH ELSE MISMATCH
<1>1. Done(op, verdict)
  BY DEF Compared, Judged
<1>2. verdict = MATCH => compare(cpu, gpu, op)
  BY DEF MATCH, MISMATCH
<1> HIDE DEF verdict
<1> QED BY <1>1, <1>2, OpKeepsMatch

LEMMA MatchStep ==
  SweepInv /\ MatchMeansAgreement /\ [Next]_vars => MatchMeansAgreement'
PROOF
<1> SUFFICES ASSUME SweepInv, MatchMeansAgreement, [Next]_vars
             PROVE  MatchMeansAgreement'
  OBVIOUS
<1>1. CASE UNCHANGED <<results, calls>>
  BY <1>1 DEF MatchMeansAgreement
<1>2. CASE SweepGone
  BY <1>2 DEF SweepGone, MatchMeansAgreement
<1>3. ASSUME NEW op, SweepInternal(op) PROVE MatchMeansAgreement'
  <2>1. Sweeping(op)
    BY <1>3 DEF SweepInternal
  <2>2. PICK gpu \in OnGPU(op), cpu \in OnCPU(op), other \in OnHelper(op) :
        \/ /\ gpu = Raised
           /\ Done(op, GPU_ERROR) /\ Called(op, NotCalled, <<gpu>>)
        \/ /\ gpu # Raised /\ cpu = Raised
           /\ Called(op, cpu, <<gpu>>)
           /\ Checked(op, IF gpu # <<>> /\ other = Raised THEN Raised
                          ELSE check_internal_without_cpu(op, gpu, Head(other)))
        \/ /\ gpu # Raised /\ cpu # Raised
           /\ Compared(op, cpu, gpu) /\ Called(op, cpu, <<gpu>>)
    BY <1>3 DEF SweepInternal
  <2>3. CASE Done(op, GPU_ERROR) /\ Called(op, NotCalled, <<gpu>>)
    BY <2>1, <2>3, OpKeepsMatch DEF GPU_ERROR, MATCH
  <2>4. ASSUME NEW outcome, cpu = Raised, Called(op, cpu, <<gpu>>),
               Checked(op, outcome)
        PROVE  MatchMeansAgreement'
    BY <2>1, <2>4, OpKeepsMatch DEF Checked, Judged
  <2>5. CASE /\ Raised \notin {gpu, cpu}
             /\ Compared(op, cpu, gpu) /\ Called(op, cpu, <<gpu>>)
    BY <2>1, <2>5, AnswersAgree, ComparedKeepsMatch
  <2> QED BY <2>2, <2>3, <2>4, <2>5
<1>4. ASSUME NEW op, SweepNoCpu(op) PROVE MatchMeansAgreement'
  <2>1. Sweeping(op) /\ \E gpu, outcome :
          /\ Called(op, NotCalled, <<gpu>>)
          /\ Done(op, GPU_ERROR) \/ Checked(op, outcome)
    BY <1>4 DEF SweepNoCpu
  <2> QED BY <2>1, OpKeepsMatch DEF Checked, Judged
<1>5. ASSUME NEW op, SweepResource(op) PROVE MatchMeansAgreement'
  <2>1. Sweeping(op)
    BY <1>5 DEF SweepResource
  <2>2. PICK gpu \in OnGPU(op), cpu \in OnCPU(op) :
       \/ Done(op, GPU_ERROR) /\ Called(op, NotCalled, <<gpu>>)
       \/ Abort /\ Called(op, cpu, <<gpu>>)
       \/ /\ gpu # Raised /\ cpu # Raised
          /\ Compared(op, cpu, gpu) /\ Called(op, cpu, <<gpu>>)
    BY <1>5 DEF SweepResource
  <2>3. CASE Done(op, GPU_ERROR) /\ Called(op, NotCalled, <<gpu>>)
    BY <2>1, <2>3, OpKeepsMatch
  <2>4. CASE Abort /\ Called(op, cpu, <<gpu>>)
    BY <2>1, <2>4, OpKeepsMatch
  <2>5. CASE /\ Raised \notin {gpu, cpu}
             /\ Compared(op, cpu, gpu) /\ Called(op, cpu, <<gpu>>)
    BY <2>1, <2>5, AnswersAgree, ComparedKeepsMatch
  <2> QED BY <2>2, <2>3, <2>4, <2>5
<1>6. ASSUME NEW op, SweepUncalled(op) PROVE MatchMeansAgreement'
  <2>1. PICK verdict \in {NO_ENTRY_POINTS, NOT_EAGER, NO_RECIPE} :
          Sweeping(op) /\ UNCHANGED calls /\ Done(op, verdict)
    BY <1>6 DEF SweepUncalled
  <2>2. /\ DOMAIN results' = DOMAIN results \union {op}
        /\ results'[op] # MATCH
        /\ \A o \in DOMAIN results : o # op => results'[o] = results[o]
    BY <2>1 DEF Done, With, NO_ENTRY_POINTS, NOT_EAGER, NO_RECIPE, MATCH
  <2> QED BY <2>1, <2>2 DEF MatchMeansAgreement
<1>7. ASSUME NEW op, SweepRandom(op) PROVE MatchMeansAgreement'
  <2>1. Sweeping(op) /\ \E gpu, verdict :
          Called(op, NotCalled, <<gpu>>) /\ Done(op, verdict)
    BY <1>7 DEF SweepRandom, Judged
  <2> QED BY <2>1, OpKeepsMatch
<1>8. ASSUME NEW op, SweepCompared(op) PROVE MatchMeansAgreement'
  <2>1. Sweeping(op)
    BY <1>8 DEF SweepCompared
  <2>2. PICK cpu \in OnCPU(op), gpu \in OnGPU(op), again \in OnGPU(op) :
       \/ Done(op, UNEXERCISED) /\ Called(op, cpu, <<>>)
       \/ /\ Done(op, GPU_ERROR)
          /\ Called(op, cpu, IF gpu = Raised THEN <<gpu>> ELSE <<gpu, again>>)
       \/ /\ Raised \notin {cpu, gpu, again}
          /\ Called(op, cpu, <<gpu, again>>)
          /\ IF compare(gpu, again, op) THEN Compared(op, cpu, gpu)
             ELSE Done(op, MISMATCH)
    BY <1>8 DEF SweepCompared
  <2>3. CASE Done(op, UNEXERCISED) /\ Called(op, cpu, <<>>)
    BY <2>1, <2>3, OpKeepsMatch DEF UNEXERCISED, MATCH
  <2>4. CASE /\ Done(op, GPU_ERROR)
             /\ Called(op, cpu, IF gpu = Raised THEN <<gpu>> ELSE <<gpu, again>>)
    BY <2>1, <2>4, OpKeepsMatch DEF GPU_ERROR, MATCH
  <2>5. CASE Called(op, cpu, <<gpu, again>>) /\ Done(op, MISMATCH)
    BY <2>1, <2>5, OpKeepsMatch DEF MISMATCH, MATCH
  <2>6. CASE /\ Raised \notin {cpu, gpu, again}
             /\ Called(op, cpu, <<gpu, again>>)
             /\ compare(gpu, again, op) /\ Compared(op, cpu, gpu)
    <3>1. compare(cpu, gpu, op) =>
            \A g \in DOMAIN <<gpu, again>> : Agree(cpu, <<gpu, again>>[g], op)
      BY <2>6, AnswersAgreeTwice
    <3> QED BY <2>1, <2>6, <3>1, ComparedKeepsMatch
  <2> QED BY <2>2, <2>3, <2>4, <2>5, <2>6
<1>9. UNCHANGED <<results, calls>> \/ SweepGone \/ \E op \in todo :
         \/ SweepInternal(op) \/ SweepNoCpu(op) \/ SweepResource(op)
         \/ SweepUncalled(op) \/ SweepRandom(op) \/ SweepCompared(op)
  BY DEF Next, vars, sweepVars, Install, StartDump, StartSweep, DumpRefuses,
         DumpLoads, DumpWrites, SweepLoads, Sweeps, SweepEnds, ToolFails, Gone,
         SweepStep, SweepBegin, SweepReport
<1> QED BY <1>1, <1>2, <1>3, <1>4, <1>5, <1>6, <1>7, <1>8, <1>9

\* A match means that all the GPU answered, the second time as well, is near
\* what the CPU did, for all answers of all ops and whatever is installed.
THEOREM MatchMeansAgreementHolds == Spec => []MatchMeansAgreement
PROOF
<1>1. Init => MatchMeansAgreement
  BY DEF Init, SweepInit, MatchMeansAgreement
<1> QED BY <1>1, SweepInvHolds, MatchStep, PTL DEF Spec

-----------------------------------------------------------------------------
(* The list of ops. *)

\* The registrations of a registry are of its ops, and those of two registries
\* in one are those of each.
LEMMA SnapshotOps ==
  ASSUME NEW registry
  PROVE  GpuOps(registry) = {r.op : r \in snapshot(registry)}
PROOF
<1> DEFINE entry(k) == [op |-> registry[k].op, dtypes |-> Dtypes(registry[k]),
                        host |-> registry[k].host]
<1>1. \A k \in OnGpu(registry) : entry(k).op = registry[k].op
  OBVIOUS
<1>2. snapshot(registry) = {entry(k) : k \in OnGpu(registry)}
  BY DEF snapshot
<1> HIDE DEF entry
<1> QED BY <1>1, <1>2 DEF GpuOps

LEMMA SnapshotOfBoth ==
  ASSUME NEW r1 \in Seq(AllKernels), NEW r2 \in Seq(AllKernels)
  PROVE  snapshot(r1 \o r2) = snapshot(r1) \union snapshot(r2)
PROOF
<1> DEFINE both == r1 \o r2
           entry(k) == [op |-> k.op, dtypes |-> Dtypes(k), host |-> k.host]
<1>1. /\ both \in Seq(AllKernels)
      /\ Len(both) = Len(r1) + Len(r2)
      /\ \A i \in 1 .. Len(r1) + Len(r2) :
           both[i] = IF i <= Len(r1) THEN r1[i] ELSE r2[i - Len(r1)]
  BY ConcatProperties
<1>2. /\ Len(r1) \in Nat /\ Len(r2) \in Nat
      /\ DOMAIN r1 = 1 .. Len(r1) /\ DOMAIN r2 = 1 .. Len(r2)
      /\ DOMAIN both = 1 .. Len(r1) + Len(r2)
  BY <1>1, LenProperties
<1> HIDE DEF both
<1>3. ASSUME NEW x \in snapshot(both) PROVE x \in snapshot(r1) \union snapshot(r2)
  <2>1. PICK i \in DOMAIN both : both[i].device = "GPU" /\ x = entry(both[i])
    BY DEF snapshot, OnGpu
  <2>2. CASE i <= Len(r1)
    BY <1>1, <1>2, <2>1, <2>2 DEF snapshot, OnGpu
  <2>3. CASE ~(i <= Len(r1))
    <3>1. i - Len(r1) \in DOMAIN r2 /\ both[i] = r2[i - Len(r1)]
      BY <1>1, <1>2, <2>3
    <3> QED BY <2>1, <3>1 DEF snapshot, OnGpu
  <2> QED BY <2>2, <2>3
<1>4. ASSUME NEW x \in snapshot(r1) PROVE x \in snapshot(both)
  <2>1. PICK i \in DOMAIN r1 : r1[i].device = "GPU" /\ x = entry(r1[i])
    BY DEF snapshot, OnGpu
  <2>2. i \in DOMAIN both /\ both[i] = r1[i]
    BY <1>1, <1>2
  <2> QED BY <2>1, <2>2 DEF snapshot, OnGpu
<1>5. ASSUME NEW x \in snapshot(r2) PROVE x \in snapshot(both)
  <2>1. PICK i \in DOMAIN r2 : r2[i].device = "GPU" /\ x = entry(r2[i])
    BY DEF snapshot, OnGpu
  <2>2. i + Len(r1) \in DOMAIN both /\ both[i + Len(r1)] = r2[i]
    BY <1>1, <1>2
  <2> QED BY <2>1, <2>2 DEF snapshot, OnGpu
<1> QED BY <1>3, <1>4, <1>5 DEF both

\* The table made of the registry without the plugin and with it lists every op
\* that is the plugin's alone, marks those and no others as new, and lists no
\* op that is not the plugin's.
LEMMA TableOfPlugin ==
  ASSUME NEW own \in Seq(AllKernels), NEW plugins \in Seq(AllKernels)
  PROVE  LET table == Rows(snapshot(own), snapshot(own \o plugins))
         IN /\ GpuOps(plugins) \ GpuOps(own) = {r.op : r \in {t \in table : t.new}}
            /\ {r.op : r \in table} \subseteq GpuOps(plugins)
PROOF
<1> DEFINE added == Added(snapshot(own), snapshot(own \o plugins))
           row(op) == [op |-> op,
                       dtypes |-> UNION {r.dtypes : r \in {s \in added : s.op = op}},
                       host |-> UNION {r.host : r \in {s \in added : s.op = op}},
                       new |-> \A r \in snapshot(own) : r.op # op]
           table == Rows(snapshot(own), snapshot(own \o plugins))
<1>1. added = snapshot(plugins) \ snapshot(own)
  BY SnapshotOfBoth DEF Added
<1>2. table = {row(op) : op \in {r.op : r \in added}}
  BY DEF Rows
<1>3. \A op : row(op).op = op /\ (row(op).new <=> \A r \in snapshot(own) : r.op # op)
  OBVIOUS
<1> HIDE DEF table, added, row
<1>4. {r.op : r \in table} = {r.op : r \in added}
  <2> DEFINE names == {r.op : r \in added}
  <2>1. table = {row(op) : op \in names}
    BY <1>2
  <2> HIDE DEF names
  <2>2. ASSUME NEW op \in names PROVE \E t \in table : t.op = op
    BY <1>3, <2>1
  <2>3. ASSUME NEW t \in table PROVE t.op \in names
    BY <1>3, <2>1
  <2>4. {t.op : t \in table} = names
    BY <2>2, <2>3
  <2> QED BY <2>4 DEF names
<1>5. {r.op : r \in table} \subseteq GpuOps(plugins)
  BY <1>1, <1>4, SnapshotOps
<1>6. ASSUME NEW op \in GpuOps(plugins) \ GpuOps(own)
      PROVE  op \in {r.op : r \in {t \in table : t.new}}
  <2>1. PICK r \in snapshot(plugins) : r.op = op
    BY <1>6, SnapshotOps
  <2>2. r \in added
    BY <1>1, <1>6, <2>1, SnapshotOps
  <2>3. row(op) \in table /\ row(op).op = op
    BY <1>2, <1>3, <2>1, <2>2
  <2>4. row(op).new
    BY <1>6, <1>3, SnapshotOps
  <2> QED BY <2>3, <2>4
<1>7. ASSUME NEW t \in table, t.new PROVE t.op \in GpuOps(plugins) \ GpuOps(own)
  <2>1. PICK op \in {r.op : r \in added} : t = row(op)
    BY <1>2
  <2>2. t.op = op /\ \A r \in snapshot(own) : r.op # op
    BY <1>7, <1>3, <2>1
  <2>3. t.op \in GpuOps(plugins)
    BY <1>5
  <2> QED BY <2>2, <2>3, SnapshotOps
<1> QED BY <1>5, <1>6, <1>7 DEF table

\* What a dump that may still write holds, and what it has written.
DumpInv ==
  /\ process = NoProcess => ~loadedIt
  /\ tool = "dump" /\ loadedIt /\ process # NoProcess /\ ~process.aborted =>
       Len(process.loads) = 1 /\ before = snapshot(TensorFlowsOwn)
  /\ NothingNewIsMissed

\* A load leaves a process behind it.
LEMMA LoadPluginMeetsProcess ==
  ASSUME LoadInv, LoadPlugin PROVE process' # NoProcess
PROOF
<1>1. process \in Processes /\ dylib \in Libraries /\ process' = Loaded(process, dylib)
  BY DEF LoadPlugin, LoadInv, LoadTypeOK
<1>2. Loaded(process, dylib) \in Processes
  <2>1. /\ process.loads \in Seq(Libraries) /\ <<dylib>> \in Seq(Libraries)
        /\ Append(process.loads, dylib) \in Seq(Libraries)
    BY <1>1 DEF Processes
  <2>2. SE_InitPlugin(process) \in SUBSET Gpus
    BY DEF SE_InitPlugin, UsableDevices
  <2> QED BY <1>1, <2>1, <2>2 DEF Loaded, Processes
<1> QED BY <1>1, <1>2, NoProcessAssumption

LEMMA DumpInvStep ==
  LoadInv /\ DumpInv /\ [Next]_vars => DumpInv'
PROOF
<1> SUFFICES ASSUME LoadInv, DumpInv, [Next]_vars PROVE DumpInv'
  OBVIOUS
<1>1. ASSUME UNCHANGED <<metal_ops, kernels_md, dumped>> PROVE NothingNewIsMissed'
  BY <1>1 DEF DumpInv, NothingNewIsMissed
<1>2. ASSUME Gone, KeepFiles PROVE DumpInv'
  BY <1>1, <1>2 DEF Gone, End, KeepFiles, DumpInv
<1>3. CASE Install
  BY <1>1, <1>3 DEF Install, toolVars, PipInstall, Make, InstallPlugin, install_requires, DumpInv
<1>4. CASE \E disabled, skip \in BOOLEAN :
             \/ StartDump(disabled, skip)
             \/ \E only \in Selections : StartSweep(disabled, skip, only)
  BY <1>1, <1>4 DEF StartDump, StartSweep, Start, DumpInv
<1>5. CASE DumpLoads
  <2>1. /\ process' = Loaded(process, dylib) /\ before' = snapshot(Registry(process))
        /\ process \in Processes /\ dylib \in Libraries
    BY <1>5 DEF DumpLoads, LoadPlugin, LoadInv, LoadTypeOK
  <2>4. process' # NoProcess
    BY <1>5, LoadPluginMeetsProcess DEF DumpLoads
  <2>2. CASE process.loads = <<>>
    <3>1. process'.loads = <<dylib>>
      BY <2>1, <2>2 DEF Loaded, Processes
    <3>2. Registry(process) = TensorFlowsOwn
      BY <2>2 DEF Registry
    <3> QED BY <1>1, <1>5, <2>1, <2>4, <3>1, <3>2 DEF DumpLoads, DumpInv
  <2>3. CASE process.loads # <<>>
    <3>1. process'.aborted
      BY <2>1, <2>3 DEF Loaded, Processes
    <3> QED BY <1>1, <1>5, <2>1, <2>4, <3>1 DEF DumpLoads, DumpInv
  <2> QED BY <2>2, <2>3
<1>6. CASE DumpWrites
  <2>1. /\ process \in Processes /\ process.loads # <<>>
        /\ Len(process.loads) = 1 /\ before = snapshot(TensorFlowsOwn)
    <3>1. process # NoProcess /\ tool = "dump" /\ loadedIt /\ ~process.aborted
      BY <1>6 DEF DumpWrites, Gone, End
    <3>2. Len(process.loads) = 1 /\ before = snapshot(TensorFlowsOwn)
      BY <3>1 DEF DumpInv
    <3>3. process \in Processes
      BY <3>1 DEF LoadInv, LoadTypeOK
    <3> QED BY <3>2, <3>3
  <2> DEFINE plugins == RegisterAllMetalKernels(process.tf, process.loads[1].tree)
             table == Rows(snapshot(TensorFlowsOwn), snapshot(TensorFlowsOwn \o plugins))
  <2>2. Registry(process) = TensorFlowsOwn \o plugins
    BY <2>1 DEF Registry
  <2>3. /\ kernels_md' = table /\ metal_ops' = sweepable(table)
        /\ dumped' = [tf |-> process.tf, tree |-> process.loads[1].tree]
        /\ process' = NoProcess /\ ~loadedIt'
    BY <1>6, <2>1, <2>2 DEF DumpWrites, Gone, End
  <2>4. plugins \in Seq(AllKernels)
    BY <2>1, PluginsAreSequence
  <2>5. /\ GpuOps(plugins) \ GpuOps(TensorFlowsOwn) = {r.op : r \in {t \in table : t.new}}
        /\ {r.op : r \in table} \subseteq GpuOps(plugins)
    BY <2>4, TableOfPlugin, ToolsAssumption
  <2>6. RegisterAllMetalKernels(dumped'.tf, dumped'.tree) = plugins
    BY <2>3
  <2> HIDE DEF plugins, table
  <2>7. NothingNewIsMissed'
    <3>1. {r.op : r \in {t \in table : t.new}} \subseteq {r.op : r \in table}
      OBVIOUS
    <3>2. metal_ops' = {r.op : r \in table} \union NEEDS_UNEXPORTED_C_API
      BY <2>3 DEF sweepable
    <3> QED BY <2>3, <2>5, <2>6, <3>1, <3>2 DEF NothingNewIsMissed
  <2> QED BY <2>3, <2>7 DEF DumpInv
<1>7. CASE SweepLoads
  <2>1. process' # NoProcess
    BY <1>7, LoadPluginMeetsProcess DEF SweepLoads
  <2> QED BY <1>1, <1>7, <2>1 DEF SweepLoads, Loading, DumpInv
<1>8. CASE Sweeps
  BY <1>1, <1>8 DEF Sweeps, loadVars, toolVars, DumpInv
<1>9. CASE UNCHANGED vars
  BY <1>1, <1>9 DEF vars, loadVars, toolVars, DumpInv
<1> QED BY <1>2, <1>3, <1>4, <1>5, <1>6, <1>7, <1>8, <1>9
        DEF Next, DumpRefuses, SweepEnds, ToolFails

\* After any history of builds, installations and loads, a list that was made
\* by the dump misses nothing that the plugin alone registers.
THEOREM NothingNewIsMissedHolds == Spec => []NothingNewIsMissed
PROOF
<1>1. Init => LoadInv
  BY DEF Init, LoadInit, LoadInv, LoadTypeOK
<1>2. Init => DumpInv
  BY DEF Init, LoadInit, DumpInv, NothingNewIsMissed
<1>3. DumpInv => NothingNewIsMissed
  BY DEF DumpInv
<1> QED BY <1>1, <1>2, <1>3, LoadInvStep, DumpInvStep, PTL DEF Spec

=============================================================================
