------------------------------ MODULE OpSweep ------------------------------
(***************************************************************************)
(* The sweep (tools/op_sweep.py): every listed op is called on the GPU and *)
(* the CPU, or on the GPU alone and checked against a property, and gets a *)
(* verdict.  One step deals with one op, by the route main() takes for it; *)
(* ops do not depend on one another, and are taken in any order.           *)
(*                                                                         *)
(* What a device answers is open: any of the op's Answers, and a call may  *)
(* raise.  On the GPU it does raise where no kernel is registered, for     *)
(* soft placement is off.                                                  *)
(***************************************************************************)
EXTENDS OpCompare, OpRecipes, KernelTable

CONSTANTS
  Answers,     \* of an op, what its kernels may answer to its call
  Wanted,      \* of an op checked by a property, the array the check expects
  Raised,      \* a call's or a check's outcome: an exception
  NotCalled

ASSUME SweepAssumption ==
  /\ Raised # NotCalled
  /\ \A op \in DOMAIN Answers :
       /\ Answers[op] \subseteq Seq(Arrays)
       /\ {Raised, NotCalled} \intersect Answers[op] = {}
       /\ \A a, b \in Answers[op] : \A i \in DOMAIN a \intersect DOMAIN b :
            a[i].kind = b[i].kind
  /\ \A op \in DOMAIN Answers \intersect RESOURCE : \A answer \in Answers[op] :
       Len(answer) = Cardinality(ReadBack(op))

VARIABLES
  kernels,     \* TensorFlow's registry in this process
  api,         \* RESOURCE_API
  ops,         \* the ops asked for
  todo,        \* those among them main()'s loop has still to come to
  results,     \* verdicts
  rows,        \* ERRORS
  checked,     \* CHECKED_BY_PROPERTY
  calls,       \* of each op swept, what its calls answered
  exit         \* the sweep's end: its return code, or an exception

sweepVars == <<kernels, api, ops, todo, results, rows, checked, calls, exit>>

MATCH == "match"
MISMATCH == "mismatch"
GPU_ERROR == "gpu-error"
UNEXERCISED == "unexercised"
NO_RECIPE == "no-recipe"
NO_ENTRY_POINTS == "needs-unexported-api"
NOT_EAGER == "not-callable-from-eager"

SweepInit ==
  /\ kernels = <<>> /\ api = FALSE
  /\ ops = {} /\ todo = {}
  /\ results = <<>> /\ rows = <<>> /\ calls = <<>>
  /\ checked = {}
  /\ exit = "idle"

\* The function f with another value, or its first, at x.
With(f, x, y) == [z \in DOMAIN f \union {x} |-> IF z = x THEN y ELSE f[z]]

-----------------------------------------------------------------------------
(* Calls. *)

OnCPU(op) ==
  IF CannotBeCalled(op) \/ op \notin DOMAIN Answers THEN {Raised}
  ELSE Answers[op] \union {Raised}

OnGPU(op) == IF GpuKernels(kernels, op) = {} THEN {Raised} ELSE OnCPU(op)

\* A check may call another op on the GPU.
Helper == [FFTND |-> "IFFTND", IFFTND |-> "FFTND", RFFTND |-> "RFFT2D",
           IRFFTND |-> "IRFFT2D",
           _FusedBatchNormEx |-> "FusedBatchNormV3",
           _FusedBatchNormGradEx |-> "FusedBatchNormGradV3"]

OnHelper(op) ==
  IF op \in DOMAIN Helper
  THEN (IF GpuKernels(kernels, Helper[op]) = {} THEN {}
        ELSE Answers[op] \ {<<>>})
         \union {Raised}
  ELSE {NotCalled}

-----------------------------------------------------------------------------
(* Checks in place of a comparison: TRUE, FALSE, or Raised. *)

\* numpy stretches an array of one element to the length of the other one.
Stretched(a, length) ==
  IF Len(a.data) = 1 THEN [a EXCEPT !.data = [e \in 1 .. length |-> @[1]]]
  ELSE a

\* max |first - other| < bound, which raises for other lengths and where there
\* is nothing to take the maximum of.
Within(first, other, bound) ==
  LET lengths == {Len(first.data), Len(other.data)}
      length == IF lengths = {1} THEN 1 ELSE CHOOSE n \in lengths : n # 1
  IN IF 0 \in lengths \/ Cardinality(lengths \ {1}) > 1 THEN Raised
     ELSE MaxDifference(Stretched(other, length), Stretched(first, length)) < bound

AtLeast(first, bound) ==
  IF first.data = <<>> THEN Raised
  ELSE AllFinite(first) /\ \A x \in Elements(first) : x >= bound

check_last_few(op, outputs) ==
  IF outputs = <<>> THEN Raised
  ELSE LET first == outputs[1]
       IN CASE op \in {"TopK", "ApproxTopK"} -> Within(first, Wanted[op], 10)
            [] op = "TileGrad" -> Within(first, Wanted[op], 100)
            [] op = "CTCLossV2" -> AtLeast(first, 0)
            [] op = "MaxPoolGradGradWithArgmax" ->
                 AllFinite(first) /\ Len(first.data) = Len(Wanted[op].data)
            [] op = "GenerateBoundingBoxProposals" -> AtLeast(first, -1)
            [] OTHER -> AllFinite(first)

\* `other' is the helper's first output.
check_no_cpu(op, outputs, other) ==
  IF outputs = <<>> THEN Raised
  ELSE CASE op \in {"FFTND", "IFFTND"} -> Within(other, Wanted[op], 1000)
         [] op \in {"RFFTND", "IRFFTND"} -> Within(outputs[1], other, 100)
         [] OTHER -> FALSE

check_internal_without_cpu(op, outputs, other) ==
  IF outputs = <<>> THEN TRUE
  ELSE IF op \in {"_FusedBatchNormGradEx", "_FusedBatchNormEx"}
       THEN Within(outputs[1], other, 100)
  ELSE IF Len(outputs[1].data) # Len(Wanted[op].data) THEN FALSE
  ELSE Within(outputs[1], Wanted[op], 1)

\* What a random op is asked for: no array may be constant, or not finite.
FiniteAndVarying(outputs) ==
  \A i \in DOMAIN outputs :
    /\ outputs[i].kind = "float" => AllFinite(outputs[i])
    /\ Len(outputs[i].data) > 1 =>
         \E x \in Elements(outputs[i]) : x = NaN \/ x # outputs[i].data[1]

-----------------------------------------------------------------------------
(* What becomes of an op. *)

Sweeping(op) == exit = "running" /\ op \in todo

Done(op, verdict) ==
  /\ results' = With(results, op, verdict)
  /\ todo' = todo \ {op}
  /\ UNCHANGED <<kernels, api, ops, exit>>

Called(op, cpu, gpu) == calls' = With(calls, op, [cpu |-> cpu, gpu |-> gpu])

Judged(op, ok) == Done(op, IF ok THEN MATCH ELSE MISMATCH)

Compared(op, cpu, gpu) ==
  /\ Judged(op, compare(cpu, gpu, op))
  /\ rows' = Record(rows, cpu, gpu, op)
  /\ UNCHANGED checked

\* An exception nothing catches ends the sweep.
Abort ==
  /\ exit' = "aborted"
  /\ UNCHANGED <<kernels, api, ops, todo, results, rows>>

Checked(op, outcome) ==
  \/ outcome = Raised /\ Abort
  \/ outcome # Raised /\ Judged(op, outcome) /\ UNCHANGED rows

-----------------------------------------------------------------------------
(* The routes, in the order main() looks for them. *)

SweepInternal(op) ==
  /\ Sweeping(op) /\ op \in INTERNAL
  /\ \E gpu \in OnGPU(op), cpu \in OnCPU(op), other \in OnHelper(op) :
       \/ /\ gpu = Raised
          /\ Done(op, GPU_ERROR) /\ Called(op, NotCalled, <<gpu>>)
          /\ UNCHANGED <<rows, checked>>
       \/ /\ gpu # Raised /\ cpu = Raised
          /\ checked' = checked \union {op}
          /\ Called(op, cpu, <<gpu>>)
          /\ Checked(op, IF gpu # <<>> /\ other = Raised THEN Raised
                         ELSE check_internal_without_cpu(op, gpu, Head(other)))
       \/ /\ gpu # Raised /\ cpu # Raised
          /\ Compared(op, cpu, gpu) /\ Called(op, cpu, <<gpu>>)

SweepNoCpu(op) ==
  /\ Sweeping(op) /\ op \in NO_CPU \ INTERNAL
  /\ UNCHANGED checked
  /\ \E gpu \in OnGPU(op), other \in OnHelper(op) :
       /\ Called(op, NotCalled, <<gpu>>)
       /\ \/ gpu = Raised /\ Done(op, GPU_ERROR) /\ UNCHANGED rows
          \/ /\ gpu # Raised
             /\ Checked(op, IF op \in LAST_FEW THEN check_last_few(op, gpu)
                            ELSE IF other = Raised THEN Raised
                            ELSE check_no_cpu(op, gpu, Head(other)))

Tabled == INTERNAL \union NO_CPU \union (IF api THEN RESOURCE ELSE {})

\* The CPU's call is outside the try.
SweepResource(op) ==
  /\ Sweeping(op) /\ api /\ op \in RESOURCE \ (INTERNAL \union NO_CPU)
  /\ \E gpu \in OnGPU(op), cpu \in OnCPU(op) :
       \/ /\ gpu = Raised
          /\ Done(op, GPU_ERROR) /\ Called(op, NotCalled, <<gpu>>)
          /\ UNCHANGED <<rows, checked>>
       \/ /\ gpu # Raised /\ cpu = Raised
          /\ Abort /\ Called(op, cpu, <<gpu>>) /\ UNCHANGED checked
       \/ /\ gpu # Raised /\ cpu # Raised
          /\ Compared(op, cpu, gpu) /\ Called(op, cpu, <<gpu>>)

Exempt(op) == op \in NEEDS_UNEXPORTED_C_API /\ ~api

HasCall(op) == op \in DOMAIN OpDefs /\ synthesize(op)

\* No call is made: for want of the entry points, because eager cannot, or
\* because nobody wrote one.
SweepUncalled(op) ==
  /\ Sweeping(op) /\ op \notin Tabled
  /\ UNCHANGED <<calls, rows, checked>>
  /\ \/ Exempt(op) /\ Done(op, NO_ENTRY_POINTS)
     \/ /\ ~Exempt(op) /\ op \in NOT_REACHABLE_FROM_EAGER
        /\ Done(op, NOT_EAGER)
     \/ /\ ~Exempt(op) /\ op \notin NOT_REACHABLE_FROM_EAGER /\ ~HasCall(op)
        /\ Done(op, NO_RECIPE)

\* What is left has a call.
Callable(op) ==
  op \notin Tabled /\ ~Exempt(op) /\ op \notin NOT_REACHABLE_FROM_EAGER
  /\ HasCall(op)

SweepRandom(op) ==
  /\ Sweeping(op) /\ Callable(op) /\ op \in RANDOM
  /\ UNCHANGED <<rows, checked>>
  /\ \E gpu \in OnGPU(op) :
       /\ Called(op, NotCalled, <<gpu>>)
       /\ \/ gpu = Raised /\ Done(op, GPU_ERROR)
          \/ gpu # Raised /\ Judged(op, FiniteAndVarying(gpu))

\* Mutant: the GPU is asked first.
SweepGpuFirst(op) ==
  /\ Sweeping(op) /\ Callable(op) /\ op \notin RANDOM
  /\ UNCHANGED checked
  /\ \E gpu \in OnGPU(op), cpu \in OnCPU(op) :
       \/ /\ gpu = Raised
          /\ Done(op, GPU_ERROR) /\ Called(op, NotCalled, <<gpu>>)
          /\ UNCHANGED rows
       \/ /\ gpu # Raised /\ cpu = Raised
          /\ Done(op, UNEXERCISED) /\ Called(op, cpu, <<gpu>>)
          /\ UNCHANGED rows
       \/ /\ gpu # Raised /\ cpu # Raised /\ Called(op, cpu, <<gpu>>)
          /\ Judged(op, compare(cpu, gpu, op))
          /\ rows' = Record(rows, cpu, gpu, op)

\* The CPU, the GPU, and the GPU again, which must answer the same.
SweepCompared(op) ==
  /\ Sweeping(op) /\ Callable(op) /\ op \notin RANDOM
  /\ \E cpu \in OnCPU(op), gpu, again \in OnGPU(op) :
       \/ /\ cpu = Raised
          /\ Done(op, UNEXERCISED) /\ Called(op, cpu, <<>>)
          /\ UNCHANGED <<rows, checked>>
       \/ /\ cpu # Raised /\ Raised \in {gpu, again}
          /\ Done(op, GPU_ERROR)
          /\ Called(op, cpu, IF gpu = Raised THEN <<gpu>> ELSE <<gpu, again>>)
          /\ UNCHANGED <<rows, checked>>
       \/ /\ Raised \notin {cpu, gpu, again}
          /\ Called(op, cpu, <<gpu, again>>)
          /\ IF compare(gpu, again, op) THEN Compared(op, cpu, gpu)
             ELSE Done(op, MISMATCH) /\ UNCHANGED <<rows, checked>>

-----------------------------------------------------------------------------
(* Before the loop and after it. *)

\* `registry' is what TensorFlow holds once the plugin is loaded, `exported'
\* what resource_variable_api_available() said.
SweepBegin(registry, exported, asked) ==
  /\ exit = "idle"
  /\ kernels' = registry /\ api' = exported
  /\ ops' = asked /\ todo' = asked
  /\ exit' = "running"
  /\ UNCHANGED <<results, rows, checked, calls>>

\* The process is gone, and all it had in memory.
SweepGone ==
  /\ kernels' = <<>> /\ api' = FALSE /\ ops' = {} /\ todo' = {}
  /\ results' = <<>> /\ rows' = <<>> /\ calls' = <<>> /\ checked' = {}
  /\ exit' = "idle"

AttrsOf == [op \in DOMAIN OpDefs |-> OpDefs[op].attrs]

\* What the return code depends on.
Failed ==
  \/ \E op \in DOMAIN results : results[op] \in {MISMATCH, GPU_ERROR}
  \/ duplicate_registrations(kernels, ops) # {}
  \/ invalid_constraints(kernels, ops, AttrsOf) # {}

SweepReport ==
  /\ exit = "running" /\ todo = {}
  /\ exit' = IF Failed THEN "failed" ELSE "passed"
  /\ UNCHANGED <<kernels, api, ops, todo, results, rows, checked, calls>>

SweepStep ==
  \/ \E op \in todo :
       \/ SweepInternal(op) \/ SweepNoCpu(op) \/ SweepResource(op)
       \/ SweepUncalled(op) \/ SweepRandom(op) \/ SweepCompared(op)
  \/ SweepReport

\* The rows of the printed table and of the report.
error_table ==
  {op \in DOMAIN rows : op \in DOMAIN results
                        /\ results[op] \in {MATCH, MISMATCH}}

Rowless ==
  {op \in DOMAIN results : results[op] \in {MATCH, MISMATCH}
                           /\ op \notin DOMAIN rows}

\* "passed without measuring anything", and the report's remark on the ops
\* without a row.
unmeasured == Rowless \ (NO_CPU \union RANDOM \union checked)

-----------------------------------------------------------------------------
(* Properties. *)

\* Three times the tolerance: an answer is compared with one that was
\* compared with the CPU's.
Near(x, y) == Gap(x, y) <= 3 * (1000 + Magnitude(x) \div 1000)

\* What the GPU answered, held against what the CPU did. Of an array with one
\* element that is not finite no more than the length is looked at.
Agree(cpu, gpu, op) ==
  /\ Len(gpu) = Len(cpu)
  /\ \A i \in DOMAIN cpu \ OPAQUE_OUTPUTS(op) :
       /\ Len(gpu[i].data) = Len(cpu[i].data)
       /\ cpu[i].kind = "exact" => gpu[i] = cpu[i]
       /\ cpu[i].kind = "float" /\ AllFinite(cpu[i]) =>
            \A e \in DOMAIN cpu[i].data :
              /\ IsFinite(gpu[i].data[e])
              /\ Near(cpu[i].data[e], gpu[i].data[e])

\* A match says that every answer of the GPU, the second as well, has as many
\* arrays as the CPU's and, leaving the scratch outputs aside, of the same
\* lengths; that the exact ones are equal; and that one which is finite all
\* over on the CPU is so on the GPU, and near it. It says no more: an array in
\* which the CPU has a NaN or an infinity anywhere is passed over, with the
\* numbers beside it (compare(), and the second call in main()).
MatchMeansAgreement ==
  \A op \in DOMAIN calls \intersect DOMAIN results :
    results[op] = MATCH /\ calls[op].cpu \notin {Raised, NotCalled} =>
      \A g \in DOMAIN calls[op].gpu : Agree(calls[op].cpu, calls[op].gpu[g], op)

\* An op with a CPU kernel to compare with is held against the plugin only
\* where the CPU took the very call: a bad recipe is not a bug of a kernel
\* (the order of the calls in main()).
OnlyKernelsBlamed ==
  \A op \in DOMAIN results :
    results[op] \in {MISMATCH, GPU_ERROR} /\ Callable(op) /\ op \notin RANDOM =>
      calls[op].cpu \notin {Raised, NotCalled}

\* The row of an op tells the verdict on it: neither the comparison of the two
\* GPU answers nor the last output alone makes it (compare()'s `record').
RowsTellTheVerdict ==
  \A op \in DOMAIN rows : rows[op].ok <=> results[op] = MATCH

\* What passes has a row or was checked against a property; what the sweep
\* prints as passed without measuring anything are ops that failed, for their
\* outputs cannot be compared.
PassesAreRowed == \A op \in unmeasured : results[op] # MATCH

\* So the report accounts for the verdicts: whatever passes is backed by its own
\* row or by a check, and no row speaks against the verdict on its op.
RowsAccountForVerdicts == RowsTellTheVerdict /\ PassesAreRowed

\* Return code 0: every op asked for has a verdict, none a bad one, and of
\* none, called or not, do two GPU kernels have the same key, in the sense of
\* duplicate_registrations(), or constrain an attribute it has not.
PassedMeansClean ==
  exit = "passed" =>
    /\ DOMAIN results = ops
    /\ \A op \in ops : results[op] \notin {MISMATCH, GPU_ERROR}
    /\ \A op \in ops : \A j, k \in GpuKernels(kernels, op) :
         /\ j # k => Signature(kernels[j]) # Signature(kernels[k])
         /\ op \in DOMAIN OpDefs =>
              Constrained(kernels[j]) \subseteq OpDefs[op].attrs

=============================================================================
