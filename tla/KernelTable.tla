---------------------------- MODULE KernelTable ----------------------------
(***************************************************************************)
(* TensorFlow's kernel registry as the tools see it: the table of what the *)
(* plugin adds (tools/dump_kernels.py) and the two checks on registrations *)
(* the sweep begins with (tools/op_sweep.py).  A registry is a sequence of *)
(* kernels                                                                 *)
(*   [op, device, host : the arguments in host memory,                     *)
(*    constraint : a sequence of [name, allowed : a sequence of types]].   *)
(***************************************************************************)
EXTENDS Integers, Sequences, FiniteSets, SequencesExt

OnGpu(registry) == {k \in DOMAIN registry : registry[k].device = "GPU"}

GpuKernels(registry, op) == {k \in OnGpu(registry) : registry[k].op = op}

GpuOps(registry) == {registry[k].op : k \in OnGpu(registry)}

-----------------------------------------------------------------------------
(* dump_kernels.py *)

\* The types of the last constraint on T or on dtype; no other is kept.
Dtypes(kernel) ==
  LET ofType == SelectSeq(kernel.constraint,
                          LAMBDA c : c.name \in {"T", "dtype"})
  IN IF ofType = <<>> THEN {} ELSE ToSet(Last(ofType).allowed)

\* Mutant: whatever the device.
snapshotOfAll(registry) ==
  {[op |-> registry[k].op, dtypes |-> Dtypes(registry[k]),
    host |-> registry[k].host] : k \in DOMAIN registry}

\* Every GPU registration, as a set: equal ones are one.
snapshot(registry) ==
  {[op |-> registry[k].op, dtypes |-> Dtypes(registry[k]),
    host |-> registry[k].host] : k \in OnGpu(registry)}

Added(before, after) == after \ before

\* The rows of kernels.md.
Rows(before, after) ==
  LET added == Added(before, after)
      Of(op) == {r \in added : r.op = op}
  IN {[op |-> op,
       dtypes |-> UNION {r.dtypes : r \in Of(op)},
       host |-> UNION {r.host : r \in Of(op)},
       new |-> \A r \in before : r.op # op] : op \in {r.op : r \in added}}

-----------------------------------------------------------------------------
(* op_sweep.py *)

\* The key the check counts: the constraints in any order, each with its types
\* as they are listed, and the host arguments.  TensorFlow's own idea of a tie
\* is another: it looks at labels and priorities and at types that overlap, and
\* not at host arguments.
Signature(kernel) ==
  [constraint |->
     [c \in ToSet(kernel.constraint) |->
        Cardinality({j \in DOMAIN kernel.constraint :
                       kernel.constraint[j] = c})],
   host |-> kernel.host]

Extra(registry, op) ==
  LET ks == GpuKernels(registry, op)
  IN Cardinality(ks) - Cardinality({Signature(registry[k]) : k \in ks})

\* Mutant: one too many is not counted.
duplicatesOfThree(registry, ops) ==
  {op \in ops : Extra(registry, op) > 1}

\* Ops two of whose kernels have the same key.
duplicate_registrations(registry, ops) ==
  {op \in ops : Extra(registry, op) > 0}

Constrained(kernel) == {c.name : c \in ToSet(kernel.constraint)}

\* Ops constrained on an attribute they have not. Unknown ops are passed over.
invalid_constraints(registry, ops, attrs) ==
  {op \in ops \intersect DOMAIN attrs :
     \E k \in GpuKernels(registry, op) :
       ~ (Constrained(registry[k]) \subseteq attrs[op])}

=============================================================================
