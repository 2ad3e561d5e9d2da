----------------------------- MODULE OpCompare -----------------------------
(***************************************************************************)
(* How the sweep compares what two devices answered, and the row of error  *)
(* figures it keeps of that (tools/op_sweep.py).  An answer is a sequence  *)
(* of arrays; an array has a kind, "float" (complex ones included) or      *)
(* "exact", and elements in units of 1e-6, so that the absolute tolerance  *)
(* is 1000 units and RELATIVE_FLOOR one.  Arrays are flat: their shape is  *)
(* their length.  The relative error of a row is a ratio and left out.     *)
(***************************************************************************)
EXTENDS Integers, Sequences, FiniteSets, FiniteSetsExt

Inf == 1000000000
NaN == Inf + 1

Arrays == [kind : {"float", "exact"}, data : Seq(Int)]

IsFinite(x) == -Inf < x /\ x < Inf

Elements(a) == {a.data[e] : e \in DOMAIN a.data}

AllFinite(a) == \A x \in Elements(a) : IsFinite(x)

\* |x - y|
Gap(x, y) ==
  IF NaN \in {x, y} \/ (x = y /\ ~IsFinite(x)) THEN NaN
  ELSE IF IsFinite(x) /\ IsFinite(y) THEN IF x > y THEN x - y ELSE y - x
  ELSE Inf

Magnitude(x) == IF x < 0 THEN -x ELSE x

Close(x, y) == IsFinite(y) /\ Gap(x, y) <= 1000 + Magnitude(y) \div 1000

\* The greatest difference of two arrays, NaN if there is one among them.
MaxDifference(a, b) ==
  LET gaps == {Gap(a.data[e], b.data[e]) : e \in DOMAIN a.data}
  IN IF NaN \in gaps THEN NaN ELSE Max(gaps \union {0})

\* Outputs 3 and 4, counted from zero, of a fused batch norm are scratch.
OPAQUE_OUTPUTS(op) ==
  IF op \in {"FusedBatchNorm", "FusedBatchNormV2", "FusedBatchNormV3",
             "_FusedBatchNormEx"}
  THEN {4, 5} ELSE {}

Examined(cpu, op) == DOMAIN cpu \ OPAQUE_OUTPUTS(op)

\* Otherwise the comparison ends there: "different output counts", "shape".
Comparable(cpu, gpu, op) ==
  /\ Len(cpu) = Len(gpu)
  /\ \A i \in Examined(cpu, op) : Len(cpu[i].data) = Len(gpu[i].data)

\* The outputs whose difference is measured: not those the CPU has no number
\* for.
Measured(cpu, op) ==
  {i \in Examined(cpu, op) : cpu[i].kind = "float" /\ AllFinite(cpu[i])}

\* Mutant: what is not finite of the second answer is passed over, too.
DiffersUnlessNaN(a, b) ==
  IF a.kind = "float"
  THEN AllFinite(a) /\ AllFinite(b)
       /\ \E e \in DOMAIN a.data : ~Close(a.data[e], b.data[e])
  ELSE a.data # b.data

Differs(a, b) ==
  IF a.kind = "float"
  THEN AllFinite(a) /\ \E e \in DOMAIN a.data : ~Close(a.data[e], b.data[e])
  ELSE a.data # b.data

Failing(cpu, gpu, op) == \E i \in Examined(cpu, op) : Differs(cpu[i], gpu[i])

compare(cpu, gpu, op) == Comparable(cpu, gpu, op) /\ ~Failing(cpu, gpu, op)

\* Mutant: the verdict of the row is that of the last output.
RowOfLast(cpu, gpu, op) ==
  [max_abs |-> 0, elements |-> 0, below_relative_floor |-> 0,
   ok |-> cpu = <<>> \/ ~Differs(cpu[Len(cpu)], gpu[Len(gpu)])]

\* max() of a number and a NaN that comes second is the number: an output
\* with a NaN adds nothing to the maximum.
Row(cpu, gpu, op) ==
  LET measured == Measured(cpu, op)
      places == UNION {{<<i, e>> : e \in DOMAIN cpu[i].data} : i \in measured}
  IN [max_abs |-> Max({0} \union ({MaxDifference(cpu[i], gpu[i]) : i \in measured}
                                  \ {NaN})),
      elements |-> Cardinality(places),
      below_relative_floor |->
        Cardinality({p \in places : Magnitude(cpu[p[1]].data[p[2]]) < 1}),
      ok |-> ~Failing(cpu, gpu, op)]

\* What ERRORS becomes; nothing is kept of answers that cannot be compared.
Record(rows, cpu, gpu, op) ==
  IF Comparable(cpu, gpu, op)
  THEN [o \in DOMAIN rows \union {op} |->
          IF o = op THEN Row(cpu, gpu, op) ELSE rows[o]]
  ELSE rows

=============================================================================
