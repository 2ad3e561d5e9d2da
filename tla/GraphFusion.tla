---------------------------- MODULE GraphFusion ----------------------------
(***************************************************************************)
(* The graph optimizer (FuseGraph in metal_graph.mm): a pass over the      *)
(* nodes of a GraphDef that folds a bias, and an activation after it, into *)
(* the convolution or matrix product before them.                          *)
(*                                                                         *)
(* A node is named by its place in the file, which its inputs refer to.    *)
(* The pass reads every node's inputs as they were at the start; what it   *)
(* changes is which nodes are dropped and which fused ones are added.      *)
(***************************************************************************)
EXTENDS Naturals, Sequences, FiniteSets

CONSTANTS Graphs  \* the graphs the pass is given

\* An input names a node of the file, or that the node has to have run.
\* `typed` is what can be made of a node's T attribute.  `attr` stands for the
\* attributes a value depends on besides: the slope of a LeakyRelu, the layout
\* of the data a convolution or a bias works on; "default" where not written.
Input(size) == [producer : 1..size, control : BOOLEAN]
Node(size) == [op : STRING, inputs : Seq(Input(size)), gpu : BOOLEAN,
               typed : {"absent", "unreadable", "type"}, attr : STRING]

ASSUME GraphsAssumption == \A g \in Graphs : g \in Seq(Node(Len(g)))

VARIABLES nodes,       \* the graph as it was parsed
          dropped,     \* nodes folded into another
          additions,   \* fused nodes
          bias_index   \* the node the loop is at

vars == <<nodes, dropped, additions, bias_index>>

-----------------------------------------------------------------------------
(***************************************************************************)
(* Nodes                                                                   *)
(***************************************************************************)

Bases == {"Conv2D", "MatMul"}
IsFusableActivation(op) ==
  op \in {"Relu", "Relu6", "Elu", "LeakyRelu", "Sigmoid", "Tanh"}

Indices == 1..Len(nodes)
IsControl(input) == input.control
IsData(input) == ~input.control

Places(n) == 1..Len(nodes[n].inputs)

\* Mutant: control dependencies are not counted.
DataUses(n) ==
  {u \in UNION {{i} \X Places(i) : i \in Indices} :
     nodes[u[1]].inputs[u[2]] = [producer |-> n, control |-> FALSE]}

\* Every place a node is named as an input, control dependencies included.
Uses(n) ==
  {u \in UNION {{i} \X Places(i) : i \in Indices} :
     nodes[u[1]].inputs[u[2]].producer = n}

UsedOnce(n) == \E u \in Uses(n) : Uses(n) = {u}

-----------------------------------------------------------------------------
(***************************************************************************)
(* The pass                                                                *)
(***************************************************************************)

Init ==
  /\ nodes \in Graphs
  /\ dropped = {}
  /\ additions = {}
  /\ bias_index = 1

Base(bias) == nodes[bias].inputs[1].producer

\* The conditions under which the loop does not `continue`.
Foldable(bias) ==
  LET base == nodes[Base(bias)] IN
  /\ nodes[bias].op = "BiasAdd"
  /\ bias \notin dropped
  /\ Len(nodes[bias].inputs) = 2
  /\ IsData(nodes[bias].inputs[1])
  /\ Base(bias) \in Indices \ dropped
  /\ base.op \in Bases
  /\ UsedOnce(Base(bias))
  /\ base.gpu /\ nodes[bias].gpu
  /\ base.typed # "absent"
  /\ base.op = "Conv2D" => base.typed = "type"

\* The activations that read the bias's value and nothing else.
Candidates(bias) ==
  {i \in Indices \ dropped :
     /\ IsFusableActivation(nodes[i].op)
     /\ Len(nodes[i].inputs) = 1
     /\ nodes[i].inputs[1].producer = bias
     /\ IsData(nodes[i].inputs[1])}

First(S) == CHOOSE i \in S : \A j \in S : i <= j

\* The one to fold, as a set of at most one: the first in the file, if the
\* bias feeds nothing else and the activation is on this device.
Activation(bias) ==
  IF UsedOnce(bias) /\ Candidates(bias) # {} /\ nodes[First(Candidates(bias))].gpu
    THEN {First(Candidates(bias))} ELSE {}

\* The name the rest of the graph refers to: the last node folded.
Keep(bias, activation) == IF activation = {} THEN bias ELSE First(activation)

\* The control dependencies of the folded nodes.  A bias has been seen to have
\* two inputs, the first of them data, and an activation one data input, so
\* only the bias's second can be one.
Controls(bias) ==
  IF IsControl(nodes[bias].inputs[2]) THEN <<nodes[bias].inputs[2]>> ELSE << >>

\* Mutant: the bias's value goes before the base's inputs.
FusedBiasFirst(bias, activation) ==
  [name |-> Keep(bias, activation),
   base |-> nodes[Base(bias)].op,
   inputs |-> <<nodes[bias].inputs[2]>> \o nodes[Base(bias)].inputs \o Controls(bias),
   fused_ops |-> IF activation = {} THEN <<"BiasAdd">>
                   ELSE <<"BiasAdd", nodes[First(activation)].op>>,
   attr |-> nodes[Base(bias)].attr]

\* Mutant: only two inputs of the base are kept.
FusedDataOnly(bias, activation) ==
  [name |-> Keep(bias, activation),
   base |-> nodes[Base(bias)].op,
   inputs |-> SubSeq(nodes[Base(bias)].inputs, 1, 2) \o <<nodes[bias].inputs[2]>>,
   fused_ops |-> IF activation = {} THEN <<"BiasAdd">>
                   ELSE <<"BiasAdd", nodes[First(activation)].op>>,
   attr |-> nodes[Base(bias)].attr]

\* A copy of the base, its inputs and attributes, with the bias's value pushed
\* behind all of the base's inputs, whatever they are.  Of the folded nodes
\* only the operations are kept: no layout, no slope.
FusedNode(bias, activation) ==
  [name |-> Keep(bias, activation),
   base |-> nodes[Base(bias)].op,
   inputs |-> nodes[Base(bias)].inputs \o <<nodes[bias].inputs[2]>>
                \o Controls(bias),
   fused_ops |-> IF activation = {} THEN <<"BiasAdd">>
                   ELSE <<"BiasAdd", nodes[First(activation)].op>>,
   attr |-> nodes[Base(bias)].attr]

\* One turn of the loop that folds.
Fold ==
  LET activation == Activation(bias_index) IN
  /\ bias_index \in Indices
  /\ Foldable(bias_index)
  /\ additions' = additions \cup {FusedNode(bias_index, activation)}
  /\ dropped' = dropped \cup {Base(bias_index), bias_index} \cup activation
  /\ bias_index' = bias_index + 1
  /\ UNCHANGED nodes

\* One that does not.
Continue ==
  /\ bias_index \in Indices
  /\ ~Foldable(bias_index)
  /\ bias_index' = bias_index + 1
  /\ UNCHANGED <<nodes, dropped, additions>>

Next == Fold \/ Continue

Spec == Init /\ [][Next]_vars

-----------------------------------------------------------------------------
(***************************************************************************)
(* Properties                                                              *)
(***************************************************************************)

Live == Indices \ dropped
Names == Live \cup {a.name : a \in additions}

\* The graph as it would be written now has no dangling reference, and no two
\* nodes of one name: whoever read a folded value, or depended on its node
\* having run, still names a node that exists.
NamesResolve ==
  /\ \A i \in Live : \A p \in 1..Len(nodes[i].inputs) :
       nodes[i].inputs[p].producer \in Names
  /\ \A a \in additions : \A p \in 1..Len(a.inputs) : a.inputs[p].producer \in Names
  /\ \A a \in additions : a.name \notin Live
  /\ \A a, b \in additions : a.name = b.name => a = b

\* What a node computes, as a term over the nodes that have no inputs or are
\* of no kind the pass knows.  A producer comes before its consumers.
Apply(op, attr, args) == [op |-> op, attr |-> attr, args |-> args]
Knows(op) == op \in Bases \cup {"BiasAdd"} \/ IsFusableActivation(op)

DataPlaces(inputs) == {p \in 1..Len(inputs) : IsData(inputs[p])}
Values(inputs, value) == [p \in DataPlaces(inputs) |-> value[inputs[p].producer]]

\* The layout of a matrix product's bias makes no difference: a matrix has one
\* dimension besides the batch.
Attribute(n) ==
  IF nodes[n].op = "BiasAdd" /\ nodes[Base(n)].op = "MatMul" THEN "default"
                                                             ELSE nodes[n].attr

NodeValue(n, value) ==
  IF Knows(nodes[n].op)
    THEN Apply(nodes[n].op, Attribute(n), Values(nodes[n].inputs, value))
    ELSE [op |-> "node", of |-> n, args |-> Values(nodes[n].inputs, value)]

\* TensorFlow takes no node that waits for something before it reads a value.
InOrder(inputs) ==
  \A p, q \in 1..Len(inputs) : p < q /\ IsData(inputs[q]) => IsData(inputs[p])

\* The fused kernel reads inputs one to three, lays the bias out as it does the
\* rest, and knows no slope but its own.
FusedValue(a, value) ==
  LET v(k) == value[a.inputs[k].producer]
      base == Apply(a.base, a.attr, <<v(1), v(2)>>)
      bias == Apply("BiasAdd", a.attr, <<base, v(3)>>)
  IN CASE ~InOrder(a.inputs)   -> [op |-> "rejected", args |-> << >>]
       [] Len(a.fused_ops) = 1 -> bias
       [] OTHER                -> Apply(a.fused_ops[2], "default", <<bias>>)

\* The value of one name where some nodes are fused, from those before it.
ValueAt(n, fused, earlier) ==
  LET Named == {a \in fused : a.name = n}
  IN IF Named # {} THEN FusedValue(CHOOSE a \in Named : TRUE, earlier)
                   ELSE NodeValue(n, earlier)

Computed(fused) ==
  LET value[n \in Indices] == ValueAt(n, fused, [m \in 1..(n - 1) |-> value[m]])
  IN value

Before == Computed({})
After == Computed(additions)

\* The graph computes what it did: every node that is left has its old value.
\* What the comments promise of the fused operations, and the pass does not
\* keep: see ChangesComeFromLosses.
FusionPreservesValues == \A n \in Names : After[n] = Before[n]

\* The nodes folded into one: its bias, and the base and the activation.
BiasOf(a) == IF nodes[a.name].op = "BiasAdd" THEN a.name
                                             ELSE nodes[a.name].inputs[1].producer
FoldedInto(a) == {Base(BiasOf(a)), BiasOf(a), a.name}

\* A fold carries everything over when the base waits for nothing (the bias's
\* value would stand behind), the bias has the base's layout, and the
\* activation no slope of its own.
LosesNothing(a) ==
  LET bias == BiasOf(a)
      base == Base(bias)
  IN /\ \A p \in Places(base) : IsData(nodes[base].inputs[p])
     /\ nodes[base].op = "Conv2D" => nodes[bias].attr = nodes[base].attr
     /\ a.name # bias => nodes[a.name].attr = "default"

\* What the rewritten graph reads at a name.
InputsNow(n) ==
  IF n \in Live THEN nodes[n].inputs ELSE (CHOOSE a \in additions : a.name = n).inputs

\* A value that is not what it was is that of a fold that lost something, or
\* is computed from one that is not: nothing else changes what the graph
\* computes.
ChangesComeFromLosses ==
  \A n \in Names :
    \/ After[n] = Before[n]
    \/ \E a \in additions : a.name = n /\ ~LosesNothing(a)
    \/ \E p \in DataPlaces(InputsNow(n)) :
         LET m == InputsNow(n)[p].producer IN m < n /\ After[m] # Before[m]

Orders(inputs) == {inputs[p].producer : p \in {q \in 1..Len(inputs) : IsControl(inputs[q])}}

\* A node that had to wait for another still does: what a folded node waited
\* for, the very node it was folded into waits for, and every node that is
\* waited for is still there.
ControlDepsSurvive ==
  /\ \A i \in Live : Orders(nodes[i].inputs) \subseteq Names
  /\ \A d \in dropped : \E a \in additions : d \in FoldedInto(a)
  /\ \A a \in additions : /\ Orders(a.inputs) \subseteq Names
                          /\ \A d \in FoldedInto(a) :
                               Orders(nodes[d].inputs) \subseteq Orders(a.inputs)

-----------------------------------------------------------------------------
(***************************************************************************)
(* Inductive invariant                                                     *)
(***************************************************************************)

\* Where a folded value is read by the node folded after it.
InnerUse(u) == u[2] = 1 /\ (nodes[u[1]].op = "BiasAdd" \/ IsFusableActivation(nodes[u[1]].op))

\* Why references resolve: a folded node that did not leave its name to the
\* fused one is read in one place only, by a node that was folded as well; and
\* the inputs of a fused node were read in other places than such.
FusionInv ==
  /\ nodes \in Seq(Node(Len(nodes)))
  /\ dropped \subseteq Indices
  /\ \A d \in dropped :
       \/ \E a \in additions : a.name = d
       \/ \E u \in dropped \X {1} : Uses(d) = {u} /\ InnerUse(u)
  /\ \A a \in additions :
       /\ a.name \in dropped
       /\ \A p \in 1..Len(a.inputs) : \E u \in Uses(a.inputs[p].producer) : ~InnerUse(u)
  /\ \A a, b \in additions : a.name = b.name => a = b

\* What a fused node was made of.
Folded(bias, activation) ==
  /\ nodes[bias].op = "BiasAdd"
  /\ Len(nodes[bias].inputs) = 2
  /\ IsData(nodes[bias].inputs[1])
  /\ Base(bias) \in Indices
  /\ nodes[Base(bias)].op \in Bases
  /\ \A i \in activation :
       /\ IsFusableActivation(nodes[i].op)
       /\ Len(nodes[i].inputs) = 1
       /\ IsData(nodes[i].inputs[1])
       /\ nodes[i].inputs[1].producer = bias

\* Every fused node is one the pass builds.
BuiltByPass ==
  \A a \in additions : \E bias \in Indices :
    \E activation \in {{}} \cup {{i} : i \in Indices} :
      Folded(bias, activation) /\ a = FusedNode(bias, activation)

\* What was folded is part of a fused node.
EachDropIsFolded == \A d \in dropped : \E a \in additions : d \in FoldedInto(a)

FoldsInv == BuiltByPass /\ EachDropIsFolded

\* A graph TensorFlow has placed and sorted: a value is read from a node before
\* the reader, a base and a bias read two values and then wait, and a product
\* has none of the attributes in question.
WellFormed(g) ==
  \A n \in 1..Len(g) :
    /\ \A p \in DataPlaces(g[n].inputs) : g[n].inputs[p].producer < n
    /\ g[n].op \in Bases \cup {"BiasAdd"} => DataPlaces(g[n].inputs) = {1, 2}
    /\ g[n].op = "MatMul" => g[n].attr = "default"

=============================================================================
