------------------------- MODULE GraphFusionProofs -------------------------
(***************************************************************************)
(* The rewritten graph has no dangling reference and waits for what it     *)
(* waited for, whatever the graph; and what it computes changes only where *)
(* a fold lost something.                                                  *)
(***************************************************************************)
EXTENDS GraphFusion, FiniteSetTheorems, WellFoundedInduction, TLAPS

\* A parsed node reads nodes of the file.
LEMMA NodeShape ==
  ASSUME nodes \in Seq(Node(Len(nodes))), NEW i \in Indices
  PROVE  /\ nodes[i].inputs \in Seq(Input(Len(nodes)))
         /\ \A p \in Places(i) : nodes[i].inputs[p].producer \in Indices
<1>1. nodes[i] \in Node(Len(nodes)) BY DEF Indices
<1>2. nodes[i].inputs \in Seq(Input(Len(nodes))) BY <1>1 DEF Node
<1>3. \A p \in Places(i) : nodes[i].inputs[p] \in Input(Len(nodes))
  BY <1>2 DEF Places
<1> QED BY <1>2, <1>3 DEF Input, Indices

\* A use is a place of a node that names the node used.
LEMMA UseIsPlace ==
  ASSUME NEW n
  PROVE  /\ \A i \in Indices : \A p \in Places(i) :
              nodes[i].inputs[p].producer = n => <<i, p>> \in Uses(n)
         /\ \A u \in Uses(n) : /\ u[1] \in Indices
                               /\ u[2] \in Places(u[1])
                               /\ nodes[u[1]].inputs[u[2]].producer = n
<1>1. \A u \in Uses(n) : \E i \in Indices : u \in {i} \X Places(i) BY DEF Uses
<1>2. \A i \in Indices : \A p \in Places(i) :
        <<i, p>> \in UNION {{j} \X Places(j) : j \in Indices}
  OBVIOUS
<1>3. \A u \in Uses(n) : nodes[u[1]].inputs[u[2]].producer = n BY DEF Uses
<1>4. \A i \in Indices : \A p \in Places(i) :
        nodes[i].inputs[p].producer = n => <<i, p>> \in Uses(n)
  BY <1>2 DEF Uses
<1> QED BY <1>1, <1>3, <1>4

\* The search for the first finds one.
LEMMA FirstIsOne ==
  ASSUME NEW S, S \subseteq Nat, S # {}
  PROVE  First(S) \in S
<1>1. PICK x \in S : \A y \in S : ~(<<y, x>> \in OpToRel(<, Nat))
  BY NatLessThanWellFounded, WFMin
<1>2. \A y \in S : ~(y < x) BY <1>1 DEF OpToRel
<1>3. \A y \in S : x <= y BY <1>2
<1> QED BY <1>3 DEF First

\* The activation folded, where there is one, is the only reader of the bias.
LEMMA ActivationShape ==
  ASSUME nodes \in Seq(Node(Len(nodes))), NEW bias \in Indices, Activation(bias) # {}
  PROVE  /\ Activation(bias) = {First(Candidates(bias))}
         /\ First(Activation(bias)) = First(Candidates(bias))
         /\ First(Candidates(bias)) \in Candidates(bias)
         /\ Uses(bias) = {<<First(Candidates(bias)), 1>>}
<1> DEFINE C == Candidates(bias)
<1>1. Activation(bias) = {First(C)} /\ UsedOnce(bias) /\ C # {}
  BY DEF Activation
<1>2. C \subseteq Nat BY DEF Candidates, Indices
<1>3. First(C) \in C BY <1>1, <1>2, FirstIsOne
<1>4. First(C) \in Nat BY <1>2, <1>3
<1>5. First({First(C)}) = First(C) BY <1>4 DEF First
<1>6. <<First(C), 1>> \in Uses(bias)
  <2>1. /\ First(C) \in Indices
        /\ 1 \in Places(First(C))
        /\ nodes[First(C)].inputs[1].producer = bias
    <3>1. /\ First(C) \in Indices
          /\ Len(nodes[First(C)].inputs) = 1
          /\ nodes[First(C)].inputs[1].producer = bias
      BY <1>3 DEF Candidates
    <3> HIDE DEF C
    <3> QED BY <3>1 DEF Places
  <2> QED BY <2>1, UseIsPlace
<1>7. Uses(bias) = {<<First(C), 1>>} BY <1>1, <1>6 DEF UsedOnce
<1> QED BY <1>1, <1>3, <1>5, <1>7

\* A base that is folded is read by its bias and by nothing else.
LEMMA BaseShape ==
  ASSUME nodes \in Seq(Node(Len(nodes))), NEW bias \in Indices, Foldable(bias)
  PROVE  /\ Base(bias) \in Indices
         /\ Uses(Base(bias)) = {<<bias, 1>>}
<1>1. /\ Base(bias) \in Indices /\ UsedOnce(Base(bias))
      /\ Len(nodes[bias].inputs) = 2
  BY DEF Foldable
<1>2. <<bias, 1>> \in Uses(Base(bias))
  <2>1. 1 \in Places(bias) BY <1>1 DEF Places
  <2> QED BY <2>1, UseIsPlace DEF Base
<1> QED BY <1>1, <1>2 DEF UsedOnce

\* What a fused node reads was read before, by no node folded for it.
LEMMA FusedInputs ==
  ASSUME nodes \in Seq(Node(Len(nodes))), NEW bias \in Indices, Foldable(bias),
         NEW activation,
         NEW p \in 1..Len(FusedNode(bias, activation).inputs)
  PROVE  LET n == FusedNode(bias, activation).inputs[p].producer
         IN  \E u \in Uses(n) : ~InnerUse(u)
<1> DEFINE base == nodes[Base(bias)]
           last == nodes[bias].inputs[2]
           whole == base.inputs \o <<last>> \o Controls(bias)
<1>1. /\ Base(bias) \in Indices /\ base.op \in Bases
      /\ Len(nodes[bias].inputs) = 2
  BY DEF Foldable
<1>2. base.inputs \in Seq(Input(Len(nodes))) /\ last \in Input(Len(nodes))
  BY <1>1, NodeShape
<1>3. Controls(bias) = << >> \/ Controls(bias) = <<last>> BY DEF Controls
<1>4. FusedNode(bias, activation).inputs = whole BY DEF FusedNode
<1>5. CASE p \in Places(Base(bias))
  <2>1. whole[p] = base.inputs[p] BY <1>2, <1>3, <1>5 DEF Places
  <2>2. <<Base(bias), p>> \in Uses(whole[p].producer)
    BY <1>1, <1>5, <2>1, UseIsPlace
  <2>3. ~InnerUse(<<Base(bias), p>>)
    BY <1>1 DEF InnerUse, Bases, IsFusableActivation
  <2> QED BY <1>4, <2>2, <2>3
<1>6. CASE p \notin Places(Base(bias))
  <2>1. whole[p] = last
    <3> DEFINE ins == base.inputs
               size == Len(ins)
    <3>1. p \in 1..Len(whole) BY <1>4
    <3>2. p \in Nat /\ ~(p <= size) /\ size \in Nat /\ ins \in Seq(Input(Len(nodes)))
      BY <1>2, <1>6, <3>1 DEF Places
    <3>3. CASE Controls(bias) = << >>
      <4> HIDE DEF ins, last
      <4>1. whole = ins \o <<last>> \o << >> BY <3>3 DEF ins
      <4> HIDE DEF whole
      <4> QED BY <1>2, <3>1, <3>2, <4>1
    <3>4. CASE Controls(bias) = <<last>>
      <4> HIDE DEF ins, last
      <4>1. whole = ins \o <<last>> \o <<last>> BY <3>4 DEF ins
      <4> HIDE DEF whole
      <4> QED BY <1>2, <3>1, <3>2, <4>1
    <3> QED BY <1>3, <3>3, <3>4
  <2>2. 2 \in Places(bias) BY <1>1 DEF Places
  <2>3. <<bias, 2>> \in Uses(last.producer) BY <2>2, UseIsPlace
  <2>4. ~InnerUse(<<bias, 2>>) BY DEF InnerUse
  <2> QED BY <1>4, <2>1, <2>3, <2>4
<1> QED BY <1>5, <1>6

-----------------------------------------------------------------------------

\* The pass starts with nothing folded.
LEMMA FusionInit == Init => FusionInv
BY GraphsAssumption DEF Init, FusionInv

\* A turn of the loop keeps the invariant.
LEMMA FusionStep == FusionInv /\ [Next]_vars => FusionInv'
<1> SUFFICES ASSUME FusionInv, [Next]_vars PROVE FusionInv' OBVIOUS
<1> nodes \in Seq(Node(Len(nodes))) /\ nodes' = nodes BY DEF FusionInv, Next, Fold, Continue, vars
<1>0. /\ Indices' = Indices
      /\ \A n : Uses(n)' = Uses(n)
      /\ \A u : InnerUse(u)' = InnerUse(u)
  BY DEF Indices, Uses, Places, InnerUse
<1>1. CASE Fold
  <2> DEFINE bias == bias_index
             act == Activation(bias)
             new == FusedNode(bias, act)
  <2>1. bias \in Indices /\ Foldable(bias) /\ bias \notin dropped BY <1>1 DEF Fold, Foldable
  <2>2. additions' = additions \cup {new} BY <1>1 DEF Fold
  <2>3. dropped' = dropped \cup {Base(bias), bias} \cup act BY <1>1 DEF Fold
  <2>4. Base(bias) \in Indices /\ Uses(Base(bias)) = {<<bias, 1>>}
    BY <2>1, BaseShape
  <2>5. InnerUse(<<bias, 1>>) BY <2>1 DEF Foldable, InnerUse
  <2>6. new.name = Keep(bias, act) BY DEF FusedNode
  <2>7. \/ act = {} /\ new.name = bias
        \/ \E a \in Candidates(bias) :
             act = {a} /\ new.name = a /\ Uses(bias) = {<<a, 1>>}
    <3>1. CASE act = {} BY <3>1, <2>6 DEF Keep
    <3>2. CASE act # {}
      <4>1. /\ act = {First(Candidates(bias))}
            /\ First(act) = First(Candidates(bias))
            /\ First(Candidates(bias)) \in Candidates(bias)
            /\ Uses(bias) = {<<First(Candidates(bias)), 1>>}
        BY <2>1, <3>2, ActivationShape
      <4>2. new.name = First(act) BY <2>6, <3>2 DEF Keep
      <4> QED BY <4>1, <4>2
    <3> QED BY <3>1, <3>2
  <2>8. \A a \in Candidates(bias) : /\ a \in Indices \ dropped
                                    /\ InnerUse(<<a, 1>>)
    BY DEF Candidates, InnerUse
  <2>9. new.name \in Indices \ dropped /\ new.name \in dropped'
    BY <2>1, <2>3, <2>7, <2>8
  <2>10. dropped' \subseteq Indices
    BY <2>1, <2>3, <2>4, <2>7, <2>8 DEF FusionInv
  <2>11. ASSUME NEW d \in dropped'
         PROVE  \/ \E a \in additions' : a.name = d
                \/ \E u \in dropped' \X {1} : Uses(d) = {u} /\ InnerUse(u)
    <3>1. CASE d \in dropped
      <4>1. CASE \E a \in additions : a.name = d BY <4>1, <2>2
      <4>2. CASE \E u \in dropped \X {1} : Uses(d) = {u} /\ InnerUse(u)
        BY <4>2, <2>3
      <4> QED BY <3>1, <4>1, <4>2 DEF FusionInv
    <3>2. CASE d = Base(bias)
      <4>1. <<bias, 1>> \in dropped' \X {1} BY <2>3
      <4> QED BY <3>2, <4>1, <2>4, <2>5
    <3>3. CASE d = new.name BY <3>3, <2>2
    <3>4. CASE d = bias /\ d # new.name
      <4>1. PICK a \in Candidates(bias) : act = {a} /\ Uses(bias) = {<<a, 1>>}
        BY <2>7, <3>4
      <4>2. <<a, 1>> \in dropped' \X {1} BY <4>1, <2>3
      <4> QED BY <3>4, <4>1, <4>2, <2>8
    <3>5. CASE d \in act BY <3>5, <3>3, <2>7
    <3> QED BY <2>3, <3>1, <3>2, <3>3, <3>4, <3>5
  <2>12. ASSUME NEW a \in additions'
         PROVE  /\ a.name \in dropped'
                /\ \A p \in 1..Len(a.inputs) :
                     \E u \in Uses(a.inputs[p].producer) : ~InnerUse(u)
    <3>1. CASE a \in additions BY <3>1, <2>3 DEF FusionInv
    <3>2. CASE a = new BY <3>2, <2>1, <2>9, FusedInputs
    <3> QED BY <2>2, <3>1, <3>2
  <2>13. ASSUME NEW a \in additions', NEW b \in additions', a.name = b.name
         PROVE  a = b
    <3>1. \A c \in additions : c.name \in dropped BY DEF FusionInv
    <3> QED BY <2>2, <2>9, <2>13, <3>1 DEF FusionInv
  <2> QED BY <1>0, <2>10, <2>11, <2>12, <2>13 DEF FusionInv
<1>2. CASE Continue BY <1>0, <1>2 DEF FusionInv, Continue
<1>3. CASE UNCHANGED vars BY <1>0, <1>3 DEF FusionInv, vars
<1> QED BY <1>1, <1>2, <1>3 DEF Next

\* Every folded node that is still named somewhere has left its name to the
\* fused node.
LEMMA FusionInvNames == FusionInv => NamesResolve
<1> SUFFICES ASSUME FusionInv PROVE NamesResolve OBVIOUS
<1> nodes \in Seq(Node(Len(nodes))) BY DEF FusionInv
<1>1. ASSUME NEW n \in Indices,
             \E u \in Uses(n) : u[1] \notin dropped \/ ~InnerUse(u)
      PROVE  n \in Names
  <2>1. CASE n \notin dropped BY <2>1 DEF Names, Live
  <2>2. CASE n \in dropped
    <3>1. ~ \E u \in dropped \X {1} : Uses(n) = {u} /\ InnerUse(u) BY <1>1
    <3>2. \E a \in additions : a.name = n BY <2>2, <3>1 DEF FusionInv
    <3> QED BY <3>2 DEF Names
  <2> QED BY <2>1, <2>2
<1>2. \A i \in Live : \A p \in 1..Len(nodes[i].inputs) :
        nodes[i].inputs[p].producer \in Names
  <2> SUFFICES ASSUME NEW i \in Live, NEW p \in Places(i)
               PROVE  nodes[i].inputs[p].producer \in Names
    BY DEF Places
  <2>1. i \in Indices /\ i \notin dropped BY DEF Live
  <2>2. nodes[i].inputs[p].producer \in Indices BY <2>1, NodeShape
  <2>3. <<i, p>> \in Uses(nodes[i].inputs[p].producer) BY <2>1, UseIsPlace
  <2> QED BY <1>1, <2>1, <2>2, <2>3
<1>3. \A a \in additions : \A p \in 1..Len(a.inputs) :
        a.inputs[p].producer \in Names
  <2> SUFFICES ASSUME NEW a \in additions, NEW p \in 1..Len(a.inputs)
               PROVE  a.inputs[p].producer \in Names
    OBVIOUS
  <2>1. PICK u \in Uses(a.inputs[p].producer) : ~InnerUse(u) BY DEF FusionInv
  <2>2. a.inputs[p].producer \in Indices BY SMTT(30), <2>1, UseIsPlace, NodeShape
  <2> QED BY <1>1, <2>1, <2>2
<1>4. \A a \in additions : a.name \notin Live BY DEF FusionInv, Live
<1>5. \A a, b \in additions : a.name = b.name => a = b BY DEF FusionInv
<1> QED BY <1>2, <1>3, <1>4, <1>5 DEF NamesResolve

\* The invariant holds of every graph the pass can have got to.
THEOREM FusionInvariant == Spec => []FusionInv
<1>1. Init => FusionInv BY FusionInit
<1>2. FusionInv /\ [Next]_vars => FusionInv' BY FusionStep
<1> QED BY <1>1, <1>2, PTL DEF Spec

\* For every graph whose inputs name its own nodes, whatever the pass folds,
\* each name that is still referred to belongs to exactly one node.
THEOREM FusionNamesResolve == Spec => []NamesResolve
<1>1. FusionInv => NamesResolve BY FusionInvNames
<1> QED BY <1>1, FusionInvariant, PTL

-----------------------------------------------------------------------------
(***************************************************************************)
(* What is folded                                                          *)
(***************************************************************************)

\* What the loop folds is of the shape the invariant names.
LEMMA FoldableIsFolded ==
  ASSUME nodes \in Seq(Node(Len(nodes))), NEW bias \in Indices, Foldable(bias)
  PROVE  /\ Folded(bias, Activation(bias))
         /\ Activation(bias) \in {{}} \cup {{i} : i \in Indices}
<1>1. /\ nodes[bias].op = "BiasAdd" /\ Len(nodes[bias].inputs) = 2
      /\ IsData(nodes[bias].inputs[1])
      /\ Base(bias) \in Indices /\ nodes[Base(bias)].op \in Bases
  BY DEF Foldable
<1>2. CASE Activation(bias) = {}
  BY <1>1, <1>2 DEF Folded
<1>3. CASE Activation(bias) # {}
  <2>1. PICK i \in Candidates(bias) : Activation(bias) = {i}
    BY <1>3, ActivationShape
  <2>2. /\ i \in Indices /\ IsFusableActivation(nodes[i].op)
        /\ Len(nodes[i].inputs) = 1 /\ IsData(nodes[i].inputs[1])
        /\ nodes[i].inputs[1].producer = bias
    BY DEF Candidates
  <2> QED BY <1>1, <2>1, <2>2 DEF Folded
<1> QED BY <1>2, <1>3

\* The fused node reads what the base read, at the same places, then the
\* bias's second input; a third thing only if that one is a control dependency.
LEMMA FusedPlaces ==
  ASSUME nodes \in Seq(Node(Len(nodes))), NEW bias \in Indices,
         Len(nodes[bias].inputs) = 2, Base(bias) \in Indices,
         NEW activation, NEW base, base = nodes[Base(bias)].inputs,
         NEW ins, ins = FusedNode(bias, activation).inputs
  PROVE  /\ Len(base) \in Nat
         /\ \A p \in 1..Len(base) : p \in 1..Len(ins) /\ ins[p] = base[p]
         /\ Len(base) + 1 \in 1..Len(ins)
         /\ ins[Len(base) + 1] = nodes[bias].inputs[2]
         /\ IsData(nodes[bias].inputs[2]) => Len(ins) = Len(base) + 1
<1>1. PICK last : last = nodes[bias].inputs[2]
  OBVIOUS
<1>2. base \in Seq(Input(Len(nodes))) /\ last \in Input(Len(nodes))
  <2>1. 2 \in 1..Len(nodes[bias].inputs)
    OBVIOUS
  <2> QED BY <1>1, <2>1, NodeShape
<1>3. CASE IsControl(last)
  <2>1. ins = base \o <<last>> \o <<last>>
    BY <1>1, <1>3 DEF FusedNode, Controls
  <2> QED BY <1>1, <1>2, <1>3, <2>1 DEF IsData, IsControl
<1>4. CASE ~IsControl(last)
  <2>1. ins = base \o <<last>> \o << >>
    BY <1>1, <1>4 DEF FusedNode, Controls
  <2> QED BY <1>1, <1>2, <2>1
<1> QED BY <1>3, <1>4

\* What was folded can be told from the name the fused node has.
LEMMA FusedOrigin ==
  ASSUME nodes \in Seq(Node(Len(nodes))), NEW bias \in Indices,
         NEW activation \in {{}} \cup {{i} : i \in Indices},
         Folded(bias, activation), NEW a, a = FusedNode(bias, activation)
  PROVE  BiasOf(a) = bias /\ FoldedInto(a) = {Base(bias), bias} \cup activation
<1>1. a.name = Keep(bias, activation) /\ nodes[bias].op = "BiasAdd"
  BY DEF FusedNode, Folded
<1>2. CASE activation = {}
  <2>1. a.name = bias
    BY <1>1, <1>2 DEF Keep
  <2> QED BY <1>1, <1>2, <2>1 DEF BiasOf, FoldedInto
<1>3. CASE activation # {}
  <2>1. PICK i \in Indices : activation = {i}
    BY <1>3
  <2>2. First(activation) = i
    BY <2>1 DEF First, Indices
  <2>3. a.name = i
    BY <1>1, <1>3, <2>2 DEF Keep
  <2>4. IsFusableActivation(nodes[i].op) /\ nodes[i].inputs[1].producer = bias
    BY <2>1 DEF Folded
  <2>5. nodes[i].op # "BiasAdd"
    BY <2>4 DEF IsFusableActivation
  <2>6. BiasOf(a) = bias
    BY <2>3, <2>4, <2>5 DEF BiasOf
  <2> QED BY <2>1, <2>3, <2>6 DEF FoldedInto
<1> QED BY <1>2, <1>3

\* A folded node's control dependencies are inputs of the node it is folded
\* into.
LEMMA FoldKeepsControls ==
  ASSUME nodes \in Seq(Node(Len(nodes))), NEW bias \in Indices,
         NEW activation, Folded(bias, activation),
         NEW d \in {Base(bias), bias} \cup activation,
         NEW p \in Places(d), IsControl(nodes[d].inputs[p]),
         NEW ins, ins = FusedNode(bias, activation).inputs
  PROVE  \E q \in 1..Len(ins) : ins[q] = nodes[d].inputs[p]
<1>2. /\ Len(nodes[bias].inputs) = 2 /\ IsData(nodes[bias].inputs[1])
      /\ Base(bias) \in Indices
  BY DEF Folded
<1>3. PICK base : base = nodes[Base(bias)].inputs
  OBVIOUS
<1>4. /\ \A r \in 1..Len(base) : r \in 1..Len(ins) /\ ins[r] = base[r]
      /\ Len(base) + 1 \in 1..Len(ins)
      /\ ins[Len(base) + 1] = nodes[bias].inputs[2]
  BY SMTT(30), <1>2, <1>3, FusedPlaces
<1>5. CASE d = Base(bias)
  BY <1>3, <1>4, <1>5 DEF Places
<1>6. CASE d = bias
  <2>1. p = 2
    BY <1>2, <1>6 DEF Places, IsData, IsControl
  <2> QED BY <1>4, <1>6, <2>1
<1>7. CASE d \in activation
  <2>1. Len(nodes[d].inputs) = 1 /\ IsData(nodes[d].inputs[1])
    BY <1>7 DEF Folded
  <2> QED BY <2>1 DEF Places, IsData, IsControl
<1> QED BY <1>5, <1>6, <1>7

LEMMA FoldsInit == Init => FoldsInv
BY DEF Init, FoldsInv, BuiltByPass, EachDropIsFolded

\* The parsed nodes do not change, nor what is built from the same of them.
LEMMA SameNodes ==
  ASSUME UNCHANGED nodes, NEW bias, NEW activation
  PROVE  /\ Folded(bias, activation) => Folded(bias, activation)'
         /\ FusedNode(bias, activation)' = FusedNode(bias, activation)
<1>1. Folded(bias, activation) => Folded(bias, activation)'
  BY DEF Folded, Base, Indices
<1>2. FusedNode(bias, activation)' = FusedNode(bias, activation)
  BY DEF FusedNode, Base, Keep, Controls
<1> QED BY <1>1, <1>2

LEMMA BuiltStays ==
  ASSUME UNCHANGED nodes,
         \A a \in additions' : \E bias \in Indices :
           \E activation \in {{}} \cup {{i} : i \in Indices} :
             Folded(bias, activation) /\ a = FusedNode(bias, activation)
  PROVE  BuiltByPass'
<1>1. ASSUME NEW a \in additions'
      PROVE  \E bias \in Indices' :
               \E activation \in {{}} \cup {{i} : i \in Indices'} :
                 Folded(bias, activation)' /\ a = FusedNode(bias, activation)'
  <2>1. Indices' = Indices
    BY DEF Indices
  <2>2. PICK bias \in Indices, activation \in {{}} \cup {{i} : i \in Indices} :
          Folded(bias, activation) /\ a = FusedNode(bias, activation)
    OBVIOUS
  <2>3. Folded(bias, activation)' /\ a = FusedNode(bias, activation)'
    BY <2>2, SameNodes
  <2> QED BY <2>1, <2>3
<1> QED BY <1>1 DEF BuiltByPass

\* A turn of the loop builds one fused node, of this shape, and drops no wait.
LEMMA FoldsStep == FusionInv /\ FoldsInv /\ [Next]_vars => FoldsInv'
<1> SUFFICES ASSUME FusionInv, FoldsInv, [Next]_vars PROVE FoldsInv' OBVIOUS
<1>0. nodes \in Seq(Node(Len(nodes))) /\ nodes' = nodes
  BY DEF FusionInv, Next, Fold, Continue, vars
<1>1. CASE Fold
  <2>1. PICK new : new = FusedNode(bias_index, Activation(bias_index))
    OBVIOUS
  <2>2. /\ bias_index \in Indices /\ Foldable(bias_index)
        /\ additions' = additions \cup {new}
        /\ dropped' = dropped \cup {Base(bias_index), bias_index}
                        \cup Activation(bias_index)
    BY <1>1, <2>1 DEF Fold
  <2>3. ASSUME NEW a \in additions'
        PROVE  \E bias \in Indices :
                 \E activation \in {{}} \cup {{i} : i \in Indices} :
                   Folded(bias, activation) /\ a = FusedNode(bias, activation)
    <3>1. CASE a \in additions
      BY <3>1 DEF FoldsInv, BuiltByPass
    <3>2. CASE a = new
      BY <1>0, <2>1, <2>2, <3>2, FoldableIsFolded
    <3> QED BY <2>2, <3>1, <3>2
  <2>4. BuiltByPass'
    BY <1>0, <2>3, BuiltStays
  <2>5. ASSUME NEW d \in dropped'
        PROVE  \E a \in additions' : d \in FoldedInto(a)
    <3>1. CASE d \in dropped
      BY <2>2, <3>1 DEF FoldsInv, EachDropIsFolded
    <3>2. CASE d \in {Base(bias_index), bias_index} \cup Activation(bias_index)
      <4>1. FoldedInto(new) = {Base(bias_index), bias_index} \cup Activation(bias_index)
        BY <1>0, <2>1, <2>2, FoldableIsFolded, FusedOrigin
      <4> QED BY <2>2, <3>2, <4>1
    <3> QED BY <2>2, <3>1, <3>2
  <2>6. EachDropIsFolded'
    <3>1. \A a : FoldedInto(a)' = FoldedInto(a)
      BY <1>0 DEF FoldedInto, BiasOf, Base
    <3> QED BY <2>5, <3>1 DEF EachDropIsFolded
  <2> QED BY <2>4, <2>6 DEF FoldsInv
<1>2. CASE Continue \/ UNCHANGED vars
  <2>1. UNCHANGED <<nodes, additions, dropped>>
    BY <1>2 DEF Continue, vars
  <2>2. BuiltByPass'
    BY <2>1, BuiltStays DEF FoldsInv, BuiltByPass
  <2>3. EachDropIsFolded'
    BY <2>1 DEF FoldsInv, EachDropIsFolded, FoldedInto, BiasOf, Base
  <2> QED BY <2>2, <2>3 DEF FoldsInv
<1> QED BY <1>1, <1>2 DEF Next

\* The fused nodes are those the pass builds, after any number of turns.
THEOREM FoldsInvariant == Spec => [](FusionInv /\ FoldsInv)
<1>1. Init => FusionInv /\ FoldsInv
  BY FusionInit, FoldsInit
<1>2. FusionInv /\ FoldsInv /\ [Next]_vars => (FusionInv /\ FoldsInv)'
  BY FusionStep, FoldsStep
<1> QED BY <1>1, <1>2, PTL DEF Spec

\* Whatever the graph, a node that had to run before another is still there,
\* and what waited for it still does, or the very node that one was folded
\* into.
THEOREM ControlDepsSurviveHolds == Spec => []ControlDepsSurvive
<1>1. ASSUME FusionInv, FoldsInv
      PROVE  ControlDepsSurvive
  <2>1. NamesResolve /\ nodes \in Seq(Node(Len(nodes)))
    BY <1>1, FusionInvNames DEF FusionInv
  <2>2. \A i \in Live : Orders(nodes[i].inputs) \subseteq Names
    BY <2>1 DEF NamesResolve, Orders
  <2>3. \A a \in additions : Orders(a.inputs) \subseteq Names
    BY <2>1 DEF NamesResolve, Orders
  <2>4. ASSUME NEW a \in additions, NEW d \in FoldedInto(a),
               NEW c \in Orders(nodes[d].inputs)
        PROVE  c \in Orders(a.inputs)
    <3>1. PICK bias \in Indices, activation \in {{}} \cup {{i} : i \in Indices} :
            Folded(bias, activation) /\ a = FusedNode(bias, activation)
      BY <1>1 DEF FoldsInv, BuiltByPass
    <3>2. d \in {Base(bias), bias} \cup activation
      BY <2>1, <2>4, <3>1, FusedOrigin
    <3>3. PICK p \in Places(d) : IsControl(nodes[d].inputs[p])
                                 /\ c = nodes[d].inputs[p].producer
      BY <2>4 DEF Orders, Places
    <3>4. PICK q \in 1..Len(a.inputs) : a.inputs[q] = nodes[d].inputs[p]
      BY <2>1, <3>1, <3>2, <3>3, FoldKeepsControls
    <3> QED BY <3>3, <3>4 DEF Orders
  <2>5. \A d \in dropped : \E a \in additions : d \in FoldedInto(a)
    BY <1>1 DEF FoldsInv, EachDropIsFolded
  <2> QED BY <2>2, <2>3, <2>4, <2>5 DEF ControlDepsSurvive
<1> QED BY <1>1, FoldsInvariant, PTL

-----------------------------------------------------------------------------
(***************************************************************************)
(* What the graph computes                                                 *)
(***************************************************************************)

\* The value of every name is well defined: it is what ValueAt makes of the
\* values of the names before it.
LEMMA ComputedEquation ==
  ASSUME Len(nodes) \in Nat, NEW fused, NEW v, v = Computed(fused)
  PROVE  \A n \in Indices : v[n] = ValueAt(n, fused, [m \in 1..(n - 1) |-> v[m]])
<1> DEFINE Solves(k, f) ==
             f = [n \in 1..k |-> ValueAt(n, fused, [m \in 1..(n - 1) |-> f[m]])]
           Open == {k \in Nat : ~ \E f : Solves(k, f)}
<1>1. Open = {}
  <2> SUFFICES ASSUME Open # {} PROVE FALSE
    OBVIOUS
  <2>1. PICK k \in Open : \A j \in Open : ~(<<j, k>> \in OpToRel(<, Nat))
    <3>1. Open \subseteq Nat
      OBVIOUS
    <3> HIDE DEF Open
    <3> QED BY <3>1, NatLessThanWellFounded, WFMin
  <2>2. k \in Nat /\ ~ \E f : Solves(k, f)
    OBVIOUS
  <2>3. \A j \in Nat : j < k => \E f : Solves(j, f)
    BY <2>1, <2>2 DEF OpToRel
  <2> HIDE DEF Open
  <2>4. CASE k = 0
    <3>1. PICK f : f = [n \in 1..0 |-> ValueAt(n, fused, << >>)]
      OBVIOUS
    <3>2. Solves(0, f)
      BY <3>1
    <3> QED BY <2>2, <2>4, <3>2
  <2>5. CASE k # 0
    <3>1. k - 1 \in Nat /\ k - 1 < k /\ 1..(k - 1) \subseteq 1..k
          /\ \A n \in 1..k : n \in 1..(k - 1) \/ n = k
      BY <2>2, <2>5
    <3>2. PICK f : Solves(k - 1, f)
      BY <2>3, <3>1
    <3>3. PICK g : g = [n \in 1..k |-> IF n = k THEN ValueAt(k, fused, f) ELSE f[n]]
      OBVIOUS
    <3>4. \A n \in 1..(k - 1) : g[n] = f[n]
      BY <2>2, <3>1, <3>3
    <3>5. \A n \in 1..k : [m \in 1..(n - 1) |-> g[m]] = [m \in 1..(n - 1) |-> f[m]]
      <4> SUFFICES ASSUME NEW n \in 1..k
                   PROVE  [m \in 1..(n - 1) |-> g[m]] = [m \in 1..(n - 1) |-> f[m]]
        OBVIOUS
      <4>1. \A m \in 1..(n - 1) : m \in 1..(k - 1)
        BY <2>2
      <4> QED BY <3>4, <4>1
    <3>6. [m \in 1..(k - 1) |-> f[m]] = f
      BY <3>2
    <3>7. \A n \in 1..k : g[n] = ValueAt(n, fused, [m \in 1..(n - 1) |-> g[m]])
      <4> SUFFICES ASSUME NEW n \in 1..k
                   PROVE  g[n] = ValueAt(n, fused, [m \in 1..(n - 1) |-> f[m]])
        BY <3>5
      <4>1. CASE n = k
        BY <3>3, <3>6, <4>1
      <4>2. CASE n \in 1..(k - 1)
        BY <3>2, <3>4, <4>2
      <4> QED BY <3>1, <4>1, <4>2
    <3>8. Solves(k, g)
      BY <3>3, <3>7
    <3> QED BY <2>2, <3>8
  <2> QED BY <2>4, <2>5
<1>2. \E f : Solves(Len(nodes), f)
  BY <1>1
<1>3. Solves(Len(nodes), v)
  BY <1>2 DEF Computed, Indices
<1> QED BY <1>3 DEF Indices

\* The values of a node that reads two, or one.
LEMMA PairOfValues ==
  ASSUME NEW inputs, NEW value, DataPlaces(inputs) = {1, 2}
  PROVE  Values(inputs, value) = <<value[inputs[1].producer], value[inputs[2].producer]>>
BY DEF Values

LEMMA OneValue ==
  ASSUME NEW inputs, NEW value, DataPlaces(inputs) = {1}
  PROVE  Values(inputs, value) = <<value[inputs[1].producer]>>
BY DEF Values

\* Inputs that are the two values of `base` and then the second of `rest`.
ReadsThree(ins, base, rest) ==
  /\ DataPlaces(base) = {1, 2} /\ DataPlaces(rest) = {1, 2}
  /\ DataPlaces(ins) = {1, 2, 3} /\ InOrder(ins)
  /\ ins[1] = base[1] /\ ins[2] = base[2] /\ ins[3] = rest[2]

\* Where the base waits for nothing, the fused node reads the base's two
\* values and then the bias's, and nothing else.
LEMMA FusedArguments ==
  ASSUME nodes \in Seq(Node(Len(nodes))), WellFormed(nodes),
         NEW bias \in Indices, NEW activation, Folded(bias, activation),
         \A p \in Places(Base(bias)) : IsData(nodes[Base(bias)].inputs[p]),
         NEW base, base = nodes[Base(bias)].inputs,
         NEW ins, ins = FusedNode(bias, activation).inputs
  PROVE  ReadsThree(ins, base, nodes[bias].inputs)
<1>1. /\ nodes[bias].op = "BiasAdd" /\ Len(nodes[bias].inputs) = 2
      /\ Base(bias) \in Indices /\ nodes[Base(bias)].op \in Bases
  BY DEF Folded
<1>2. DataPlaces(base) = {1, 2} /\ DataPlaces(nodes[bias].inputs) = {1, 2}
  BY <1>1 DEF WellFormed, Indices
<1>3. IsData(nodes[bias].inputs[2])
  BY <1>2 DEF DataPlaces
<1>4. PICK size : size = Len(base)
  OBVIOUS
<1>5. /\ size \in Nat
      /\ \A p \in 1..size : p \in 1..Len(ins) /\ ins[p] = base[p]
      /\ size + 1 \in 1..Len(ins) /\ Len(ins) = size + 1
      /\ ins[size + 1] = nodes[bias].inputs[2]
  BY <1>1, <1>3, <1>4, FusedPlaces
<1>6. size = 2
  <2>1. 1..size = {1, 2}
    BY <1>2, <1>4 DEF DataPlaces, Places
  <2>2. 2 \in 1..size /\ 3 \notin 1..size
    BY <2>1
  <2> QED BY <1>5, <2>2
<1>7. /\ ins[1] = base[1] /\ ins[2] = base[2] /\ ins[3] = nodes[bias].inputs[2]
      /\ 1..Len(ins) = {1, 2, 3}
  BY <1>5, <1>6
<1>8. IsData(base[1]) /\ IsData(base[2])
  BY <1>2 DEF DataPlaces
<1>9. \A p \in 1..Len(ins) : IsData(ins[p])
  BY <1>3, <1>7, <1>8
<1>10. DataPlaces(ins) = {1, 2, 3} /\ InOrder(ins)
  BY <1>7, <1>9 DEF DataPlaces, InOrder
<1> QED BY <1>2, <1>7, <1>10 DEF ReadsThree

\* A fused node whose fold lost nothing computes what the nodes folded into it
\* did, from the values of the names it reads.
LEMMA FusedComputes ==
  ASSUME FusionInv, WellFormed(nodes),
         NEW bias \in Indices,
         NEW activation \in {{}} \cup {{i} : i \in Indices},
         Folded(bias, activation),
         NEW a, a = FusedNode(bias, activation), a.name \in Indices, LosesNothing(a),
         NEW before,
         \A n \in Indices : before[n] = NodeValue(n, [m \in 1..(n - 1) |-> before[m]]),
         NEW after,
         \A p \in DataPlaces(a.inputs) : a.inputs[p].producer < a.name =>
           after[a.inputs[p].producer] = before[a.inputs[p].producer]
  PROVE  FusedValue(a, [m \in 1..(a.name - 1) |-> after[m]]) = before[a.name]
<1> DEFINE Earlier(n, f) == [m \in 1..(n - 1) |-> f[m]]
<1>0. nodes \in Seq(Node(Len(nodes))) /\ Indices \subseteq Nat
  BY DEF FusionInv, Indices
<1>1. PICK base, ins : base = nodes[Base(bias)].inputs /\ ins = a.inputs
  OBVIOUS
<1>2. /\ nodes[bias].op = "BiasAdd" /\ Len(nodes[bias].inputs) = 2
      /\ Base(bias) \in Indices /\ nodes[Base(bias)].op \in Bases
      /\ Base(bias) = nodes[bias].inputs[1].producer
  BY DEF Folded, Base
<1>19. /\ \A p \in Places(Base(bias)) : IsData(nodes[Base(bias)].inputs[p])
       /\ nodes[Base(bias)].op = "Conv2D" => nodes[bias].attr = nodes[Base(bias)].attr
       /\ a.name # bias => nodes[a.name].attr = "default"
  <2>1. BiasOf(a) = bias
    BY <1>0, FusedOrigin
  <2> QED BY <2>1 DEF LosesNothing
<1>3. /\ DataPlaces(base) = {1, 2} /\ DataPlaces(nodes[bias].inputs) = {1, 2}
      /\ DataPlaces(ins) = {1, 2, 3} /\ InOrder(ins)
      /\ ins[1] = base[1] /\ ins[2] = base[2] /\ ins[3] = nodes[bias].inputs[2]
  <2>1. \A p \in Places(Base(bias)) : IsData(nodes[Base(bias)].inputs[p])
    BY <1>19
  <2>2. ins = FusedNode(bias, activation).inputs
    BY <1>1
  <2>3. ReadsThree(ins, base, nodes[bias].inputs)
    BY <1>0, <1>1, <2>1, <2>2, FusedArguments
  <2> QED BY <2>3 DEF ReadsThree
<1>4. PICK x, y, z : /\ x = base[1].producer /\ y = base[2].producer
                     /\ z = nodes[bias].inputs[2].producer
  OBVIOUS
<1>5. /\ x \in Indices /\ y \in Indices /\ z \in Indices
      /\ x < Base(bias) /\ y < Base(bias) /\ Base(bias) < bias /\ z < bias
  <2>1. /\ 1 \in Places(Base(bias)) /\ 2 \in Places(Base(bias)) /\ 2 \in Places(bias)
    BY <1>1, <1>2, <1>3 DEF DataPlaces, Places
  <2>2. x \in Indices /\ y \in Indices /\ z \in Indices
    BY <1>0, <1>1, <1>2, <1>4, <2>1, NodeShape
  <2>3. x < Base(bias) /\ y < Base(bias)
    BY <1>1, <1>2, <1>3, <1>4 DEF WellFormed, Indices
  <2>4. Base(bias) < bias /\ z < bias
    <3>1. \A p \in DataPlaces(nodes[bias].inputs) : nodes[bias].inputs[p].producer < bias
      BY DEF WellFormed, Indices
    <3> QED BY <1>2, <1>3, <1>4, <3>1
  <2> QED BY <2>2, <2>3, <2>4
<1>6. /\ a.base = nodes[Base(bias)].op /\ a.attr = nodes[Base(bias)].attr
      /\ a.name = Keep(bias, activation)
      /\ a.fused_ops = IF activation = {} THEN <<"BiasAdd">>
                         ELSE <<"BiasAdd", nodes[First(activation)].op>>
  BY DEF FusedNode
<1>20. Attribute(Base(bias)) = a.attr /\ Attribute(bias) = a.attr
  <2>1. nodes[Base(bias)].op # "BiasAdd"
    BY <1>2 DEF Bases
  <2>2. nodes[Base(bias)].op = "MatMul" => a.attr = "default"
    BY <1>2, <1>6 DEF WellFormed, Indices
  <2>3. Attribute(bias) = a.attr
    BY <1>2, <1>6, <1>19, <2>2 DEF Attribute, Bases
  <2> QED BY <1>6, <2>1, <2>3 DEF Attribute
<1>7. PICK product : product = Apply(a.base, a.attr, <<before[x], before[y]>>)
  OBVIOUS
<1>8. before[Base(bias)] = product
  <2> PICK read : read = Earlier(Base(bias), before)
    OBVIOUS
  <2>2. before[Base(bias)] = Apply(a.base, a.attr, Values(base, read))
    BY <1>1, <1>2, <1>6, <1>20 DEF NodeValue, Knows
  <2>3. read[x] = before[x] /\ read[y] = before[y]
    BY <1>0, <1>2, <1>5 DEF Indices
  <2> HIDE DEF Earlier
  <2>4. Values(base, read) = <<before[x], before[y]>>
    BY <1>3, <1>4, <2>3, PairOfValues
  <2> QED BY <1>7, <2>2, <2>4
<1>9. PICK sum : sum = Apply("BiasAdd", a.attr, <<product, before[z]>>)
  OBVIOUS
<1>10. before[bias] = sum
  <2> PICK read : read = Earlier(bias, before)
    OBVIOUS
  <2>2. before[bias] = Apply("BiasAdd", a.attr, Values(nodes[bias].inputs, read))
    BY <1>2, <1>20 DEF NodeValue, Knows
  <2>3. read[Base(bias)] = product /\ read[z] = before[z]
    BY <1>0, <1>2, <1>5, <1>8 DEF Indices
  <2> HIDE DEF Earlier
  <2>4. Values(nodes[bias].inputs, read) = <<product, before[z]>>
    BY <1>2, <1>3, <1>4, <2>3, PairOfValues
  <2> QED BY <1>9, <2>2, <2>4
<1>11. \/ activation = {} /\ a.name = bias
       \/ \E i \in Indices : /\ activation = {i} /\ a.name = i /\ First(activation) = i
                             /\ nodes[i].inputs[1].producer = bias
                             /\ DataPlaces(nodes[i].inputs) = {1}
                             /\ IsFusableActivation(nodes[i].op) /\ bias < i
  <2>1. CASE activation = {}
    BY <1>6, <2>1 DEF Keep
  <2>2. CASE activation # {}
    <3>1. PICK i \in Indices : activation = {i}
      BY <2>2
    <3>2. First(activation) = i
      BY <1>0, <3>1 DEF First
    <3>3. a.name = i
      BY <1>6, <2>2, <3>2 DEF Keep
    <3>4. /\ IsFusableActivation(nodes[i].op) /\ Len(nodes[i].inputs) = 1
          /\ IsData(nodes[i].inputs[1]) /\ nodes[i].inputs[1].producer = bias
      BY <3>1 DEF Folded
    <3>5. DataPlaces(nodes[i].inputs) = {1}
      BY <3>4 DEF DataPlaces
    <3>6. bias < i
      BY <3>4, <3>5 DEF WellFormed, Indices
    <3> QED BY <3>1, <3>2, <3>3, <3>4, <3>5, <3>6
  <2> QED BY <2>1, <2>2
<1>12. x < a.name /\ y < a.name /\ z < a.name /\ bias <= a.name /\ a.name \in Nat
  BY <1>0, <1>2, <1>5, <1>11
<1>13. after[x] = before[x] /\ after[y] = before[y] /\ after[z] = before[z]
  BY <1>1, <1>3, <1>4, <1>12
<1>14. PICK given : given = Earlier(a.name, after)
  OBVIOUS
<1>15. given[x] = before[x] /\ given[y] = before[y] /\ given[z] = before[z]
  BY <1>0, <1>5, <1>12, <1>13, <1>14 DEF Indices
<1>16. FusedValue(a, given) =
         IF Len(a.fused_ops) = 1 THEN sum
                                 ELSE Apply(a.fused_ops[2], "default", <<sum>>)
  BY <1>1, <1>3, <1>4, <1>7, <1>9, <1>15 DEF FusedValue
<1>17. CASE activation = {} /\ a.name = bias
  BY <1>6, <1>10, <1>14, <1>16, <1>17
<1>18. ASSUME NEW i \in Indices, activation = {i}, a.name = i, First(activation) = i,
              nodes[i].inputs[1].producer = bias, DataPlaces(nodes[i].inputs) = {1},
              IsFusableActivation(nodes[i].op), bias < i
       PROVE  FusedValue(a, given) = before[i]
  <2>1. FusedValue(a, given) = Apply(nodes[i].op, "default", <<sum>>)
    BY <1>6, <1>16, <1>18
  <2>2. Attribute(i) = "default"
    <3>1. nodes[i].op # "BiasAdd"
      BY <1>18 DEF IsFusableActivation
    <3>2. a.name # bias
      BY <1>0, <1>18
    <3> QED BY <1>18, <1>19, <3>1, <3>2 DEF Attribute
  <2> PICK read : read = Earlier(i, before)
    OBVIOUS
  <2>3. before[i] = Apply(nodes[i].op, "default", Values(nodes[i].inputs, read))
    BY ZenonT(40), <1>18, <2>2 DEF NodeValue, Knows
  <2>4. read[bias] = sum
    BY <1>0, <1>10, <1>18 DEF Indices
  <2> HIDE DEF Earlier
  <2>5. Values(nodes[i].inputs, read) = <<sum>>
    BY <1>18, <2>4, OneValue
  <2> QED BY <2>1, <2>3, <2>5
<1> QED BY <1>11, <1>14, <1>17, <1>18

\* A node that is left computes the same from values that are the same.
LEMMA LiveComputes ==
  ASSUME FusionInv, WellFormed(nodes), NEW n \in Live, NEW before, NEW after,
         \A p \in DataPlaces(nodes[n].inputs) : nodes[n].inputs[p].producer < n =>
           after[nodes[n].inputs[p].producer] = before[nodes[n].inputs[p].producer]
  PROVE  NodeValue(n, [m \in 1..(n - 1) |-> after[m]])
           = NodeValue(n, [m \in 1..(n - 1) |-> before[m]])
<1>1. n \in Indices /\ n \in Nat
  BY DEF Live, Indices
<1>2. PICK now, past : /\ now = [m \in 1..(n - 1) |-> after[m]]
                       /\ past = [m \in 1..(n - 1) |-> before[m]]
  OBVIOUS
<1>3. ASSUME NEW p \in DataPlaces(nodes[n].inputs)
      PROVE  now[nodes[n].inputs[p].producer] = past[nodes[n].inputs[p].producer]
  <2>1. PICK m : m = nodes[n].inputs[p].producer
    OBVIOUS
  <2>2. m \in Indices /\ m < n
    BY <1>1, <1>3, <2>1, NodeShape DEF FusionInv, WellFormed, DataPlaces, Places, Indices
  <2>3. m \in 1..(n - 1) /\ after[m] = before[m]
    BY <1>1, <2>1, <2>2 DEF Indices, DataPlaces
  <2> QED BY <1>2, <2>1, <2>3
<1>4. Values(nodes[n].inputs, now) = Values(nodes[n].inputs, past)
  BY <1>3 DEF Values
<1> QED BY <1>2, <1>4 DEF NodeValue

\* What a name computes is what it did, if its fold lost nothing and what it
\* reads has its old value.
LEMMA FoldsKeepValues ==
  ASSUME FusionInv, FoldsInv, WellFormed(nodes)
  PROVE  ChangesComeFromLosses
<1>1. PICK before, after : before = Before /\ after = After
  OBVIOUS
<1>2. Len(nodes) \in Nat /\ Indices \subseteq Nat /\ NamesResolve
  BY FusionInvNames DEF FusionInv, Indices
<1>3. Names \subseteq Indices
  BY DEF FusionInv, Names, Live
<1>4. \A n \in Indices : before[n] = NodeValue(n, [m \in 1..(n - 1) |-> before[m]])
  <2>1. \A n \in Indices : before[n] = ValueAt(n, {}, [m \in 1..(n - 1) |-> before[m]])
    BY <1>1, <1>2, ComputedEquation DEF Before
  <2> QED BY <2>1 DEF ValueAt
<1>5. \A n \in Indices : after[n] = ValueAt(n, additions, [m \in 1..(n - 1) |-> after[m]])
  BY <1>1, <1>2, ComputedEquation DEF After
<1> SUFFICES ASSUME NEW n \in Names,
                    \A a \in additions : a.name = n => LosesNothing(a),
                    NEW ins, ins = InputsNow(n),
                    \A p \in DataPlaces(ins) :
                      ins[p].producer < n => after[ins[p].producer] = before[ins[p].producer]
             PROVE  after[n] = before[n]
  BY <1>1 DEF ChangesComeFromLosses
<1>7. n \in Indices /\ n \in Nat
  BY <1>2, <1>3
<1>9. PICK earlier : earlier = [m \in 1..(n - 1) |-> after[m]]
  OBVIOUS
<1>10. CASE n \in Live
  <2>1. {a \in additions : a.name = n} = {}
    BY <1>2, <1>10 DEF NamesResolve
  <2>2. after[n] = NodeValue(n, earlier)
    BY <1>5, <1>7, <1>9, <2>1 DEF ValueAt
  <2>3. ins = nodes[n].inputs
    BY <1>10 DEF InputsNow
  <2>4. NodeValue(n, [m \in 1..(n - 1) |-> after[m]])
          = NodeValue(n, [m \in 1..(n - 1) |-> before[m]])
    BY <1>10, <2>3, LiveComputes
  <2> QED BY <1>4, <1>7, <1>9, <2>2, <2>4
<1>11. CASE n \notin Live
  <2>1. PICK a \in additions : a.name = n
    BY <1>11 DEF Names
  <2>2. {b \in additions : b.name = n} = {a}
    BY <2>1 DEF FusionInv
  <2>3. after[n] = FusedValue(a, earlier)
    BY ZenonT(40), <1>5, <1>7, <1>9, <2>2 DEF ValueAt
  <2>4. PICK bias \in Indices, activation \in {{}} \cup {{i} : i \in Indices} :
          Folded(bias, activation) /\ a = FusedNode(bias, activation)
    BY <2>1 DEF FoldsInv, BuiltByPass
  <2>5. (CHOOSE b \in additions : b.name = n) = a
    BY <2>1 DEF FusionInv
  <2>6. ins = a.inputs /\ LosesNothing(a) /\ a.name \in Indices
    BY <1>7, <1>11, <2>1, <2>5 DEF InputsNow
  <2>7. \A p \in DataPlaces(a.inputs) : a.inputs[p].producer < a.name =>
          after[a.inputs[p].producer] = before[a.inputs[p].producer]
    BY <2>1, <2>6
  <2>8. FusedValue(a, [m \in 1..(a.name - 1) |-> after[m]]) = before[a.name]
    BY <1>4, <2>4, <2>6, <2>7, FusedComputes
  <2> QED BY <1>9, <2>1, <2>3, <2>8
<1> QED BY <1>10, <1>11

\* For every graph TensorFlow hands over, however often the pass folds: a value
\* that is not what it was is that of a fold that lost the base's place for the
\* bias, the bias's layout or the activation's slope, or is read from such.
THEOREM ChangesComeFromLossesHolds ==
  Spec => [](WellFormed(nodes) => ChangesComeFromLosses)
<1>1. FusionInv /\ FoldsInv => (WellFormed(nodes) => ChangesComeFromLosses)
  BY FoldsKeepValues
<1> QED BY <1>1, FoldsInvariant, PTL

\* Where no fold lost anything, the graph computes what it did: the first name
\* with another value would have read one before it.
LEMMA NoLossNoChange ==
  ASSUME FusionInv, ChangesComeFromLosses, \A a \in additions : LosesNothing(a)
  PROVE  FusionPreservesValues
<1>1. PICK before, after : before = Before /\ after = After
  OBVIOUS
<1>2. Names \subseteq Nat
  <2>1. Indices \subseteq Nat /\ dropped \subseteq Indices
    BY DEF FusionInv, Indices
  <2>2. \A a \in additions : a.name \in Indices
    BY <2>1 DEF FusionInv
  <2> QED BY <2>1, <2>2 DEF Names, Live
<1>3. \A n \in Names : \A p \in DataPlaces(InputsNow(n)) : InputsNow(n)[p].producer \in Names
  <2> SUFFICES ASSUME NEW n \in Names, NEW p \in DataPlaces(InputsNow(n))
               PROVE  InputsNow(n)[p].producer \in Names
    OBVIOUS
  <2>1. NamesResolve
    BY FusionInvNames
  <2>2. CASE n \in Live
    <3>1. InputsNow(n) = nodes[n].inputs /\ p \in 1..Len(nodes[n].inputs)
      BY <2>2 DEF InputsNow, DataPlaces
    <3> QED BY <2>1, <2>2, <3>1 DEF NamesResolve
  <2>3. CASE n \notin Live
    <3>1. \E a \in additions : a.name = n
      BY <2>3 DEF Names
    <3>2. PICK b \in additions : b = CHOOSE a \in additions : a.name = n
      BY <3>1
    <3>3. InputsNow(n) = b.inputs /\ p \in 1..Len(b.inputs)
      BY <2>3, <3>2 DEF InputsNow, DataPlaces
    <3> QED BY <2>1, <3>2, <3>3 DEF NamesResolve
  <2> QED BY <2>2, <2>3
<1> DEFINE Differ == {n \in Names : after[n] # before[n]}
<1>4. Differ = {}
  <2> SUFFICES ASSUME Differ # {} PROVE FALSE
    OBVIOUS
  <2>1. PICK n \in Differ : \A m \in Differ : ~(<<m, n>> \in OpToRel(<, Nat))
    <3>1. Differ \subseteq Nat
      BY <1>2
    <3> HIDE DEF Differ
    <3> QED BY <3>1, NatLessThanWellFounded, WFMin
  <2>2. PICK p \in DataPlaces(InputsNow(n)) :
          LET m == InputsNow(n)[p].producer IN m < n /\ after[m] # before[m]
    BY <1>1 DEF ChangesComeFromLosses
  <2>3. InputsNow(n)[p].producer \in Differ
    BY <1>3, <2>2
  <2> QED BY <1>2, <2>1, <2>2, <2>3 DEF OpToRel
<1> QED BY <1>1, <1>4 DEF FusionPreservesValues

\* So it computes what it did as long as no fold loses anything, which is not
\* what the comments promise, and not so in general.
THEOREM FusionPreservesValuesHolds ==
  Spec => [](WellFormed(nodes) /\ (\A a \in additions : LosesNothing(a))
               => FusionPreservesValues)
<1>1. FusionInv /\ FoldsInv =>
        (WellFormed(nodes) /\ (\A a \in additions : LosesNothing(a))
           => FusionPreservesValues)
  BY FoldsKeepValues, NoLossNoChange
<1> QED BY <1>1, FoldsInvariant, PTL

=============================================================================
