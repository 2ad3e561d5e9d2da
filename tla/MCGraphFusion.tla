--------------------------- MODULE MCGraphFusion ---------------------------
(***************************************************************************)
(* Graphs for TLC: five nodes, producers before consumers.  The first is a *)
(* source, the second a convolution or product of it; the others are any   *)
(* of a convolution, a bias, two activations and a node of another kind,   *)
(* that read any nodes before them and may wait for the source.  Layouts,  *)
(* slopes and what a base waits for are what a fold can lose.              *)
(***************************************************************************)
EXTENDS GraphFusion

CONSTANTS Slopes,     \* that a LeakyRelu may have
          Layouts,    \* that a convolution or a bias may have
          BaseWaits,  \* whether a convolution may wait for another node
          Last        \* number of nodes

ASSUME BaseWaitsAssumption == BaseWaits \in BOOLEAN

Data(n) == [producer |-> n, control |-> FALSE]
Wait(n) == [producer |-> n, control |-> TRUE]
Waits == {<< >>} \cup IF BaseWaits THEN {<<Wait(1)>>} ELSE {}

Plain(op, inputs) ==
  [op |-> op, inputs |-> inputs, gpu |-> TRUE, typed |-> "type", attr |-> "default"]

Source1 == Plain("Const", << >>)
Bases2 == {[Plain("Conv2D", <<Data(1), Data(1)>> \o w) EXCEPT !.attr = l] :
             w \in Waits, l \in Layouts}
            \cup {Plain("MatMul", <<Data(1), Data(1)>>)}
            \cup {[Plain("Conv2D", <<Data(1), Data(1)>>) EXCEPT !.typed = "unreadable"],
                  [Plain("MatMul", <<Data(1), Data(1)>>) EXCEPT !.typed = "absent"]}

Activations(k) ==
  {Plain("Relu", <<Data(i)>>) : i \in 2..(k - 1)}
    \cup {Plain("Relu", <<Data(k - 1), Wait(1)>>)}
    \cup {[Plain("LeakyRelu", <<Data(i)>>) EXCEPT !.attr = a] :
            i \in 2..(k - 1), a \in Slopes}
    \cup {[Plain("Tanh", <<Data(k - 1)>>) EXCEPT !.gpu = FALSE]}

Biases(k) ==
  {Plain("BiasAdd", <<Data(i), Data(j)>>) : i \in 2..(k - 1), j \in 1..(k - 1)}
    \cup {[Plain("BiasAdd", <<Data(k - 1), Data(1)>>) EXCEPT !.gpu = FALSE]}
    \cup {[Plain("BiasAdd", <<Data(2), Data(1)>>) EXCEPT !.attr = l] : l \in Layouts}
    \cup {Plain("BiasAdd", <<Data(k - 1), Data(1), Wait(j)>>) : j \in 1..(k - 1)}

Others(k) ==
  {Plain("Conv2D", <<Data(i), Data(1)>>) : i \in 1..(k - 1)}
    \cup {Plain("Other", <<Data(i)>>) : i \in 2..(k - 1)}
    \cup {Plain("Other", <<Wait(i)>>) : i \in 2..(k - 1)}

Nodes(k) == IF k = 1 THEN {Source1} ELSE IF k = 2 THEN Bases2
              ELSE Activations(k) \cup Biases(k) \cup Others(k)

SmallGraphs ==
  IF Last = 4
    THEN {<<a, b, c, d>> : a \in Nodes(1), b \in Nodes(2), c \in Nodes(3), d \in Nodes(4)}
    ELSE {<<a, b, c, d, e>> : a \in Nodes(1), b \in Nodes(2), c \in Nodes(3),
                              d \in Nodes(4), e \in Nodes(5)}

\* The graphs are such as TensorFlow hands over.
ASSUME SmallGraphsAssumption == \A g \in Graphs : WellFormed(g)

=============================================================================
