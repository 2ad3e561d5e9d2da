---------------------------- MODULE MCMetalTools ----------------------------
(***************************************************************************)
(* Two releases of TensorFlow, the first of which is the pin and exports   *)
(* none of the entry points, two trees of sources, and one op or more for  *)
(* each route of the sweep.                                                *)
(***************************************************************************)
EXTENDS MetalTools

CONSTANTS v21, v22, t1, t2, m1, m2

MCVersions == {v21, v22}
MCTrees == {t1, t2}
MCGpus == {m1, m2}
MCHasUnifiedMemory == {m1}

MCExports ==
  [v \in MCVersions |->
     IF v = v21 THEN {}
     ELSE {"TF_AssignVariable", "TF_AssignRefVariable",
           "TF_GetInputTensorFromVariable",
           "TF_MaybeLockVariableInputMutexesInOrder",
           "TF_ReleaseVariableInputLockHolder",
           "TF_OpKernelConstruction_GetAttrTensorShape",
           "TF_OpKernelContext_ForwardRefInputToRefOutput"}]

-----------------------------------------------------------------------------
Plain(inputs) ==
  [inputs |-> inputs, attrs |-> {"T"}, allowed |-> <<"float32">>,
   required |-> FALSE, structured |-> FALSE]

Op(inputs, attrs, allowed, required, structured) ==
  [inputs |-> inputs, attrs |-> attrs, allowed |-> allowed,
   required |-> required, structured |-> structured]

\* "Gone" is listed, and unknown to TensorFlow.
MCOpDefs == [
  Relu |-> Plain(<<"features">>),
  Tanh |-> Plain(<<"x">>),
  TopKV2 |-> Plain(<<"input", "k">>),
  Angle |-> Op(<<"input">>, {"T"}, <<"complex64">>, FALSE, FALSE),
  QuantizedRelu |-> Op(<<"features">>, {}, <<>>, TRUE, FALSE),
  FusedBatchNorm |-> Plain(<<"x", "scale">>),
  RandomUniform |-> Op(<<"shape">>, {"dtype", "T"}, <<"int32">>, FALSE, FALSE),
  _FusedMatMul |-> Plain(<<"a", "b", "args">>),
  _FusedBatchNormGradEx |-> Plain(<<"y_backprop", "x">>),
  FFTND |-> Op(<<"input">>, {"Tcomplex"}, <<"complex64">>, FALSE, FALSE),
  CTCLossV2 |-> Op(<<"inputs">>, {}, <<>>, FALSE, FALSE),
  ResourceGather |-> Op(<<"resource", "indices">>, {"dtype"}, <<>>, FALSE, TRUE),
  Assign |-> Op(<<"ref", "value">>, {"T"}, <<>>, FALSE, TRUE)]

Kernel(op, constraint) ==
  [op |-> op, device |-> "GPU", constraint |-> constraint, host |-> {}]

On(attr) == [name |-> attr, allowed |-> <<"float32">>]
OfFloat == <<On("T")>>
NoTypes == <<>>

\* TensorFlow has a kernel of Relu for the CPU, and one of Squeeze for the GPU.
MCTensorFlowsOwn == <<
  [op |-> "Relu", device |-> "CPU", constraint |-> OfFloat, host |-> {}],
  [op |-> "Squeeze", device |-> "GPU", constraint |-> OfFloat, host |-> {}]>>

Common == <<
  Kernel("Relu", OfFloat), Kernel("TopKV2", OfFloat),
  Kernel("Angle", NoTypes), Kernel("QuantizedRelu", NoTypes),
  Kernel("FusedBatchNorm", OfFloat), Kernel("FusedBatchNormGradV3", OfFloat),
  Kernel("RandomUniform", <<On("T"), On("dtype")>>), Kernel("_FusedMatMul", OfFloat),
  Kernel("_FusedBatchNormGradEx", OfFloat), Kernel("FFTND", NoTypes),
  Kernel("IFFTND", NoTypes), Kernel("CTCLossV2", NoTypes)>>

Gated == <<Kernel("ResourceGather", NoTypes), Kernel("Assign", OfFloat)>>

\* The first tree adds a kernel of Squeeze; the second has RandomUniform twice,
\* with its constraints in another order, QuantizedRelu twice, and Tanh as well,
\* constrained on a type Tanh has not.
MCSources ==
  [t \in MCTrees |->
     [gated |-> Gated,
      always |->
        IF t = t1
        THEN Common \o <<[Kernel("Squeeze", OfFloat) EXCEPT !.host = {"axis"}]>>
        ELSE Common \o
             <<Kernel("Tanh", <<On("Tx")>>),
               Kernel("QuantizedRelu", NoTypes),
               Kernel("RandomUniform", <<On("dtype"), On("T")>>)>>]]

MCCheckedIn ==
  NEEDS_UNEXPORTED_C_API \union
  {Common[k].op : k \in DOMAIN Common} \union {"Gone"}

MCSelections == {
  {"TopKV2"}, {"FusedBatchNorm"}, {"_FusedMatMul"},
  {"_FusedBatchNormGradEx"}, {"FFTND"}, {"RandomUniform", "ResourceGather"},
  {"Relu", "Tanh"},
  {"CTCLossV2", "QuantizedRelu"}, {"Assign", "Angle", "Gone", "Tanh"}}

-----------------------------------------------------------------------------
Floats(data) == [kind |-> "float", data |-> data]
Exact(data) == [kind |-> "exact", data |-> data]

Half == Floats(<<500000>>)
Nearly == Floats(<<500900>>)
Off == Floats(<<600000>>)
NotANumber == Floats(<<NaN>>)
Twice == Floats(<<500000, 500000>>)
Mixed == Floats(<<500000, NaN>>)
Turned == Floats(<<NaN, 500000>>)

Norm(y, scratch) == <<y, y, y, scratch, scratch, y>>

MCAnswers == [
  Relu |-> {<<Half>>, <<Nearly>>, <<Off>>, <<NotANumber>>, <<Twice>>,
            <<Mixed>>, <<Turned>>, <<Half, Half>>},
  Tanh |-> {<<Half>>},
  TopKV2 |-> {<<Half, Exact(<<1>>)>>, <<Off, Exact(<<1>>)>>,
              <<Half, Exact(<<2>>)>>},
  Angle |-> {<<Half>>},
  QuantizedRelu |-> {<<Exact(<<1>>)>>},
  FusedBatchNorm |-> {Norm(Half, Half), Norm(Half, Off), Norm(Off, Half)},
  RandomUniform |-> {<<Half>>, <<Twice>>, <<Floats(<<500000, 600000>>)>>,
                     <<Mixed>>},
  _FusedMatMul |-> {<<>>, <<Half>>, <<Off>>, <<Twice>>},
  _FusedBatchNormGradEx |-> {<<Half>>, <<Off>>, <<NotANumber>>},
  FFTND |-> {<<Half>>, <<Off>>, <<Twice>>},
  CTCLossV2 |-> {<<Half>>, <<Floats(<<-1>>)>>, <<NotANumber>>},
  ResourceGather |-> {<<Half>>, <<Off>>},
  Assign |-> {<<Half>>}]

MCWanted == [_FusedMatMul |-> Half, FFTND |-> Half]

=============================================================================
