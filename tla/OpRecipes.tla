----------------------------- MODULE OpRecipes -----------------------------
(***************************************************************************)
(* The sweep's tables: for which op there is a call, and of what sort      *)
(* (tools/recipes.py and the first part of tools/op_sweep.py).  A table is *)
(* the set of the ops it has a call for; the arguments of a call matter    *)
(* here only in what a device answers to it, which is left open.           *)
(***************************************************************************)
EXTENDS Integers, Sequences, SequencesExt

CONSTANTS
  OpDefs,       \* what TensorFlow's op registry holds, for the ops it knows
  NoType        \* no attribute of the name asked for

-----------------------------------------------------------------------------
(* Calls written by hand (NAMED). *)

by_name == {
  "Conv2D", "DepthwiseConv2dNative", "MaxPool", "AvgPool", "Relu", "Softmax",
  "LogSoftmax", "BiasAdd", "MatMul", "BatchMatMulV2", "Fill", "OnesLike",
  "ZerosLike", "Cast", "Concat", "ConcatV2", "Pack", "Split", "AddN",
  "Transpose", "ConjugateTranspose", "Reshape", "ExpandDims", "Squeeze",
  "Tile", "TopKV2", "LRN", "L2Loss", "Where", "Unique", "InvertPermutation"}

Convolution == {
  "Conv", "Conv3D", "Conv2DBackpropInput", "Conv2DBackpropFilter",
  "Conv3DBackpropInputV2", "Conv3DBackpropFilterV2",
  "DepthwiseConv2dNativeBackpropInput", "DepthwiseConv2dNativeBackpropFilter"}

Pooling == {
  "MaxPoolV2", "MaxPoolGrad", "MaxPoolGradV2", "MaxPoolGradGrad",
  "MaxPoolGradGradV2", "MaxPoolWithArgmax", "AvgPoolGrad"}

Normalisation == {
  "FusedBatchNorm", "FusedBatchNormV2", "FusedBatchNormV3",
  "BatchNormWithGlobalNormalization"}

Images == {
  "AdjustContrast", "ResizeBilinear", "ResizeNearestNeighbor",
  "ResizeBilinearGrad", "ResizeNearestNeighborGrad", "CropAndResize",
  "ExtractImagePatches", "ExtractVolumePatches", "Dilation2D",
  "ImageProjectiveTransformV2", "ImageProjectiveTransformV3"}

Layout == {
  "DepthToSpace", "SpaceToDepth", "BatchToSpace", "SpaceToBatch",
  "BatchToSpaceND", "SpaceToBatchND", "MirrorPad", "MirrorPadGrad", "Reverse",
  "ReverseV2", "ReverseSequence", "Roll", "StridedSlice", "SplitV", "OneHot",
  "LinSpace"}

Diagonals == {
  "MatrixDiagV2", "MatrixDiagV3", "MatrixDiagPartV2", "MatrixDiagPartV3",
  "MatrixSetDiagV2", "MatrixSetDiagV3"}

SearchAndCounting == {
  "TopK", "LowerBound", "UpperBound", "Bucketize", "HistogramFixedWidth",
  "InTopK", "InTopKV2", "Bincount", "DenseBincount"}

LossesAndActivations == {
  "SoftmaxCrossEntropyWithLogits", "SparseSoftmaxCrossEntropyWithLogits",
  "BiasAddGrad", "EluGrad", "SeluGrad", "LRNGrad", "CheckNumerics",
  "CheckNumericsV2"}

OddsAndEnds == {
  "Atan2", "Cross", "Betainc", "Empty", "DynamicPartition", "DynamicStitch",
  "ParallelDynamicStitch", "NonMaxSuppressionV2", "NonMaxSuppressionV3",
  "NonMaxSuppressionV4"}

Signal == {"RFFT", "RFFT2D", "RFFT3D", "IRFFT", "IRFFT2D", "IRFFT3D"}

SparseInput == {"SparseToDense", "SparseTensorDenseMatMul"}

\* Three families of four, made in a loop.
Segments ==
  {"SparseSegment" \o stem \o suffix :
     stem \in {"Sum", "Mean", "SqrtN"},
     suffix \in {"", "WithNumSegments", "Grad", "GradV2"}}

build ==
  UNION {Convolution, Pooling, Normalisation, Images, Layout, Diagonals,
         SearchAndCounting, LossesAndActivations, OddsAndEnds, Signal,
         SparseInput, Segments}

more == {
  "Sum", "Mean", "Max", "Min", "Prod", "All", "Any", "EuclideanNorm",
  "LogicalAnd", "LogicalOr", "LogicalNot", "Select", "Conj", "AvgPool", "TopK",
  "Split", "TileGrad", "UniqueWithCounts", "DiagPart", "GatherV2", "GatherNd",
  "BatchMatMul", "BatchMatMulV3", "FFT", "IFFT", "FFT2D", "IFFT2D", "FFT3D",
  "IFFT3D", "FFTND", "IFFTND", "RFFTND", "IRFFTND", "Conv3DBackpropInput",
  "Conv3DBackpropFilter", "StridedSliceGrad", "Dilation2DBackpropInput",
  "Dilation2DBackpropFilter"}

gradients_and_rest == {
  "FusedBatchNormGrad", "FusedBatchNormGradV2", "FusedBatchNormGradV3",
  "BatchNormWithGlobalNormalizationGrad", "MaxPoolGradWithArgmax",
  "MaxPoolGradGradWithArgmax", "CropAndResizeGradImage",
  "CropAndResizeGradBoxes", "Conv3DBackpropInput", "Conv3DBackpropFilter",
  "SparseBincount", "RaggedBincount", "CTCLoss", "CTCLossV2", "_FusedMatMul",
  "_FusedConv2D", "TopK", "TileGrad", "_TensorToHashBucketFast",
  "DebugNumericSummaryV2"}

NAMED == UNION {by_name, build, more, gradients_and_rest}

-----------------------------------------------------------------------------
(* Ops that cannot be compared with the CPU in the ordinary way. *)

\* Their answers are random.
RANDOM == {
  "RandomUniform", "RandomStandardNormal", "TruncatedNormal",
  "RandomUniformInt", "Multinomial", "RandomGamma",
  "ParameterizedTruncatedNormal", "StatelessMultinomial",
  "StatelessParameterizedTruncatedNormal", "StatelessRandomGammaV2",
  "StatelessRandomGammaV3"}

no_cpu_reference == {"FFTND", "IFFTND", "RFFTND", "IRFFTND"}

LAST_FEW == {"CTCLossV2", "MaxPoolGradGradWithArgmax", "ApproxTopK",
             "GenerateBoundingBoxProposals"}

NO_CPU == no_cpu_reference \union LAST_FEW

\* They have no wrapper in Python.
INTERNAL == {"_FusedMatMul", "_FusedConv2D", "_FusedBatchNormEx",
             "_FusedBatchNormGradEx", "_TensorToHashBucketFast"}

\* An op that works on variables makes its own and returns what it reads back
\* of them; the number of the variables, and which of them are read.  The two
\* gathers change none: their one answer is read.
Variables ==
  [ResourceApplyAdam |-> 3, ResourceApplyGradientDescent |-> 1,
   ResourceApplyMomentum |-> 2, ResourceApplyKerasMomentum |-> 2,
   ResourceApplyRMSProp |-> 3, ResourceGather |-> 1, ResourceGatherNd |-> 1,
   ResourceScatterUpdate |-> 1]

ReadBack(op) ==
  CASE op = "ResourceApplyAdam" -> {1}
    [] op = "ResourceApplyRMSProp" -> {1, 2}
    [] OTHER -> 1 .. Variables[op]

RESOURCE == DOMAIN Variables

NOT_REACHABLE_FROM_EAGER == {
  "Assign", "AssignAdd", "AssignSub", "ParallelConcat",
  "_ParallelConcatStart", "_ParallelConcatUpdate"}

NEEDS_UNEXPORTED_C_API == {
  "Assign", "AssignAdd", "AssignSub", "ResourceApplyAdam",
  "ResourceApplyGradientDescent", "ResourceApplyKerasMomentum",
  "ResourceApplyMomentum", "ResourceApplyRMSProp", "ResourceGather",
  "ResourceGatherNd", "ResourceScatterUpdate", "ParallelConcat",
  "_ParallelConcatStart", "_ParallelConcatUpdate"}

\* What the comments in recipes.py say of these tables: what the sweep cannot
\* call is among what needs the entry points, the rest of which has a recipe;
\* every op without a reference has a property of its own; no op is in two of
\* the tables that are looked up before the op registry is.
ASSUME TablesAgree ==
  /\ NEEDS_UNEXPORTED_C_API = RESOURCE \union NOT_REACHABLE_FROM_EAGER
  /\ RESOURCE \intersect NOT_REACHABLE_FROM_EAGER = {}
  /\ NO_CPU \intersect RANDOM = {} /\ NAMED \intersect RANDOM = {}
  /\ INTERNAL \intersect (NO_CPU \union NEEDS_UNEXPORTED_C_API) = {}
  /\ NO_CPU \intersect NEEDS_UNEXPORTED_C_API = {}

-----------------------------------------------------------------------------
(* Calls put together from the op's definition. An entry of OpDefs has the   *)
(* names of the `inputs' and of the `attrs', what the type T is `allowed' to *)
(* be, whether some attribute but a type is `required', and whether an       *)
(* input is a reference, a list, a resource or the like (`structured').      *)

\* Builders that ask tensor() for an input of the op's type.
OfItsType == {
  <<"x">>, <<"input">>, <<"features">>, <<"x", "y">>,
  <<"input", "reduction_indices">>, <<"x", "axis">>}

BY_SIGNATURE == OfItsType \union {
  <<"gradients", "features">>, <<"y", "dy">>, <<"value", "bias">>,
  <<"input", "dimension">>, <<"diagonal">>,
  <<"input", "num_lower", "num_upper">>, <<"input", "diagonal">>,
  <<"matrix", "rhs">>, <<"t", "clip_value_min", "clip_value_max">>,
  <<"condition", "t", "e">>, <<"data", "segment_ids">>,
  <<"data", "segment_ids", "num_segments">>, <<"params", "indices">>,
  <<"params", "indices", "axis">>, <<"tensor", "shape">>,
  <<"input", "shape">>, <<"input", "perm">>, <<"x", "perm">>,
  <<"input", "multiples">>, <<"input", "paddings">>,
  <<"input", "paddings", "constant_values">>, <<"input", "begin", "size">>,
  <<"input", "axis">>, <<"input", "dims">>, <<"tensor", "mask">>}

Preferred == <<"float32", "int32", "bool">>

dtype_for(def) ==
  IF "T" \notin def.attrs THEN NoType
  ELSE IF def.allowed = <<>> THEN "float32"
  ELSE Head(SelectSeq(Preferred, LAMBDA t : t \in ToSet(def.allowed))
              \o def.allowed)

\* There is an input of every type that is a truth value, an integer or a real
\* number, quantized ones aside.
tensor(dtype) ==
  dtype \notin {"complex64", "complex128", "string", "resource", "variant",
                "qint8", "quint8", "qint16", "quint16", "qint32"}

\* Whether synthesize() comes up with a call.
synthesize(op) ==
  \/ op \in RANDOM \union NAMED
  \/ LET def == OpDefs[op]
     IN def.inputs \in BY_SIGNATURE /\ ~def.required /\ ~def.structured

\* A call that asks for a tensor there is none for raises on any device.
CannotBeCalled(op) ==
  /\ op \notin UNION {RANDOM, NAMED, INTERNAL, NO_CPU, RESOURCE}
  /\ OpDefs[op].inputs \in OfItsType /\ ~tensor(dtype_for(OpDefs[op]))

=============================================================================
