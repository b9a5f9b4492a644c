------------------------------- MODULE OpSpecs -------------------------------
(****************************************************************************)
(* The contracts of the operations, src/typer/spec.go and registry_spec.go, *)
(* and the functions that derive the type of a node's output from the types *)
(* bound to its inputs, src/typer/deriver_*.go.                             *)
(*                                                                          *)
(* A node carries config, its attributes by key (a missing key reads as 0), *)
(* weights, with the shape and dtype of its bound checkpoint tensor (<<>>   *)
(* and Invalid when unbound), and valueType, its activation dtype. A        *)
(* deriver answers Derived or, where the code returns an error, Refused.    *)
(****************************************************************************)
EXTENDS PortTypes, Lists

CONSTANTS Registry,    \* op of the embedded registry |-> [arity, binds]
          Extensions   \* op |-> spec, as RegisterSpec added them

ShapeOf(symbols) == [i \in DOMAIN symbols |-> Symbolic(symbols[i])]

AnyTensor == Port("Invalid", ShapeOf(<<"N">>), "Unspecified", "Generic")
ActivationTensor ==
  Port("Invalid", ShapeOf(<<"N">>), "Contiguous", "HiddenState")
Contiguous(dtype, symbols, kind) ==
  Port(dtype, ShapeOf(symbols), "Contiguous", kind)

\* kind is the kind that deriveSameAsFirstInput stamps on its result.
Spec(inputs, deriver, kind) ==
  [inputs |-> inputs, deriver |-> deriver, kind |-> kind]

Tensors(count) == [i \in 1 .. count |-> AnyTensor]
Unary == Spec(<<ActivationTensor>>, "same", "Generic")
Binary == Spec(<<ActivationTensor, ActivationTensor>>, "same", "Generic")
Shaping(count, deriver) == Spec(Tensors(count), deriver, "Generic")
Indices == Contiguous("Int32", <<"N">>, "Generic")

------------------------------------------------------------------------------
EmbeddingSpec(op) ==
  CASE op = "embedding.token" ->
         Spec(<<Contiguous("Int32", <<"N">>, "TokenIndex")>>,
              "embedding", "Generic")
    [] op = "embedding.timestep" ->
         Spec(<<Contiguous("Float32", <<"B">>, "Generic")>>,
              "timestep", "Generic")
EmbeddingOps == {"embedding.token", "embedding.timestep"}

NormSpec(op) ==
  CASE op \in {"math.rmsnorm", "math.layernorm"} ->
         Spec(<<ActivationTensor>>, "norm", "HiddenState")
    [] op = "math.modulated_layernorm" ->
         Spec(<<ActivationTensor, AnyTensor>>, "same", "HiddenState")
    [] op \in {"math.groupnorm", "math.batchnorm_denorm"} ->
         Spec(Tensors(1), "same", "HiddenState")
    [] op = "math.gated_residual" -> Shaping(3, "gated")
NormOps == {"math.rmsnorm", "math.layernorm", "math.modulated_layernorm",
            "math.groupnorm", "math.batchnorm_denorm", "math.gated_residual"}

ContractionSpec(op) ==
  CASE op = "projection.linear" ->
         Spec(<<ActivationTensor>>, "linear", "Generic")
    [] op = "math.matmul" ->
         Spec(<<Contiguous("Invalid", <<"M", "K">>, "Generic"),
                Contiguous("Invalid", <<"K", "N">>, "Generic")>>,
              "matmul", "Generic")
    [] op = "convolution.conv2d" -> Shaping(1, "conv2d")
ContractionOps == {"projection.linear", "math.matmul", "convolution.conv2d"}

BinaryOps == {"math.add", "math.sub", "math.mul", "math.div"}
UnaryOps == {"activation.relu", "activation.sigmoid", "activation.tanh",
             "activation.gelu", "activation.swish"}
ElementwiseSpec(op) ==
  IF op \in BinaryOps THEN Binary
  ELSE IF op \in UnaryOps THEN Unary
  ELSE Spec(<<ActivationTensor, ActivationTensor>>, "swiglu", "Generic")
ElementwiseOps == BinaryOps \cup UnaryOps \cup {"activation.swiglu"}

ShapeDerivers ==
  [op \in {"shape.view_as_heads", "shape.merge_heads", "shape.concat",
           "shape.slice", "shape.upsample_nearest2d", "shape.last_token"} |->
     CASE op = "shape.view_as_heads" -> "view_as_heads"
       [] op = "shape.merge_heads" -> "merge_heads"
       [] op = "shape.concat" -> "concat"
       [] op = "shape.slice" -> "slice"
       [] op = "shape.upsample_nearest2d" -> "upsample"
       [] op = "shape.last_token" -> "last_token"]
ShapeSpec(op) ==
  Shaping(IF op = "shape.concat" THEN 2 ELSE 1, ShapeDerivers[op])

PositionalSpec(op) ==
  IF op = "positional.rope"
  THEN Spec(<<ActivationTensor, Indices>>, "same", "HiddenState")
  ELSE Spec(Tensors(1), "same", "HiddenState")
PositionalOps == {"positional.rope", "positional.multi_axis_rope"}

StateSpec(op) ==
  IF op = "state.page_write"
  THEN Spec(Tensors(2) \o <<Indices, Indices>>, "same", "Generic")
  ELSE Spec(<<AnyTensor, Contiguous("Int32", <<"P">>, "Generic")>>,
            "page_gather", "Generic")
StateOps == {"state.page_write", "state.page_gather"}

AttentionSpec(op) ==
  LET cached == Contiguous("Invalid", <<"KV", "KVH", "HD">>, "HiddenState")
  IN  IF op = "attention.gqa"
      THEN Spec(<<ActivationTensor, cached, cached>>, "same", "HiddenState")
      ELSE Spec(Tensors(3), "same", "HiddenState")
AttentionOps == {"attention.gqa", "attention.sdpa"}

UpdateSpec(op) ==
  Spec(Tensors(CASE op = "resonant.update_forward" -> 5
                 [] op = "resonant.update_backward" -> 8
                 [] op = "value.assign" -> 1), "same", "Generic")
UpdateOps == {"resonant.update_forward", "resonant.update_backward",
              "value.assign"}

AdaptorSpec(op) ==
  Shaping(1, CASE op = "shape.cast" -> "cast"
               [] op = "shape.transpose" -> "transpose"
               [] op = "shape.reshape" -> "reshape")
AdaptorOps == {"shape.cast", "shape.transpose", "shape.reshape"}

TableOps == EmbeddingOps \cup NormOps \cup ContractionOps \cup ElementwiseOps
              \cup DOMAIN ShapeDerivers \cup PositionalOps \cup StateOps
              \cup AttentionOps \cup UpdateOps \cup AdaptorOps

TableSpec(op) ==
  CASE op \in EmbeddingOps -> EmbeddingSpec(op)
    [] op \in NormOps -> NormSpec(op)
    [] op \in ContractionOps -> ContractionSpec(op)
    [] op \in ElementwiseOps -> ElementwiseSpec(op)
    [] op \in DOMAIN ShapeDerivers -> ShapeSpec(op)
    [] op \in PositionalOps -> PositionalSpec(op)
    [] op \in StateOps -> StateSpec(op)
    [] op \in AttentionOps -> AttentionSpec(op)
    [] op \in UpdateOps -> UpdateSpec(op)
    [] op \in AdaptorOps -> AdaptorSpec(op)

\* opSpecFromSchema: as many permissive inputs as the schema declares.
SchemaSpec(count) == Shaping(IF count = 0 THEN 1 ELSE count, "same")

\* An extension overrides the table, and the table the registry.
HasSpec(op) ==
  op \in DOMAIN Extensions \cup TableOps \cup DOMAIN Registry
LookupSpec(op) ==
  IF op \in DOMAIN Extensions THEN Extensions[op]
  ELSE IF op \in TableOps THEN TableSpec(op)
  ELSE SchemaSpec(Registry[op].arity)

------------------------------------------------------------------------------
Config(node, key) == IF key \in DOMAIN node.config THEN node.config[key] ELSE 0

\* index counts from 0, as in the code.
BoundWeightDim(node, index) ==
  IF index < Len(node.weights.shape) THEN node.weights.shape[index + 1] ELSE 0

BoundWeightDType(node) ==
  IF node.weights.dtype = "Invalid" THEN "Float32" ELSE node.weights.dtype

NodeActivationDType(node) ==
  IF node.valueType \in FloatTypes THEN node.valueType ELSE "Float32"

FirstNonZero(values) ==
  LET found == SelectSeq(values, LAMBDA value : value # 0)
  IN  IF found = <<>> THEN 0 ELSE found[1]

Bound(bindings, symbol) ==
  IF symbol \in DOMAIN bindings THEN bindings[symbol] ELSE 0

\* bindSymbol of the derivers: an unknown size, or 0, binds nothing.
CanBind(bindings, symbol, size) ==
  size = 0 \/ symbol \notin DOMAIN bindings \/ bindings[symbol] = size
Bind(bindings, symbol, size) ==
  IF size = 0 THEN bindings
  ELSE [s \in DOMAIN bindings \cup {symbol} |->
          IF s = symbol THEN size ELSE bindings[s]]

Known(dimension, bindings) == Sizes(dimension, bindings) # {}
SizeOf(dimension, bindings) == CHOOSE size \in Sizes(dimension, bindings) : TRUE

\* Zero when the size is not known: the callers bind nothing then.
SizeOrZero(dimension, bindings) ==
  IF Known(dimension, bindings) THEN SizeOf(dimension, bindings) ELSE 0

DimensionsMatch(left, right, bindings) ==
  IF Known(left, bindings) /\ Known(right, bindings)
  THEN Sizes(left, bindings) = Sizes(right, bindings) ELSE left = right

\* Counted from 0; an axis out of range is none of 0 .. rank - 1.
CanonicalAxis(axis, rank) == IF axis < 0 THEN axis + rank ELSE axis
IsAxis(axis, rank) == CanonicalAxis(axis, rank) \in 0 .. rank - 1

ElementCount(shape, bindings) ==
  FoldSeq(LAMBDA dimension, count : count * SizeOf(dimension, bindings),
          1, shape)
AllKnown(shape, bindings) == \A i \in DOMAIN shape : Known(shape[i], bindings)

\* Go's integer division: towards zero, where \div goes down.
Truncated(dividend, divisor) ==
  IF dividend < 0 THEN -((-dividend) \div divisor) ELSE dividend \div divisor

Refused == [ok |-> FALSE]
Derived(type, bindings) == [ok |-> TRUE, type |-> type, bindings |-> bindings]
DerivedIf(guard, type, bindings) ==
  IF guard THEN Derived(type, bindings) ELSE Refused

Reshaped(type, shape) == [type EXCEPT !.shape = shape]

Derivers ==
  {"none", "same", "embedding", "timestep", "norm", "gated", "linear",
   "page_gather", "matmul", "swiglu", "view_as_heads", "merge_heads", "concat",
   "slice", "upsample", "last_token", "cast", "transpose", "reshape", "conv2d"}

IsPort(type) ==
  type = [dtype |-> type.dtype, shape |-> type.shape, layout |-> type.layout,
          kind |-> type.kind, constraints |-> type.constraints]

IsSpec(spec) ==
  /\ spec.deriver \in Derivers
  /\ \A slot \in DOMAIN spec.inputs : IsPort(spec.inputs[slot])
  /\ spec.deriver = "none" => IsPort(spec.output)

\* Nobody registers an adaptor's operation a second time: RegisterSpec is only
\* called for operations of its own (typer_test.go:40-454).
ASSUME ExtensionsAssumption ==
  \A op \in DOMAIN Extensions : op \notin AdaptorOps /\ IsSpec(Extensions[op])
==============================================================================
