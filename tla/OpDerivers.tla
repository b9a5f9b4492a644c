----------------------------- MODULE OpDerivers -----------------------------
(****************************************************************************)
(* The output derivers of src/typer/deriver_core.go, deriver_shape.go,      *)
(* deriver_adaptor.go and deriver_convolution.go. Each takes a node, the    *)
(* types bound to its inputs (ts) and the bindings (b) found so far; only   *)
(* the norms add to the bindings. The guard of DerivedIf gathers the early  *)
(* returns, whose order only picks the wording of the error.                *)
(****************************************************************************)
EXTENDS OpSpecs

LastOf(shape) == shape[Len(shape)]

SameAsFirst(node, kind, ts, b) ==
  DerivedIf(ts # <<>>,
            IF kind = "Generic" THEN ts[1] ELSE [ts[1] EXCEPT !.kind = kind], b)

EmbeddingOutput(node, ts, b) ==
  LET hidden == FirstNonZero(<<Config(node, "d_model"),
                               Config(node, "hidden_size"),
                               BoundWeightDim(node, 1), Bound(b, "D")>>)
      last == IF hidden = 0 THEN Symbolic("D") ELSE Static(hidden)
  IN  DerivedIf(ts # <<>>,
                Port(BoundWeightDType(node), Append(ts[1].shape, last),
                     "Contiguous", "HiddenState"), b)

TimestepEmbeddingOutput(node, ts, b) ==
  DerivedIf(/\ ts # <<>>
            /\ Config(node, "dim") > 0,
            Port(NodeActivationDType(node),
                 Append(ts[1].shape, Static(Config(node, "dim"))),
                 "Contiguous", "HiddenState"), b)

\* bindNormSymbols: the last size is D and, for a matrix, the first is N.
NormOutput(node, ts, b) ==
  LET shape == ts[1].shape
      width == SizeOrZero(LastOf(shape), b)
      withD == Bind(b, "D", width)
      rows  == IF Len(shape) = 2 THEN SizeOrZero(shape[1], withD) ELSE 0
  IN  DerivedIf(/\ ts # <<>>
                /\ shape # <<>>
                /\ CanBind(b, "D", width)
                /\ CanBind(withD, "N", rows),
                [ts[1] EXCEPT !.kind = "HiddenState"], Bind(withD, "N", rows))

GatedResidualOutput(node, ts, b) ==
  LET residual == ts[1].shape
      branch == ts[2].shape
      modulation == ts[3].shape
      required == (3 * Config(node, "set") + 3) * SizeOf(LastOf(residual), b)
  IN  DerivedIf(/\ Len(ts) = 3
                /\ Len(residual) = Len(branch)
                /\ \A i \in DOMAIN residual :
                     DimensionsMatch(residual[i], branch[i], b)
                /\ residual # <<>> /\ modulation # <<>>
                /\ Known(LastOf(residual), b) /\ Known(LastOf(modulation), b)
                /\ SizeOf(LastOf(modulation), b) >= required,
                [ts[1] EXCEPT !.kind = "HiddenState"], b)

LinearOutput(node, ts, b) ==
  LET width == Config(node, "out_features")
  IN  DerivedIf(ts # <<>> /\ ts[1].shape # <<>> /\ width # 0,
                Port(NodeActivationDType(node),
                     Append(Front(ts[1].shape), Static(width)),
                     "Contiguous", "HiddenState"), b)

PageGatherOutput(node, ts, b) ==
  LET storage == ts[1].shape
      dtype == IF ts[1].dtype = "Invalid" THEN NodeActivationDType(node)
               ELSE ts[1].dtype
  IN  DerivedIf(/\ ts # <<>>
                /\ Len(storage) >= 2,
                Port(dtype,
                     <<Symbolic("KV")>>
                       \o SubSeq(storage, Len(storage) - 1, Len(storage)),
                     "Contiguous", "HiddenState"), b)

MatmulOutput(node, ts, b) ==
  LET left == ts[1].shape
      right == ts[2].shape
  IN  DerivedIf(/\ Len(ts) >= 2
                /\ Len(left) >= 2 /\ Len(right) >= 2,
                Port(ts[1].dtype, <<left[Len(left) - 1], LastOf(right)>>,
                     "Contiguous", "Generic"), b)

------------------------------------------------------------------------------
\* With one input the gate and the value are its two halves.
SwiGLUOutput(node, ts, b) ==
  LET shape == ts[1].shape
      width == SizeOf(LastOf(shape), b)
  IN  IF Len(ts) = 2 THEN SameAsFirst(node, "HiddenState", ts, b)
      ELSE DerivedIf(/\ Len(ts) = 1
                     /\ shape # <<>>
                     /\ Known(LastOf(shape), b)
                     /\ width % 2 = 0,
                     [Reshaped(ts[1], Append(Front(shape), Static(width \div 2)))
                        EXCEPT !.kind = "HiddenState"], b)

ViewAsHeadsOutput(node, ts, b) ==
  LET shape == ts[1].shape
      heads == Config(node, "num_heads")
      width == SizeOf(LastOf(shape), b)
  IN  DerivedIf(/\ ts # <<>> /\ heads > 0
                /\ shape # <<>>
                /\ Known(LastOf(shape), b)
                /\ width % heads = 0,
                Reshaped(ts[1], Front(shape)
                           \o <<Static(heads), Static(width \div heads)>>), b)

MergeHeadsOutput(node, ts, b) ==
  LET shape == ts[1].shape
      tail == SubSeq(shape, Len(shape) - 1, Len(shape))
  IN  DerivedIf(/\ ts # <<>>
                /\ Len(shape) >= 2
                /\ AllKnown(tail, b),
                Reshaped(ts[1], Append(SubSeq(shape, 1, Len(shape) - 2),
                                       Static(ElementCount(tail, b)))), b)

ConcatOutput(node, ts, b) ==
  LET left == ts[1].shape
      right == ts[2].shape
      axis == CanonicalAxis(Config(node, "dim"), Len(left)) + 1
  IN  DerivedIf(/\ Len(ts) = 2
                /\ Len(left) = Len(right)
                /\ IsAxis(Config(node, "dim"), Len(left))
                /\ AllKnown(<<left[axis], right[axis]>>, b)
                /\ \A i \in DOMAIN left \ {axis} :
                     DimensionsMatch(left[i], right[i], b),
                Reshaped(ts[1], [left EXCEPT ![axis] =
                  Static(SizeOf(left[axis], b) + SizeOf(right[axis], b))]), b)

\* An end of 0 is the end of the axis, also when the manifest says 0.
SliceOutput(node, ts, b) ==
  LET shape == ts[1].shape
      axis == CanonicalAxis(Config(node, "dim"), Len(shape)) + 1
      size == SizeOf(shape[axis], b)
      start == Config(node, "start")
      end == FirstNonZero(<<Config(node, "end"), size>>)
  IN  DerivedIf(/\ ts # <<>>
                /\ IsAxis(Config(node, "dim"), Len(shape))
                /\ Known(shape[axis], b)
                /\ 0 <= start /\ start <= end /\ end <= size,
                Reshaped(ts[1], [shape EXCEPT ![axis] = Static(end - start)]),
                b)

UpsampleNearest2DOutput(node, ts, b) ==
  LET shape == ts[1].shape
      scaleH == Config(node, "scale_h")
      scaleW == Config(node, "scale_w")
  IN  DerivedIf(/\ ts # <<>>
                /\ Len(shape) = 4
                /\ scaleH > 0 /\ scaleW > 0
                /\ AllKnown(<<shape[3], shape[4]>>, b),
                Reshaped(ts[1],
                  [shape EXCEPT ![3] = Static(SizeOf(shape[3], b) * scaleH),
                                ![4] = Static(SizeOf(shape[4], b) * scaleW)]),
                b)

LastTokenOutput(node, ts, b) ==
  LET shape == ts[1].shape
  IN  DerivedIf(/\ ts # <<>>
                /\ Len(shape) >= 2,
                Reshaped(ts[1], IF Len(shape) = 2 THEN <<Static(1), shape[2]>>
                                ELSE <<shape[1]>> \o SubSeq(shape, 3, Len(shape))),
                b)

------------------------------------------------------------------------------
\* Only adaptors carry a dtype or a layout: in a manifest both are strings,
\* which the type assertions of the code read as unset.
CastOutput(node, ts, b) ==
  DerivedIf(ts # <<>>,
            IF "dtype" \in DOMAIN node.config
            THEN [ts[1] EXCEPT !.dtype = node.config["dtype"]] ELSE ts[1], b)

TransposeOutput(node, ts, b) ==
  LET shape == ts[1].shape
      rank == Len(shape)
      dim1 == IF "dim1" \in DOMAIN node.config THEN node.config["dim1"] ELSE 1
      i == CanonicalAxis(Config(node, "dim0"), rank) + 1
      j == CanonicalAxis(dim1, rank) + 1
      swapped == [shape EXCEPT ![i] = shape[j], ![j] = shape[i]]
      layout == IF "layout" \in DOMAIN node.config THEN node.config["layout"]
                ELSE ts[1].layout
  IN  DerivedIf(/\ ts # <<>>
                /\ IsAxis(Config(node, "dim0"), rank) /\ IsAxis(dim1, rank),
                [Reshaped(ts[1], swapped) EXCEPT !.layout = layout], b)

\* A symbol of the shape attribute is replaced by its size when it has one.
ShapeFromAttribute(attribute, b) ==
  [i \in DOMAIN attribute |->
     IF Known(attribute[i], b) THEN Static(SizeOf(attribute[i], b))
     ELSE attribute[i]]

ReshapeOutput(node, ts, b) ==
  LET target == ShapeFromAttribute(node.config["shape"], b)
      source == ts[1].shape
  IN  DerivedIf(/\ ts # <<>>
                /\ "shape" \in DOMAIN node.config
                /\ target # <<>>
                /\ AllKnown(source, b) /\ AllKnown(target, b)
                     => ElementCount(source, b) = ElementCount(target, b),
                Reshaped(ts[1], target), b)

------------------------------------------------------------------------------
\* One output size of a convolution; the guards refuse a size of 0 or less.
Conv2DExtent(size, kernel, stride, padding, dilation) ==
  Truncated(size + 2 * padding - (dilation * (kernel - 1) + 1), stride) + 1

Conv2DOutput(node, ts, b) ==
  LET shape == ts[1].shape
      Value(key, default) == FirstNonZero(<<Config(node, key), default>>)
      channels == Value("out_channels", BoundWeightDim(node, 0))
      kernel == <<Value("kernel_h", BoundWeightDim(node, 2)),
                  Value("kernel_w", BoundWeightDim(node, 3))>>
      stride == <<Value("stride_h", 1), Value("stride_w", 1)>>
      padding == <<Config(node, "pad_h"), Config(node, "pad_w")>>
      dilation == <<Value("dil_h", 1), Value("dil_w", 1)>>
      Extent(i) == Conv2DExtent(SizeOf(shape[i + 2], b), kernel[i], stride[i],
                                padding[i], dilation[i])
  IN  DerivedIf(/\ ts # <<>>
                /\ Len(shape) = 4
                /\ channels > 0
                /\ AllKnown(<<shape[3], shape[4]>>, b)
                /\ \A i \in 1 .. 2 : /\ kernel[i] > 0 /\ stride[i] > 0
                                     /\ dilation[i] > 0
                                     /\ Extent(i) > 0,
                [Reshaped(ts[1], <<shape[1], Static(channels),
                                   Static(Extent(1)), Static(Extent(2))>>)
                   EXCEPT !.kind = "HiddenState"], b)

------------------------------------------------------------------------------
\* deriveOutputType: an extension without a deriver declares its output.
DeriveOutput(node, spec, ts, b) ==
  CASE spec.deriver = "none" -> Derived(spec.output, b)
    [] spec.deriver = "same" -> SameAsFirst(node, spec.kind, ts, b)
    [] spec.deriver = "embedding" -> EmbeddingOutput(node, ts, b)
    [] spec.deriver = "timestep" -> TimestepEmbeddingOutput(node, ts, b)
    [] spec.deriver = "norm" -> NormOutput(node, ts, b)
    [] spec.deriver = "gated" -> GatedResidualOutput(node, ts, b)
    [] spec.deriver = "linear" -> LinearOutput(node, ts, b)
    [] spec.deriver = "page_gather" -> PageGatherOutput(node, ts, b)
    [] spec.deriver = "matmul" -> MatmulOutput(node, ts, b)
    [] spec.deriver = "swiglu" -> SwiGLUOutput(node, ts, b)
    [] spec.deriver = "view_as_heads" -> ViewAsHeadsOutput(node, ts, b)
    [] spec.deriver = "merge_heads" -> MergeHeadsOutput(node, ts, b)
    [] spec.deriver = "concat" -> ConcatOutput(node, ts, b)
    [] spec.deriver = "slice" -> SliceOutput(node, ts, b)
    [] spec.deriver = "upsample" -> UpsampleNearest2DOutput(node, ts, b)
    [] spec.deriver = "last_token" -> LastTokenOutput(node, ts, b)
    [] spec.deriver = "cast" -> CastOutput(node, ts, b)
    [] spec.deriver = "transpose" -> TransposeOutput(node, ts, b)
    [] spec.deriver = "reshape" -> ReshapeOutput(node, ts, b)
    [] spec.deriver = "conv2d" -> Conv2DOutput(node, ts, b)
==============================================================================
