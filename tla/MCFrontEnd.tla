----------------------------- MODULE MCFrontEnd -----------------------------
(****************************************************************************)
(* Topologies for TLC: models written as the templates of asset/template    *)
(* write them, every small wiring of three nodes over a few shared names,   *)
(* and every edge between a declared source and a consumer.                 *)
(****************************************************************************)
EXTENDS FrontEnd, TLC

\* Shorthands of the manifests below.
Plain(stem) == [stem |-> stem, form |-> "plain"]
At(stem, form) == [stem |-> stem, form |-> form]
Op(id, op, in, out, config) ==
  [id |-> id, op |-> op, in |-> in, out |-> out, config |-> config,
   indexed |-> <<>>, weights |-> <<>>, safetensors |-> <<>>,
   repeat |-> <<>>, template |-> <<>>]
Repeated(id, loops, template) ==
  [Op(id, "control.repeat", <<>>, <<>>, <<>>) EXCEPT
     !.repeat = <<loops>>, !.template = template]
Times(count) == {[count |-> count, offset |-> 0]}
Tensor(of, part) == [of |-> of, part |-> part]
Topology(inputs, outs, list, declared) ==
  [inputs |-> inputs, outputs |-> outs, nodes |-> list, bindings |-> declared]
Source(top, tensors, disabled) ==
  [topology |-> top, checkpoint |-> tensors, disableSynthesis |-> disabled]
Nothing == <<>>
Result(name) == <<"logits">> :> name

------------------------------------------------------------------------------
\* A decoder: embedding, layers that pass h_i to h_{i+1}, a final projection.
DecoderLayer ==
  <<Op(At("norm", "i"), "math.rmsnorm", <<At("h", "i")>>, <<At("n", "i")>>,
       Nothing),
    [Op(At("proj", "i"), "projection.linear", <<At("n", "i")>>,
        <<At("p", "i")>>, [out_features |-> 4]) EXCEPT
       !.safetensors =
         <<[tensor |-> <<Tensor(At("layers", "offset"), "weight")>>,
            bias |-> <<>>, slice |-> "rows"]>>],
    Op(At("heads", "i"), "shape.view_as_heads", <<At("p", "i")>>, <<>>,
       [num_heads |-> 2]),
    Op(At("merge", "i"), "shape.merge_heads", <<At("heads", "i")>>, <<>>,
       Nothing),
    [Op(At("add", "i"), "math.add", <<At("h", "i"), At("merge", "i")>>,
        <<At("h", "next")>>, Nothing) EXCEPT !.indexed = [layer |-> "i"]]>>

Decoder(loops, template, width) ==
  Topology(<<<<"input_ids">>>>, Result(<<"head">>),
    <<Op(<<"embed">>, "embedding.token", <<<<"input_ids">>>>, <<<<"h", 0>>>>,
         [d_model |-> width]),
      Repeated(<<"layers">>, loops, template),
      Op(<<"norm">>, "math.layernorm", <<<<"h", 2>>>>, <<<<"n">>>>, Nothing),
      Op(<<"head">>, "projection.linear", <<<<"n">>>>, <<Blank>>,
         [out_features |-> 8])>>, NoBindings)

TensorOf(dtype, shape) == [shape |-> shape, dtype |-> dtype]
Checkpoint ==
  <<(Tensor(<<"embed">>, "weight") :> TensorOf("BFloat16", <<8, 4>>))
    @@ (Tensor(<<"norm">>, "weight") :> TensorOf("BFloat16", <<4>>))
    @@ (Tensor(<<"norm">>, "bias") :> TensorOf("BFloat16", <<4>>))
    @@ (Tensor(<<"head">>, "weight") :> TensorOf("BFloat16", <<8, 4>>))
    @@ (Tensor(<<"norm", 0>>, "weight") :> TensorOf("Float32", <<4>>))
    @@ (Tensor(<<"norm", 1>>, "weight") :> TensorOf("Float32", <<4>>))
    @@ (Tensor(<<"layers", 0>>, "weight") :> TensorOf("BFloat16", <<4, 4>>))
    @@ (Tensor(<<"layers", 1>>, "weight") :> TensorOf("BFloat16", <<4, 4>>))>>

Nested == <<[Op(At("r", "i"), "control.repeat", <<>>, <<>>, Nothing) EXCEPT
               !.repeat = <<Times(1)>>]>>

DecoderSources ==
  {Source(Decoder(Times(2), DecoderLayer, 4), tensors, disabled) :
     tensors \in {<<>>, Checkpoint}, disabled \in BOOLEAN}
  \cup {Source(Decoder(Times(2), DecoderLayer, width), <<>>, FALSE) :
          width \in {0, 3, 8}}
  \cup {Source(Decoder(loops, template, 4), Checkpoint, FALSE) :
          loops \in {{}, Times(-1), Times(0), Times(1), Times(3)},
          template \in {<<>>, Nested, DecoderLayer}}

\* A decoder whose projection names a bias the checkpoint lacks.
BiasedSource ==
  Source(Topology(<<<<"x">>>>, Result(<<"out">>),
    <<[Op(<<"out">>, "projection.linear", <<<<"x">>>>, <<>>,
          [out_features |-> 4]) EXCEPT
         !.weights = <<[tensor |-> <<Tensor(<<"head">>, "weight")>>,
                        bias |-> <<Tensor(<<"head">>, "bias")>>,
                        slice |-> "none"]>>]>>, NoBindings), Checkpoint, FALSE)
\* The width of the tokens is only known once a later norm has bound D. The
\* tail reads what it must not, and is only given a cast.
Miscast ==
  Op(<<"tail">>, "embedding.token", <<<<"hidden_states">>>>, <<>>, Nothing)
LateWidthSource(tail) ==
  Source(Topology(<<<<"input_ids">>, <<"hidden_states">>>>, Result(<<"out">>),
    <<Op(<<"embed">>, "embedding.token", <<<<"input_ids">>>>, <<>>, Nothing),
      Op(<<"proj">>, "projection.linear", <<<<"embed">>>>, <<>>,
         [out_features |-> 4]),
      Op(<<"out">>, "math.rmsnorm", <<<<"proj">>>>, <<>>, Nothing)>> \o tail,
    NoBindings), <<>>, FALSE)
MalformedSource ==
  Source(Topology(<<<<"x">>, Blank>>, Result(<<"out">>),
    <<[Op(<<"out">>, "registry.pair", <<<<"x">>, Blank, <<"x">>>>, <<>>,
          Nothing) EXCEPT
         !.weights = <<[tensor |-> <<>>, bias |-> <<>>,
                        slice |-> "malformed"]>>]>>, NoBindings), <<>>, FALSE)

\* A layer reads what the layer before it made, the first one what the
\* embedding made, and each has the weights of its own number: the index forms
\* of a template are replaced by the right numbers (topology_expand.go:229-241).
LayersReadTheirPredecessor ==
  stage = "bound" =>
    \A n \in DOMAIN nodes :
      LET id == nodes[n].id IN
      /\ id[1] = "norm" /\ Len(id) = 2 =>
           nodes[n].inputs = <<IF id[2] = 0 THEN <<"embed">>
                               ELSE <<"add", id[2] - 1>>>>
      /\ id[1] = "proj" /\ Len(id) = 2 =>
           nodes[n].weights.tensor = <<Tensor(<<"layers", id[2]>>, "weight")>>
      /\ id = <<"norm">> => nodes[n].inputs = <<<<"add", 1>>>>

------------------------------------------------------------------------------
\* Every wiring of up to three nodes that share a few names.
A == <<"a">>
B == <<"b">>
X == <<"x">>
Y == <<"y">>
WiringOps == {"registry.pair", "value.assign", "unknown"}
Wirings ==
  {Source(Topology(<<X>>, (Y :> ref) @@ (Blank :> Blank),
     <<Op(A, "registry.pair", first[1], first[2], Nothing),
       Op(id, op, second[1], second[2], Nothing),
       Op(B, "registry.pair", third, <<>>, Nothing)>>, NoBindings), <<>>, FALSE) :
   first \in {<<X>>, <<X, X>>} \X {<<>>, <<X>>, <<Y>>, <<X, Y>>},
   id \in {A, <<"c">>}, op \in WiringOps,
   second \in {<<A>>, <<X>>, <<Y>>, <<X, Y>>} \X {<<>>, <<X>>, <<Y>>, <<A>>},
   third \in {<<X, X>>, <<A, Y>>, <<Y, X>>},
   ref \in {Blank, X, A, B}}

------------------------------------------------------------------------------
\* Every edge between a source of a declared type and a consumer.
Image == <<Static(1), Static(2), Static(4), Static(4)>>
Types ==
  <<AnyTensor,
    ActivationTensor,
    Contiguous("Int32", <<"N">>, "TokenIndex"),
    Contiguous("Float32", <<"N">>, "TokenIndex"),
    Contiguous("Float32", <<"B", "T">>, "HiddenState"),
    Port("Int32", <<Static(4)>>, "ChannelLast", "TokenIndex"),
    Port("Float32", <<Static(4)>>, "Unspecified", "Generic"),
    Port("Float32", <<Static(2), Static(4)>>, "Contiguous", "HiddenState"),
    Port("Float32", <<Static(4), Static(8)>>, "ChannelLast", "Generic"),
    Port("BFloat16", <<Static(8), Static(4)>>, "Contiguous", "HiddenState"),
    Port("BFloat16", <<Symbolic("B"), Static(4)>>, "ChannelFirst", "Generic"),
    Port("Float32", <<Static(2), Static(4)>>, "ChannelLast", "Generic"),
    Port("Invalid", <<Symbolic("B"), Static(4)>>, "Unspecified", "HiddenState"),
    Port("Invalid", <<Static(2), Static(6)>>, "Contiguous", "Generic"),
    Contiguous("Float32", <<"B", "B">>, "Generic"),
    Contiguous("Float32", <<"T", "B", "B">>, "Generic"),
    Port("Float32", <<Static(2), Static(4), Symbolic("B")>>, "Contiguous",
         "Generic"),
    Port("Float32", Image, "ChannelLast", "HiddenState"),
    Port("BFloat16", Image, "ChannelFirst", "Generic")>>
SourceOp(i) == "source " \o ToString(i)

Half(shape) == Port("BFloat16", shape, "ChannelFirst", "Generic")
MCExtensions ==
  [op \in {SourceOp(i) : i \in DOMAIN Types} |->
     [inputs |-> <<>>, deriver |-> "none", kind |-> "Generic",
      output |-> Types[CHOOSE i \in DOMAIN Types : SourceOp(i) = op]]]
  @@ ("conv.half" :> Spec(<<Half(ShapeOf(<<"N">>))>>, "same", "Generic"))
  @@ ("pool.half" :> Spec(<<AnyTensor, Half(ShapeOf(<<"N">>))>>, "same",
                          "Generic"))
  @@ ("tile.half" :> Spec(<<[Half(<<Symbolic("B"), Symbolic("T")>>) EXCEPT
                               !.constraints = {Divisibility(-1, 4),
                                                RangeOf(0, 2, 8)}]>>,
                          "same", "Generic"))
  @@ ("gram" :> Spec(<<Contiguous("Float32", <<"T", "T">>, "Generic")>>,
                     "same", "Generic"))
  @@ ("cube" :> Spec(<<Contiguous("Float32", <<"T", "K", "T">>, "Generic")>>,
                     "same", "Generic"))

MCRegistry == ("registry.pair" :> [arity |-> 0, binds |-> {1, 2}])
              @@ ("math.add" :> [arity |-> 2, binds |-> {2}])
              @@ ("math.rmsnorm" :> [arity |-> 1, binds |-> {1}])
MCWeightMap == <<"r">> :> Tensor(<<"norm">>, "weight")
MCPlannerBindings == [B |-> 2, D |-> 4]

Consumers ==
  {"embedding.token", "embedding.timestep", "math.rmsnorm",
   "projection.linear", "activation.relu", "activation.swiglu",
   "shape.view_as_heads", "shape.merge_heads", "shape.slice",
   "shape.upsample_nearest2d", "shape.last_token", "shape.transpose",
   "shape.reshape", "shape.cast", "convolution.conv2d", "attention.sdpa",
   "resonant.update_forward", "conv.half", "tile.half", "gram", "cube",
   "registry.pair"}
ConsumerConfig ==
  [out_features |-> 8, num_heads |-> 2, dim |-> -1, end |-> 3, scale_h |-> 2,
   scale_w |-> 2, shape |-> <<Static(2), Symbolic("B"), Static(2)>>,
   out_channels |-> 2, kernel_h |-> 3, kernel_w |-> 3, pad_h |-> 1]
Edges ==
  {Source(Topology(<<>>, Result(<<"use">>),
     <<Op(<<"make">>, SourceOp(i), <<>>, <<>>, Nothing),
       Op(<<"use">>, op, <<<<"make">>>>, <<>>, ConsumerConfig)>>,
     [B |-> 2]), <<>>, FALSE) :
   i \in DOMAIN Types, op \in Consumers}

\* Two edges into one node; the second source reads as a second operand.
PairConsumers == {"math.matmul", "math.add", "positional.rope", "shape.concat",
                  "pool.half"}
Pairs ==
  {Source(Topology(<<>>, Result(<<"use">>),
     <<Op(<<"left">>, SourceOp(i), <<>>, <<>>, Nothing),
       Op(<<"right">>, SourceOp(j), <<>>, <<>>, Nothing),
       Op(<<"use">>, op, <<<<"left">>, <<"right">>>>, <<>>, ConsumerConfig)>>,
     NoBindings), <<>>, FALSE) :
   i \in DOMAIN Types, j \in DOMAIN Types, op \in PairConsumers}

\* Three nodes in a row: a node whose first input has to be transposed gets its
\* type a round later than the node that reads it.
ChainConsumers ==
  {"embedding.token", "embedding.timestep", "math.rmsnorm",
   "projection.linear", "activation.swiglu", "shape.view_as_heads",
   "shape.transpose", "shape.cast", "conv.half", "tile.half", "gram",
   "registry.pair"}
Chains ==
  {Source(Topology(<<>>, Result(<<"use">>),
     <<Op(<<"make">>, SourceOp(i), <<>>, <<>>, Nothing),
       Op(<<"mid">>, first, <<<<"make">>>>, <<>>, ConsumerConfig),
       Op(<<"use">>, second, <<<<"mid">>>>, <<>>, ConsumerConfig)>>,
     NoBindings), <<>>, FALSE) :
   i \in DOMAIN Types, first \in ChainConsumers \cup {"unknown"},
   second \in ChainConsumers}

MCSources == DecoderSources \cup {BiasedSource, MalformedSource, LateWidthSource(<<>>),
                                LateWidthSource(<<Miscast>>)}
               \cup Wirings \cup Edges \cup Pairs \cup Chains
==============================================================================
