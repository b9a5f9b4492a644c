------------------------------ MODULE PortTypes ------------------------------
(****************************************************************************)
(* The typed contract of a port and the unification of two of them:         *)
(* src/ir/port_type.go and src/ir/unify.go. A failure is told apart by its  *)
(* adaptor hint alone, so the wording of the reasons is left out and the    *)
(* constraints of a port, whose order only picks the reason, are a set.     *)
(* A symbol map is a function whose domain is the set of bound symbols.     *)
(****************************************************************************)
EXTENDS Integers, Sequences, FiniteSets

\* A dimension is symbolic when it has a symbol, and static otherwise.
Symbolic(symbol) == [symbol |-> symbol, static |-> 0]
Static(size) == [symbol |-> "", static |-> size]
IsSymbolic(dimension) == dimension.symbol # ""

Port(dtype, shape, layout, kind) ==
  [dtype |-> dtype, shape |-> shape, layout |-> layout, kind |-> kind,
   constraints |-> {}]

\* The zero value of a port type, the type of a node nobody has typed.
Untyped == Port("Invalid", <<>>, "Unspecified", "Generic")

FloatTypes == {"Float64", "Float32", "Float16", "BFloat16", "Float8E4M3",
               "Float8E5M2"}

Divisibility(index, divisor) ==
  [type |-> "divisibility", index |-> index, divisor |-> divisor]
SymbolEquality(left, right) ==
  [type |-> "equality", left |-> left, right |-> right]
RangeOf(index, min, max) ==
  [type |-> "range", index |-> index, min |-> min, max |-> max]

NoBindings == [s \in {} |-> 0]

\* The size of a dimension under the bindings: no element while it is unknown.
Sizes(dimension, bindings) ==
  IF ~IsSymbolic(dimension) THEN {dimension.static}
  ELSE {bindings[s] : s \in {dimension.symbol} \cap DOMAIN bindings}

------------------------------------------------------------------------------
DTypesAgree(producer, consumer) ==
  \/ producer.dtype = consumer.dtype
  \/ "Invalid" \in {producer.dtype, consumer.dtype}

UnifiedDType(producer, consumer) ==
  IF producer.dtype # "Invalid" THEN producer.dtype
  ELSE IF consumer.dtype # "Invalid" THEN consumer.dtype ELSE "Float32"

LayoutsAgree(producer, consumer) ==
  \/ producer.layout = consumer.layout
  \/ "Unspecified" \in {producer.layout, consumer.layout}

UnifiedLayout(producer, consumer) ==
  IF producer.layout = "Unspecified" THEN consumer.layout ELSE producer.layout

KindsAgree(producer, consumer) ==
  \/ producer.kind = consumer.kind
  \/ "Generic" \in {producer.kind, consumer.kind}

UnifiedKind(producer, consumer) ==
  IF producer.kind = "Generic" THEN consumer.kind ELSE producer.kind

\* A static size wins over a symbol, and the producer's symbol over another.
UnifiedDimension(producer, consumer) ==
  IF IsSymbolic(producer) /\ ~IsSymbolic(consumer) THEN consumer ELSE producer

\* The symbol and size that a symbol meeting a static size binds.
DimensionBindings(producer, consumer) ==
  {<<pair[1].symbol, pair[2].static>> :
     pair \in {p \in {<<producer, consumer>>, <<consumer, producer>>} :
                 IsSymbolic(p[1]) /\ ~IsSymbolic(p[2])}}

\* Fault: symbols that meet are not remembered.
DimensionEqualitiesForgotten(producer, consumer) == {}

\* Two different symbols meet: their sizes must be equal once they are known.
DimensionEqualities(producer, consumer) ==
  IF IsSymbolic(producer) /\ IsSymbolic(consumer) /\ producer # consumer
  THEN {SymbolEquality(producer.symbol, consumer.symbol)} ELSE {}

ShapeBindings(producer, consumer) ==
  UNION {DimensionBindings(producer[i], consumer[i]) : i \in DOMAIN producer}

ShapeEqualities(producer, consumer) ==
  UNION {DimensionEqualities(producer[i], consumer[i]) : i \in DOMAIN producer}

\* bindSymbol: one symbol, one size.
OneSizeEach(pairs) == \A a, b \in pairs : a[1] = b[1] => a[2] = b[2]

ShapesAgree(producer, consumer) ==
  /\ Len(producer) = Len(consumer)
  /\ \A i \in DOMAIN producer :
       IsSymbolic(producer[i]) \/ IsSymbolic(consumer[i])
         \/ producer[i] = consumer[i]
  /\ OneSizeEach(ShapeBindings(producer, consumer))

AsBindings(pairs) ==
  [s \in {p[1] : p \in pairs} |-> (CHOOSE p \in pairs : p[1] = s)[2]]

\* The size of an axis, counted from the end when the index is negative.
ResolvedSizes(shape, index, bindings) ==
  LET axis == IF index < 0 THEN Len(shape) + index ELSE index
  IN  IF axis \in 0 .. Len(shape) - 1 THEN Sizes(shape[axis + 1], bindings)
      ELSE {}

\* A constraint about a size that is not known yet is not an error.
Holds(constraint, shape, bindings) ==
  CASE constraint.type = "divisibility" ->
         \A size \in ResolvedSizes(shape, constraint.index, bindings) :
           constraint.divisor # 0 /\ size % constraint.divisor = 0
    [] constraint.type = "range" ->
         \A size \in ResolvedSizes(shape, constraint.index, bindings) :
           size \in constraint.min .. constraint.max
    [] constraint.type = "equality" ->
         {constraint.left, constraint.right} \subseteq DOMAIN bindings
           => bindings[constraint.left] = bindings[constraint.right]

------------------------------------------------------------------------------
Rejected(hint) == [ok |-> FALSE, hint |-> hint]

Unify(producer, consumer) ==
  IF ~DTypesAgree(producer, consumer) THEN Rejected("cast")
  ELSE IF ~LayoutsAgree(producer, consumer) THEN Rejected("transpose")
  ELSE IF \/ ~ShapesAgree(producer.shape, consumer.shape)
          \/ ~KindsAgree(producer, consumer)
       THEN Rejected("")
  ELSE
    LET shape == [i \in DOMAIN producer.shape |->
                    UnifiedDimension(producer.shape[i], consumer.shape[i])]
        bindings == AsBindings(ShapeBindings(producer.shape, consumer.shape))
        constraints == producer.constraints \cup consumer.constraints
                         \cup ShapeEqualities(producer.shape, consumer.shape)
    IN  IF \E c \in constraints : ~Holds(c, shape, bindings) THEN Rejected("")
        ELSE [ok |-> TRUE, hint |-> "", bindings |-> bindings,
              type |-> [dtype |-> UnifiedDType(producer, consumer),
                        shape |-> shape,
                        layout |-> UnifiedLayout(producer, consumer),
                        kind |-> UnifiedKind(producer, consumer),
                        constraints |-> constraints]]
==============================================================================
