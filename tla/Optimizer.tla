------------------------------ MODULE Optimizer ------------------------------
(***************************************************************************)
(* optimizer.Run on one ast.Graph: constant folding, identity removal,     *)
(* scale flags and elementwise fusion, each mutating the graph in place.   *)
(* An action is one node of the constant folder, one algebraic rewrite, or *)
(* one cluster of the fuser.  Tiling only attaches attributes that nothing *)
(* reads and is left out.                                                  *)
(*                                                                         *)
(* A node is named by its ID.  Its operation is one of a few that stand    *)
(* for the table of elementwise operations: "sub", "div", "mul" and "max"  *)
(* (two operands), "neg", "relu" and "sign" (one), "scale" (math.mul with  *)
(* a scalar attribute and one input), and "opaque" for a heavy operation,  *)
(* "linear" for projection.linear.  Values are integers.                   *)
(***************************************************************************)
EXTENDS Integers, Lists

CONSTANTS Names,       \* node IDs and graph inputs
          OptGraphs,   \* the graphs to optimise
          InputValues, \* the values graph inputs are tried with
          NoValue      \* a constant node has no readable value

ASSUME NoValueAssumption == NoValue \notin Int

ASSUME InputValuesAssumption == IsFiniteSet(Names) /\ InputValues \subseteq Int

VARIABLES pass,      \* "fold", "rewrite", "scales", "fuse", "done"
          cursor,    \* the node the pass is at
          order,     \* graph.Nodes: the IDs in list order
          op,        \* GraphNode.Op
          inputs,    \* GraphNode.Inputs
          value,     \* Attributes["value"] of a math.constant
          expr,      \* the FusionAST of a fused node: type and operands by node
          outputs,   \* graph.Outputs: the name each output refers to
          flagged,   \* nodes with a "fold_scale" attribute
          consumers, \* Fuse: consumerCount
          absorbed,  \* Fuse: nodes absorbed into a cluster
          source     \* the graph as it was handed over

graphVars == <<order, op, inputs, value, expr, outputs, flagged>>
vars      == <<pass, cursor, graphVars, consumers, absorbed, source>>

Init ==
    /\ source \in OptGraphs
    /\ order = source.nodes
    /\ op = source.op
    /\ inputs = source.inputs
    /\ value = source.value
    /\ outputs = source.outputs
    /\ expr = [n \in {} |-> 0]
    /\ flagged = {}
    /\ consumers = [n \in {} |-> 0]
    /\ absorbed = {}
    /\ pass = "fold"
    /\ cursor = 1

Nodes == ToSet(order)

-----------------------------------------------------------------------------
(* elementwiseTable: math.sign is mapped to negation.                      *)

NodeType == [o \in {"sub", "div", "mul", "max", "neg", "relu", "sign", "scale"} |->
               CASE o = "sign" -> "neg" [] o = "scale" -> "mul" [] OTHER -> o]

Elementwise(n) == op[n] \in DOMAIN NodeType

Operations == {"input", "constant", "identity", "linear", "opaque", "fusion"} \cup DOMAIN NodeType

\* CompileGraph hands over nodes with IDs of their own that do not wait for each
\* other, and none of them is fused yet.
ASSUME OptGraphsAssumption ==
    \A g \in OptGraphs :
      /\ g.nodes \in Seq(Names) /\ IsInjective(g.nodes)
      /\ g.op \in [Names -> Operations \ {"fusion"}]
      /\ g.inputs \in [Names -> Seq(Names)]
      /\ g.value \in [Names -> Int \cup {NoValue}]
      /\ IsFiniteSet(DOMAIN g.outputs)
      /\ g.outputs \in [DOMAIN g.outputs -> Names]
      /\ \A S \in SUBSET ToSet(g.nodes) :
           S # {} => \E n \in S : ToSet(g.inputs[n]) \cap S = {}

Arity(type) == IF type \in {"neg", "relu"} THEN 1 ELSE 2

\* What a node type computes from operands of the right number.
Compute(type, args) ==
    CASE type = "sub"  -> args[1] - args[2]
      [] type = "div"  -> IF args[2] = 0 THEN 100
                          ELSE IF args[2] > 0 THEN args[1] \div args[2]
                          ELSE (-args[1]) \div (-args[2])
      [] type = "mul"  -> args[1] * args[2]
      [] type = "max"  -> IF args[1] < args[2] THEN args[2] ELSE args[1]
      [] type = "neg"  -> -args[1]
      [] type = "relu" -> IF args[1] > 0 THEN args[1] ELSE 0

-----------------------------------------------------------------------------
(* ConstantFold                                                            *)

Constant(n) == n \in Nodes /\ op[n] = "constant" /\ value[n] # NoValue

\* evaluateNodeType: the operand count must match, and nothing is divided by 0.
Evaluable(n) ==
    LET type == NodeType[op[n]] IN
      /\ Len(inputs[n]) = Arity(type)
      /\ type = "div" => value[inputs[n][2]] # 0

Foldable(n) ==
    /\ op[n] # "constant" /\ Elementwise(n)
    /\ \A i \in DOMAIN inputs[n] : Constant(inputs[n][i])
    /\ Evaluable(n)

\* Fault: the operands are taken in reverse.
FoldedValueReversed(n) ==
    Compute(NodeType[op[n]],
            Reverse([i \in DOMAIN inputs[n] |-> value[inputs[n][i]]]))

FoldedValue(n) ==
    Compute(NodeType[op[n]], [i \in DOMAIN inputs[n] |-> value[inputs[n][i]]])

FoldNode ==
    /\ pass = "fold"
    /\ cursor <= Len(order)
    /\ LET n == order[cursor] IN
         IF Foldable(n)
         THEN /\ op' = [op EXCEPT ![n] = "constant"]
              /\ inputs' = [inputs EXCEPT ![n] = <<>>]
              /\ value' = [value EXCEPT ![n] = FoldedValue(n)]
         ELSE UNCHANGED <<op, inputs, value>>
    /\ cursor' = cursor + 1
    /\ UNCHANGED <<pass, order, expr, outputs, flagged, consumers, absorbed, source>>

EndFold ==
    /\ pass = "fold"
    /\ cursor > Len(order)
    /\ pass' = "rewrite"
    /\ UNCHANGED <<cursor, graphVars, consumers, absorbed, source>>

-----------------------------------------------------------------------------
(* Rewrite                                                                 *)

Redirected == {n \in Nodes : op[n] = "identity" /\ Len(inputs[n]) = 1}

\* Fault: only one redirection is followed.
TargetOnce == [n \in Names |-> IF n \in Redirected THEN inputs[n][1] ELSE n]

\* The redirections are followed to the first name that is not redirected.
Target == LET Follow[n \in Names] ==
                IF n \in Redirected THEN Follow[inputs[n][1]] ELSE n
          IN  Follow

\* Identities disappear; readers and outputs refer to what they passed on.
RewriteIdentities ==
    /\ pass = "rewrite"
    /\ order' = Kept(order, Nodes \ Redirected)
    /\ inputs' = [n \in Names |->
                    IF n \in Nodes \ Redirected
                    THEN [i \in DOMAIN inputs[n] |-> Target[inputs[n][i]]]
                    ELSE inputs[n]]
    /\ outputs' = [o \in DOMAIN outputs |-> Target[outputs[o]]]
    /\ pass' = "scales"
    /\ UNCHANGED <<cursor, op, value, expr, flagged, consumers, absorbed, source>>

\* How often the nodes read a name.
ReadCount(n) ==
    Cardinality({e \in UNION {{m} \X DOMAIN inputs[m] : m \in Nodes} :
                   inputs[e[1]][e[2]] = n})

\* Fault: a name that only an output refers to counts as unread.
ConsumerCountOfNodes(n) == ReadCount(n)

\* Fuse: the nodes and the outputs that refer to a name.
ConsumerCount(n) ==
    ReadCount(n) + Cardinality({o \in DOMAIN outputs : outputs[o] = n})

\* flagScaleFolds: a linear node whose only input is a scale nobody else reads.
FlagScaleFolds ==
    /\ pass = "scales"
    /\ flagged' = {n \in Nodes :
                     /\ op[n] = "linear" /\ Len(inputs[n]) = 1
                     /\ inputs[n][1] \in Nodes /\ op[inputs[n][1]] = "scale"
                     /\ ReadCount(inputs[n][1]) = 1}
    /\ pass' = "fuse"
    /\ consumers' = [n \in Names |-> ConsumerCount(n)]
    /\ cursor' = Len(order)
    /\ UNCHANGED <<order, op, inputs, value, expr, outputs, absorbed, source>>

-----------------------------------------------------------------------------
(* Fuse: from the last node to the first, each elementwise node not yet    *)
(* absorbed becomes the root of a cluster.  A name is inlined when nobody  *)
(* but the cluster reads it; nothing is read twice in a cluster, so what a *)
(* root absorbs is a tree.                                                 *)

Inlined(n) ==
    /\ n \in Nodes \ absorbed
    /\ consumers[n] = 1
    /\ Elementwise(n)

\* The nodes of the cluster below a name, the root included.
Cluster == LET Below[n \in Names] ==
                 {n} \cup UNION {Below[m] : m \in {k \in ToSet(inputs[n]) : Inlined(k)}}
           IN  Below

\* The expression of a root.  As no node is twice in it, the node stands for its
\* subtree, and an operand that is not in the cluster for an external input.
Tree(n) == [m \in Cluster[n] |-> [type |-> NodeType[op[m]], args |-> inputs[m]]]

\* The external names of a cluster in the order the recursion meets them; one
\* that is met again keeps its first index.
Leaves == LET Walk[n \in Names] ==
                FlattenSeq([i \in DOMAIN inputs[n] |->
                              IF Inlined(inputs[n][i]) THEN Walk[inputs[n][i]]
                              ELSE <<inputs[n][i]>>])
          IN  Walk

FuseCluster ==
    /\ pass = "fuse"
    /\ cursor > 0
    /\ LET n == order[cursor] IN
         IF n \notin absorbed /\ Elementwise(n) /\ Cardinality(Cluster[n]) > 1
         THEN /\ op' = [op EXCEPT ![n] = "fusion"]
              /\ expr' = [m \in DOMAIN expr \cup {n} |-> IF m = n THEN Tree(n) ELSE expr[m]]
              /\ inputs' = [inputs EXCEPT ![n] = FirstMentions(Leaves[n])]
              /\ absorbed' = absorbed \cup (Cluster[n] \ {n})
         ELSE UNCHANGED <<op, expr, inputs, absorbed>>
    /\ cursor' = cursor - 1
    /\ UNCHANGED <<pass, order, value, outputs, flagged, consumers, source>>

\* Fault: a cluster takes the place of its first node, not of its root.
EndFuseAtFirst ==
    /\ pass = "fuse"
    /\ cursor = 0
    /\ order' = Kept(order, DOMAIN expr) \o Kept(order, Nodes \ (absorbed \cup DOMAIN expr))
    /\ pass' = "done"
    /\ UNCHANGED <<cursor, op, inputs, value, expr, outputs, flagged, consumers,
                   absorbed, source>>

\* The absorbed nodes leave the list.
EndFuse ==
    /\ pass = "fuse"
    /\ cursor = 0
    /\ order' = Kept(order, Nodes \ absorbed)
    /\ pass' = "done"
    /\ UNCHANGED <<cursor, op, inputs, value, expr, outputs, flagged, consumers,
                   absorbed, source>>

Next ==
    \/ FoldNode \/ EndFold
    \/ RewriteIdentities \/ FlagScaleFolds
    \/ FuseCluster \/ EndFuse

Spec == Init /\ [][Next]_vars

-----------------------------------------------------------------------------
(***************************************************************************)
(* What a graph computes.  A sign is a sign, whatever the table says; a    *)
(* scale multiplies by its attribute; a heavy operation is some function   *)
(* of its inputs; a fused node evaluates its expression.                   *)
(***************************************************************************)
Fused(tree, root, val) ==
    LET Value[m \in Names] ==
          IF m \in DOMAIN tree
          THEN Compute(tree[m].type,
                       [i \in DOMAIN tree[m].args |-> Value[tree[m].args[i]]])
          ELSE val[m]
    IN  Value[root]

Operate(operation, args) ==
    CASE operation = "identity" -> args[1]
      [] operation = "sign"     -> IF args[1] > 0 THEN 1 ELSE IF args[1] < 0 THEN -1 ELSE 0
      [] operation = "scale"    -> 3 * args[1]
      [] operation = "linear"   -> 2 * args[1] + 5
      [] operation = "opaque"   -> args[1] * args[1] + Len(args)
      [] OTHER                  -> Compute(operation, args)

Meaning(ids, operation, ins, constant, trees, env) ==
    LET Value[n \in Names] ==
          IF n \notin ids THEN env[n]
          ELSE IF operation[n] = "fusion" THEN Fused(trees[n], n, Value)
          ELSE IF operation[n] = "constant"
               THEN IF constant[n] = NoValue THEN 7 ELSE constant[n]
          ELSE Operate(operation[n], [i \in DOMAIN ins[n] |-> Value[ins[n][i]]])
    IN  Value

\* Graphs that the node types can express: without a sign, which has the type of
\* a negation, and with every scale outside the clusters, as a fused product
\* has no attribute to scale by.
Expressible(g) ==
    \A n \in ToSet(g.nodes) :
      /\ g.op[n] # "sign"
      /\ g.op[n] = "scale" => Len(g.inputs[n]) = 1
      /\ \A m \in ToSet(g.inputs[n]) \cap ToSet(g.nodes) :
           /\ g.op[m] = "scale" => g.op[n] = "linear"
           /\ g.op[n] = "scale" => g.op[m] \notin DOMAIN NodeType \cup {"identity"}

Environments == [Names \ ToSet(source.nodes) -> InputValues]

\* Every output of the graph has the value it had before the optimizer ran,
\* for all inputs, after each step of each pass.
OutputsKeepMeaning ==
    \A env \in Environments :
      LET before == Meaning(ToSet(source.nodes), source.op, source.inputs,
                            source.value, [n \in {} |-> 0], env)
          now    == Meaning(Nodes, op, inputs, value, expr, env)
      IN  \A o \in DOMAIN outputs : now[outputs[o]] = before[source.outputs[o]]

\* Whatever is removed is read by nobody: a name that a node or an output
\* refers to is a node still, or was a graph input from the start.
NothingDangles ==
    \A n \in (UNION {ToSet(inputs[m]) : m \in Nodes}) \cup {outputs[o] : o \in DOMAIN outputs} :
       n \in Nodes \/ n \notin ToSet(source.nodes)

\* "not referenced by graph.Outputs (those values must remain materialized so
\* callers can observe them)": unless it was an identity, the node an output
\* names is still in the graph, under its name.
OutputsStayMaterialized ==
    \A o \in DOMAIN outputs :
      LET n == source.outputs[o] IN
        n \in ToSet(source.nodes) /\ source.op[n] # "identity" =>
          outputs[o] = n /\ n \in Nodes

\* A list in dependency order stays in dependency order, so that the passes
\* that walk it later meet producers first.
Ordered(list, ins) ==
    \A k \in DOMAIN list : \A i \in DOMAIN ins[list[k]] :
       ins[list[k]][i] \in ToSet(list) => \E j \in 1..(k - 1) : list[j] = ins[list[k]][i]

StaysOrdered ==
    Ordered(source.nodes, source.inputs) => Ordered(order, inputs)
=============================================================================
