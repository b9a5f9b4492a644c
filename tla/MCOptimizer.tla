----------------------------- MODULE MCOptimizer -----------------------------
(***************************************************************************)
(* Graphs of four nodes over two inputs: constants (zero and unreadable    *)
(* ones included), chains of identities, shared and repeated reads, heavy  *)
(* operations between elementwise ones, outputs in the middle, and lists   *)
(* out of dependency order.                                                *)
(***************************************************************************)
EXTENDS Optimizer

CONSTANTS n1, n2, n3, n4, x, y

MCNames == {n1, n2, n3, n4, x, y}

MCInputValues == {-1, 0, 2}

Apply(o, ins)  == [op |-> o, inputs |-> ins, value |-> NoValue]
Constant3      == [op |-> "constant", inputs |-> <<>>, value |-> 3]
ConstantZero   == [op |-> "constant", inputs |-> <<>>, value |-> 0]
Unreadable     == Apply("constant", <<>>)

First  == {Constant3, ConstantZero, Unreadable, Apply("identity", <<x>>),
           Apply("sub", <<x, y>>), Apply("scale", <<x>>)}
Second == {Constant3, Apply("neg", <<n1>>), Apply("sub", <<n1, y>>),
           Apply("identity", <<n1>>), Apply("linear", <<n1>>)}
Third  == {Apply("div", <<n1, n2>>), Apply("sub", <<n2, n1>>), Apply("max", <<n2, n2>>),
           Apply("relu", <<n2>>), Apply("opaque", <<n2, x>>), Apply("identity", <<n1>>)}
Fourth == {Apply("sub", <<n3, n1>>), Apply("mul", <<n2, n3>>), Apply("neg", <<n3>>),
           Apply("identity", <<n3>>), Apply("linear", <<n3>>)}

Pick(a, b, c, d, field, else) ==
    [n \in MCNames |-> CASE n = n1 -> a[field] [] n = n2 -> b[field] [] n = n3 -> c[field]
                         [] n = n4 -> d[field] [] OTHER -> else]

GraphOf(list, a, b, c, d, outs) ==
    [nodes   |-> list,
     op      |-> Pick(a, b, c, d, "op", "input"),
     inputs  |-> Pick(a, b, c, d, "inputs", <<>>),
     value   |-> Pick(a, b, c, d, "value", NoValue),
     outputs |-> outs]

MCGraphs ==
    {GraphOf(list, a, b, c, d, outs) :
       list \in {<<n1, n2, n3, n4>>, <<n4, n2, n1, n3>>},
       a \in First, b \in Second, c \in Third, d \in Fourth,
       outs \in {[out |-> n4], [out |-> n4, mid |-> n2]}}

MCOptGraphs == {g \in MCGraphs : Expressible(g)}
=============================================================================
