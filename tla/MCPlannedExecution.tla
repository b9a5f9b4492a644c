------------------------- MODULE MCPlannedExecution -------------------------
(***************************************************************************)
(* Graphs of four nodes over one boundary: every shape in which the nodes  *)
(* read at most two earlier ones, two layouts of sizes, one alias node or  *)
(* none, and graphs that a stage of PlanGraph must refuse.                 *)
(***************************************************************************)
EXTENDS PlannedExecution

CONSTANTS n1, n2, n3, n4, x

MCNames == {n1, n2, n3, n4, x}
MCPorts == {BoundaryPort(n) : n \in MCNames} \cup {OutputPort(n) : n \in MCNames}

Shape(a, b, c, d) ==
    [n \in MCNames |-> CASE n = n1 -> a [] n = n2 -> b [] n = n3 -> c [] n = n4 -> d
                         [] n = x -> <<>>]

UpTo2(names) == {<<>>} \cup {<<a>> : a \in names}

Shapes ==
    {Shape(a, b, c, d) :
       a \in {<<x>>, <<>>},
       b \in {<<>>, <<x>>, <<n1>>, <<n1, x>>},
       c \in UpTo2({x, n1, n2}) \cup {<<n1, n2>>, <<n2, x>>, <<n1, x>>},
       d \in UpTo2({n1, n2, n3}) \cup {<<n1, n2>>, <<n1, n3>>, <<n2, n3>>, <<n3, x>>}}

Bytes(a, b, c, d) ==
    [n \in MCNames |-> CASE n = n1 -> a [] n = n2 -> b [] n = n3 -> c [] n = n4 -> d
                         [] n = x -> Unsized]

Graph(order, shape, out, aliases, bs, xbytes) ==
    [nodes |-> order, inputs |-> shape, boundary |-> <<x>>, outputs |-> out,
     inputOps |-> {}, aliases |-> aliases, outputBytes |-> bs,
     boundaryBytes |-> [n \in MCNames |-> xbytes]]

\* One alias node or none: a view of a node's output or of the graph input.
Viewing(shape) == {{}} \cup {{n} : n \in {m \in {n1, n2, n3} : shape[m] # <<>>}}

PlainGraphs ==
    UNION {{Graph(<<n1, n2, n3, n4>>, s, {n4}, al, bs, 2) :
              al \in Viewing(s),
              bs \in {Bytes(2, 2, 2, 2), Bytes(1, 3, 4, 2)}} : s \in Shapes}

\* Listed out of order, with an unsized port, a blank input, an unknown
\* name, a cycle, an output that is a boundary, or a node with the name of the
\* graph input: behind its reader, where the reader reads the input, and before
\* it, where the input stays unread.
OddGraphs ==
    {Graph(<<n4, n2, n3, n1>>, Shape(<<x>>, <<n1>>, <<n1>>, <<n2, n3>>), {n4}, {},
           Bytes(1, 2, 3, 4), 1),
     Graph(<<n1, n2>>, Shape(<<x>>, <<n1>>, <<>>, <<>>), {n2}, {},
           Bytes(1, Unsized, 3, 4), 1),
     Graph(<<n1, n2>>, Shape(<<x>>, <<n1, Blank>>, <<>>, <<>>), {n2}, {},
           Bytes(1, 2, 3, 4), 1),
     Graph(<<n1, n2>>, Shape(<<x>>, <<n3>>, <<>>, <<>>), {n2}, {},
           Bytes(1, 2, 3, 4), 1),
     Graph(<<n1, n2>>, Shape(<<x, n2>>, <<n1>>, <<>>, <<>>), {n2}, {},
           Bytes(1, 2, 3, 4), 1),
     Graph(<<n1, n2>>, Shape(<<x>>, <<n1>>, <<>>, <<>>), {x}, {},
           Bytes(1, 2, 3, 4), 1),
     Graph(<<n1, x, n2>>, Shape(<<x>>, <<n1>>, <<>>, <<>>), {n2}, {},
           [Bytes(1, 2, 3, 4) EXCEPT ![x] = 1], 1),
     Graph(<<x, n1, n2>>, Shape(<<x>>, <<n1>>, <<>>, <<>>), {n2}, {},
           [Bytes(1, 2, 3, 4) EXCEPT ![x] = 1], 1)}

MCGraphs == PlainGraphs \cup OddGraphs

\* A chain whose middle value is a graph output too.
MiddleOutput ==
    {Graph(<<n1, n2, n3, n4>>, Shape(<<x>>, <<n1>>, <<n2>>, <<n3>>), {n2, n4}, {},
           Bytes(2, 2, 2, 2), 2)}

\* Two independent branches of two nodes each.
Branches ==
    {Graph(<<n1, n2, n3, n4>>, Shape(<<x>>, <<n1>>, <<x>>, <<n3>>), {n2, n4}, {},
           Bytes(2, 2, 2, 2), 2)}

=============================================================================
