--------------------------- MODULE MCGraphLayers ---------------------------
(***************************************************************************)
(* All graphs over three nodes with up to two reads each (repeats, self    *)
(* reads and cycles included), all graphs over four nodes whose reads are  *)
(* sets of at most two nodes, and a few that index or edge validation or   *)
(* the DAG builder must refuse.                                            *)
(***************************************************************************)
EXTENDS GraphLayers

CONSTANTS n1, n2, n3, n4, x

MCNames == {n1, n2, n3, n4, x}

InputsOver(nodes, reads) ==
    {[n \in MCNames |-> IF n \in nodes THEN f[n] ELSE <<>>] : f \in [nodes -> reads]}

\* Lists of at most two names: the order within a list is immaterial to the
\* pass, the repetition is not.
Lists(names) == {<<>>} \cup {<<a>> : a \in names}
                \cup {<<a, a>> : a \in names}
                \cup {<<n1, b>> : b \in names \ {n1}}
                \cup {<<n2, n3>>, <<n2, x>>, <<n3, x>>}

ThreeNodes ==
    {[nodes |-> o, inputs |-> f, boundary |-> b, outputs |-> {n3}, inputOps |-> {}] :
       o \in {<<n1, n2, n3>>}, b \in {<<x>>, <<x, n1>>},
       f \in InputsOver({n1, n2, n3}, Lists({n1, n2, n3, x}))}

Pairs == {<<>>, <<n1>>, <<n2>>, <<n3>>, <<n4>>, <<n1, n2>>, <<n1, n3>>, <<n1, n4>>,
          <<n2, n3>>, <<n2, n4>>, <<n3, n4>>}

FourNodes ==
    {[nodes |-> <<n1, n2, n3, n4>>, inputs |-> f, boundary |-> <<x>>,
      outputs |-> {n4}, inputOps |-> {n2}] :
       f \in InputsOver({n1, n2, n3, n4}, Pairs)}

Chain == [n \in MCNames |-> CASE n = n1 -> <<x>>
                              [] n = n2 -> <<n1, Blank>>
                              [] OTHER  -> <<>>]

Odd ==
    {[nodes |-> o, inputs |-> Chain, boundary |-> b, outputs |-> out, inputOps |-> {n1}] :
       o \in {<<n1, n2>>, <<n2, n1>>, <<n1, n1>>, <<n1, Blank>>, <<>>},
       b \in {<<x>>, <<x, x>>, <<x, Blank>>, <<>>},
       out \in {{}, {n2}, {x}, {Blank}, {n4}}}

MCGraphs == ThreeNodes \cup FourNodes \cup Odd
=============================================================================
