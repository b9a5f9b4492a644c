------------------------------ MODULE PlanGraph ------------------------------
(***************************************************************************)
(* PlanGraph of compiler/plan.go: normalise one ast.Graph, bridge it to a  *)
(* planning topology whose nodes share port pointers, plan the workspace,  *)
(* publish the input and output offsets, and schedule streams.             *)
(*                                                                         *)
(* A graph here has, besides the fields of GraphOrder, the set of alias    *)
(* nodes (shape.view_as_heads, shape.merge_heads) and the byte size of the *)
(* type of each node's output and of each boundary.                        *)
(***************************************************************************)
EXTENDS Integers, GraphOrder, WorkspacePlanner, StreamScheduler

CONSTANT Int32Range    \* the number of int32 values, half of them negative

ASSUME Int32RangeAssumption == Int32Range \in Nat \ {0}

\* A port pointer is allocated for a boundary name or for a node's output.
BoundaryPort(name) == <<"boundary", name>>
OutputPort(name)   == <<"output", name>>

ASSUME PortsAssumption ==
    Ports = {BoundaryPort(n) : n \in Names} \cup {OutputPort(n) : n \in Names}

PlanGraphType ==
    [nodes         : Seq(Names \cup {Blank}),
     inputs        : [Names -> Seq(Names \cup {Blank})],
     boundary      : Seq(Names \cup {Blank}),
     outputs       : SUBSET (Names \cup {Blank}),
     inputOps      : SUBSET Names,
     aliases       : SUBSET Names,
     outputBytes   : [Names -> Nat \cup {Unsized}],
     boundaryBytes : [Names -> Nat \cup {Unsized}]]

ASSUME PlanGraphsAssumption == Graphs \subseteq PlanGraphType

VARIABLES bridge,       \* where PlanGraph stands
          producerPort, \* bridge.ProducerPorts: the output port of each node
          inputPorts,   \* topology.InputPorts: offsets by boundary name
          outputPorts   \* topology.OutputPorts: offsets by producer

bridgeVars == <<bridge, producerPort, inputPorts, outputPorts>>
planVars   == <<orderVars, plannerVars, schedulerVars, bridgeVars>>

PlanGraphInit ==
    /\ OrderInit
    /\ nodes = <<>>
    /\ bytes = [p \in Ports |-> Unsized]
    /\ PlannerStart
    /\ maxStreams \in StreamCaps
    /\ scheduled = 0
    /\ streamOf = <<>>
    /\ lastOn = [s \in {} |-> 0]
    /\ nextStream = 0
    /\ waits = <<>>
    /\ signals = <<>>
    /\ bridge = "normalize"
    /\ producerPort = [n \in {} |-> 0]
    /\ inputPorts = [n \in {} |-> 0]
    /\ outputPorts = [n \in {} |-> 0]

Normalize ==
    /\ bridge = "normalize"
    /\ NormalizeGraph
    /\ UNCHANGED <<plannerVars, schedulerVars, bridgeVars>>

StartBridge ==
    /\ bridge = "normalize"
    /\ phase = "ordered"
    /\ bridge' = "nodes"
    /\ UNCHANGED <<orderVars, plannerVars, schedulerVars, producerPort, inputPorts,
                   outputPorts>>

-----------------------------------------------------------------------------
(* buildPlanningTopology                                                   *)

\* Fault: only the nodes bridged before are looked up.
ResolvableNode(name) == name \in DOMAIN producerPort

\* resolvePlanningInputPort: the output of a node bridged before, else the
\* boundary of that name.  A blank name resolves to nothing.
Resolvable(name) == name \in DOMAIN producerPort \cup BoundarySet

ResolvePort(name) ==
    IF name \in DOMAIN producerPort THEN producerPort[name] ELSE BoundaryPort(name)

\* A boundary port takes the type of the first slot that resolves to it.
FirstTyped(name, p) ==
    name \notin DOMAIN producerPort /\ p = BoundaryPort(name) /\ bytes[p] = Unsized

\* planningOutputPort: an alias node passes on the port of its first input.
PlannedOutput(n) ==
    IF n \in graph.aliases /\ graph.inputs[n] # <<>>
    THEN ResolvePort(graph.inputs[n][1])
    ELSE OutputPort(n)

\* newPlanningNode, the input slots in order, then the output port.
BridgeNode ==
    /\ bridge = "nodes"
    /\ Len(nodes) < Len(graph.nodes)
    /\ LET n   == graph.nodes[Len(nodes) + 1]
           ins == graph.inputs[n]
       IN  /\ \A i \in DOMAIN ins : Resolvable(ins[i])
           /\ nodes' = Append(nodes,
                        [inputs  |-> [i \in DOMAIN ins |-> ResolvePort(ins[i])],
                         outputs |-> <<PlannedOutput(n)>>,
                         alias   |-> n \in graph.aliases /\ ins # <<>>])
           /\ producerPort' = [m \in DOMAIN producerPort \cup {n} |->
                                 IF m = n THEN PlannedOutput(n) ELSE producerPort[m]]
           /\ bytes' = [p \in Ports |->
                          IF p = OutputPort(n) THEN graph.outputBytes[n]
                          ELSE IF \E i \in DOMAIN ins : FirstTyped(ins[i], p)
                          THEN graph.boundaryBytes[p[2]]
                          ELSE bytes[p]]
           /\ streamOf' = Append(streamOf, 0)
           /\ waits' = Append(waits, {})
           /\ signals' = Append(signals, {})
    /\ UNCHANGED <<orderVars, stage, step, portID, nextID, intervals, allocVars,
                   workspace, maxStreams, scheduled, lastOn, nextStream, bridge,
                   inputPorts, outputPorts>>

BridgeFails ==
    /\ bridge = "nodes"
    /\ Len(nodes) < Len(graph.nodes)
    /\ LET n == graph.nodes[Len(nodes) + 1] IN
         \E i \in DOMAIN graph.inputs[n] : ~Resolvable(graph.inputs[n][i])
    /\ bridge' = "failed"
    /\ UNCHANGED <<orderVars, plannerVars, schedulerVars, producerPort, inputPorts,
                   outputPorts>>

StartPlanner ==
    /\ bridge = "nodes"
    /\ Len(nodes) = Len(graph.nodes)
    /\ bridge' = "workspace"
    /\ UNCHANGED <<orderVars, plannerVars, schedulerVars, producerPort, inputPorts,
                   outputPorts>>

Plan ==
    /\ bridge = "workspace"
    /\ PlanWorkspace
    /\ UNCHANGED <<orderVars, schedulerVars, bridgeVars>>

-----------------------------------------------------------------------------
(* attachGraphIOPorts: offsets are published as int32.  A failed PlanGraph *)
(* returns its error, and runPlanner drops the topology.                   *)

Int32(v) ==
    LET w == v % Int32Range
    IN  IF 2 * w >= Int32Range THEN w - Int32Range ELSE w

OutputsPlanned == graph.outputs \subseteq DOMAIN producerPort
InputsPlanned  == \A b \in BoundarySet : BoundaryPort(b) \in DOMAIN offset

AttachGraphIOPorts ==
    /\ bridge = "workspace"
    /\ stage = "planned"
    /\ IF InputsPlanned /\ OutputsPlanned
       THEN /\ inputPorts' = [b \in BoundarySet |-> Int32(offset[BoundaryPort(b)])]
            /\ outputPorts' = [n \in graph.outputs |-> Int32(offset[producerPort[n]])]
            /\ bridge' = "streams"
       ELSE /\ bridge' = "failed"
            /\ UNCHANGED <<inputPorts, outputPorts>>
    /\ UNCHANGED <<orderVars, plannerVars, schedulerVars, producerPort>>

Schedule ==
    /\ bridge = "streams"
    /\ ScheduleNode
    /\ UNCHANGED <<orderVars, bytes, stage, step, portID, nextID, intervals,
                   allocVars, workspace, bridgeVars>>

Planned == bridge = "streams" /\ scheduled = Len(nodes)

PlanGraphNext ==
    \/ Normalize
    \/ StartBridge
    \/ BridgeNode
    \/ BridgeFails
    \/ StartPlanner
    \/ Plan
    \/ AttachGraphIOPorts
    \/ Schedule
=============================================================================
