--------------------------- MODULE ProgramExecutor ---------------------------
(***************************************************************************)
(* A program session: runs of one program over one state store.  The steps *)
(* are interpreted with a stack of frames, one per body being executed; an *)
(* action is one runtime operation, the entry of a loop, or the end of a   *)
(* body.  Operations that touch the host, upload or call a graph may fail, *)
(* which ends the run; the session can then be run again.                  *)
(*                                                                         *)
(* A step is [op, in, out, arg, body].  The host offers a number of lines  *)
(* and then end of file, the tokenizer and the sampler may return          *)
(* anything, and the graph backend writes the cache in place, also when it *)
(* fails half way.                                                         *)
(***************************************************************************)
EXTENDS StateStore

CONSTANTS Programs,   \* [state, steps]
          MaxLines,   \* lines the host has
          MaxRuns,    \* runs of the session
          Prompts,    \* what the tokenizer may return
          Sampled,    \* the tokens the sampler may return
          StopTokens  \* stop_token_ids

\* The steps of a program, in whatever body they are; bodies nest at most twice.
WithBodies(S)     == S \cup UNION {ToSet(step.body) : step \in S}
StepsOf(program)  == WithBodies(WithBodies(ToSet(program.steps)))
Declared(program) == {d[1] : d \in ToSet(program.state)}

\* What a step may write: one name, or two vectors; in place only onto the name
\* the tensor was read from; and what is taken for state is declared as state.
WritesItsOwn(program, step) ==
    /\ step.op \in {"encode", "sample", "read_line", "scheduler_delta", "call_graph",
                    "call_model", "axpy", "loop_each", "update", "advance_position"} =>
         Len(step.out) = 1
    /\ step.op = "vector" => Len(step.out) \in {1, 2}
    /\ step.op = "axpy" => step.in # <<>> /\ step.out[1] = step.in[1]
    /\ step.op \in {"paged_plan", "advance_position", "update"} =>
         ToSet(step.out) \subseteq Declared(program)
    /\ step.op = "paged_plan" =>
         step.out = <<"write_page_ids", "write_offsets", "page_table">>
    /\ step.op = "call_model" => "pages" \in Declared(program)

IsProgram(program) ==
    /\ program.steps \in Seq(ToSet(program.steps))
    /\ WithBodies(StepsOf(program)) = StepsOf(program)
    /\ \A step \in StepsOf(program) : /\ step.body \in Seq(ToSet(step.body))
                                      /\ step.in \in Seq(ToSet(step.in))
                                      /\ step.out \in Seq(ToSet(step.out))
                                      /\ WritesItsOwn(program, step)
    /\ \A d \in ToSet(program.state) :
         d[2] \in {"counter", "tensor", "page_table", "paged_tensor"}
    /\ IsFiniteSet(Declared(program))

\* The names of a program's value table.
Assigned(program) == {"loop_index", "loop_break"}
                       \cup UNION {ToSet(step.out) : step \in StepsOf(program)}

ASSUME ProgramsAssumption == \A program \in Programs : IsProgram(program)

\* There is always a tensor that no name holds.
ASSUME TensorIdsAssumption ==
    \A program \in Programs :
        /\ IsFiniteSet(Assigned(program))
        /\ IsFiniteSet(TensorIds) =>
             Cardinality(Declared(program)) + Cardinality(Assigned(program)) + 1
               < Cardinality(TensorIds)

ASSUME PromptsAssumption == \A prompt \in Prompts : prompt \in Seq(ToSet(prompt))

VARIABLES session,  \* the program, and whether its memory can axpy in place
          env,      \* values, slots, closed tensors
          frames,   \* bodies being executed
          status,   \* of the current or last run
          runs,
          input,    \* lines left, and what read_line last returned
          history   \* tokens the position counts, and those of a call since

vars == <<session, env, frames, status, runs, input, history>>

Init ==
    /\ session \in [program : Programs, resident : BOOLEAN]
    /\ env = NewRun(NewState(session.program.state))
    /\ frames = <<>>
    /\ status = "ready"
    /\ runs = 0
    /\ input \in [left : 0..MaxLines, last : {"none"}]
    /\ history = [done |-> <<>>, batch |-> <<>>]

-----------------------------------------------------------------------------
(* The stack                                                               *)

Frame(kind, body, left, before) ==
    [kind |-> kind, body |-> body, pc |-> 1, left |-> left, before |-> before]

Top       == Last(frames)
InBody    == status = "running" /\ Top.pc <= Len(Top.body)
BodyDone  == status = "running" /\ Top.pc > Len(Top.body)
Current   == Top.body[Top.pc]
At(op)    == InBody /\ Current.op = op
LoopStep  == LET outer == Last(Front(frames)) IN outer.body[outer.pc]

Advanced(stack) == [stack EXCEPT ![Len(stack)].pc = @ + 1]

\* The loop is over: its frame goes and the step after it is next.
Popped(stack) == Advanced(Front(stack))

Again(stack, left, before) ==
    [stack EXCEPT ![Len(stack)] = Frame(@.kind, @.body, left, before)]

StartRun ==
    /\ status # "running"
    /\ runs < MaxRuns
    /\ frames' = <<Frame("main", session.program.steps, 0, 0)>>
    /\ env' = NewRun(env.slots)
    /\ status' = "running"
    /\ runs' = runs + 1
    /\ history' = [history EXCEPT !.batch = <<>>]
    /\ UNCHANGED <<session, input>>

\* Run returns and the deferred close runs, after an error too.
EndRun(outcome, e) ==
    /\ status' = outcome
    /\ frames' = <<>>
    /\ env' = CloseRun(e)

\* The operation succeeds with a new table, and the next step is due.
Continue(e) ==
    /\ env' = e
    /\ frames' = Advanced(frames)
    /\ UNCHANGED status

Data(name) == Lookup(env, name).data
Output     == Current.out[1]
Silent     == UNCHANGED <<session, runs, input, history>>

InputsReadable == \A n \in ToSet(Current.in) : Readable(env, n)

FinishRun == BodyDone /\ Top.kind = "main" /\ EndRun("done", env) /\ Silent

-----------------------------------------------------------------------------
(* Loops                                                                   *)

EnterUntilEOF ==
    /\ At("until_eof")
    /\ frames' = Append(frames, Frame("until_eof", Current.body, 0,
                                      Cardinality(DOMAIN env.values)))
    /\ UNCHANGED env

\* A break that was flagged before the loop is forgotten.
EnterLoopCount ==
    /\ At("loop_count")
    /\ frames' = Append(frames, Frame("loop_count", Current.body, Current.arg, 0))
    /\ env' = SetValue(DropValue(env, "loop_break"), "loop_index", HostValue("index", 0))

EnterLoopEach ==
    /\ At("loop_each") /\ InputsReadable
    /\ frames' = Append(frames, Frame("loop_each", Current.body, Data(Current.in[1]), 0))
    /\ env' = SetValue(env, Output, HostValue("item", 1))

EnterLoop ==
    /\ EnterUntilEOF \/ EnterLoopCount \/ EnterLoopEach
    /\ Silent /\ UNCHANGED status

\* The break flag is looked at after each iteration.
EndCountedIteration ==
    /\ BodyDone /\ Top.kind = "loop_count"
    /\ IF "loop_break" \in DOMAIN env.values
       THEN /\ env' = DropValue(env, "loop_break")
            /\ frames' = Popped(frames)
       ELSE IF Top.left = 1
       THEN frames' = Popped(frames) /\ UNCHANGED env
       ELSE /\ frames' = Again(frames, Top.left - 1, 0)
            /\ env' = SetValue(env, "loop_index",
                               HostValue("index", env.values["loop_index"].data + 1))
    /\ Silent /\ UNCHANGED status

EndEachIteration ==
    /\ BodyDone /\ Top.kind = "loop_each"
    /\ IF Top.left = 1
       THEN frames' = Popped(frames) /\ UNCHANGED env
       ELSE /\ frames' = Again(frames, Top.left - 1, 0)
            /\ env' = SetValue(env, LoopStep.out[1],
                               HostValue("item", env.values[LoopStep.out[1]].data + 1))
    /\ Silent /\ UNCHANGED status

ReadEmptyLine(e) == "user_text" \in DOMAIN e.values /\ e.values.user_text.data = "empty"

\* The loop ends when the iteration added no name to the table, or when the
\* line it read was empty.
EndUntilEOFIteration ==
    /\ BodyDone /\ Top.kind = "until_eof"
    /\ LET size == Cardinality(DOMAIN env.values) IN
         frames' = IF size = Top.before \/ ReadEmptyLine(env)
                   THEN Popped(frames) ELSE Again(frames, 0, size)
    /\ Silent /\ UNCHANGED <<env, status>>

-----------------------------------------------------------------------------
(* Input and output                                                        *)

\* An empty line leaves an until_eof loop whose body the step is in.
ReadLine ==
    /\ At("read_line") /\ input.left > 0
    /\ \E line \in {"text", "empty"} :
         LET e == SetValue(env, Output, HostValue("line", line)) IN
           /\ input' = [left |-> input.left - 1, last |-> line]
           /\ env' = e
           /\ frames' = IF Top.kind = "until_eof" /\ ReadEmptyLine(e)
                        THEN Popped(frames) ELSE Advanced(frames)
    /\ UNCHANGED <<session, status, runs, history>>

\* io.EOF returns through every body up to the nearest until_eof loop, which
\* takes it for its end; without one the run fails.
ReadEOF ==
    /\ At("read_line") /\ input.left = 0
    /\ input' = [input EXCEPT !.last = "eof"]
    /\ LET loops == {i \in DOMAIN frames : frames[i].kind = "until_eof"} IN
         IF loops = {} THEN EndRun("failed", env)
         ELSE /\ frames' = Advanced(SubSeq(frames, 1, Max(loops) - 1))
              /\ UNCHANGED <<env, status>>
    /\ UNCHANGED <<session, runs, history>>

\* The tokens are appended to what append_to names, when it exists already.
Encode ==
    /\ At("encode") /\ InputsReadable
    /\ \E prompt \in Prompts :
         LET existing == IF Current.arg \in DOMAIN env.values
                         THEN env.values[Current.arg].data ELSE <<>>
         IN  Continue(SetValue(env, Output, HostValue("tokens", existing \o prompt)))
    /\ Silent

Emit ==
    /\ At("emit_token") \/ At("write_image")
    /\ InputsReadable
    /\ Continue(env)
    /\ Silent

Sample ==
    /\ At("sample") /\ InputsReadable
    /\ \E token \in Sampled :
         LET e == IF token \in StopTokens
                  THEN SetValue(env, "loop_break", HostValue("flag", TRUE)) ELSE env
         IN  Continue(SetValue(e, Output, HostValue("tokens", <<token>>)))
    /\ Silent

-----------------------------------------------------------------------------
(* Vectors and the sampler of a diffusion program                          *)

\* A state output is uploaded, a value is a slice of the host.
WriteVector(e, name, data) ==
    Write(e, name, IF name \in DOMAIN e.slots THEN Upload(e, data)
                   ELSE HostValue("vector", data))

\* The outputs are written one by one; the code has them in a map, and no
\* operation of the programs has more than two.
WriteVectors(e, out, data) ==
    LET first == WriteVector(e, out[1], data)
    IN  IF Len(out) = 1 THEN first ELSE WriteVector(first, out[2], data)

\* linspace, empirical_mu and random.normal have no input; time_shift and
\* scalar_broadcast keep the length of theirs.
Vector ==
    /\ At("vector") /\ InputsReadable
    /\ LET data == IF Current.in = <<>> THEN Current.arg ELSE Data(Current.in[1])
       IN  Continue(WriteVectors(env, Current.out, data))
    /\ Silent

\* Fault: an index behind the last delta is taken for the last.
StepIndexUnchecked(schedule, index) == schedule > 0

\* The counter is part of the session: it is not reset between runs.
StepIndexInSchedule(schedule, index) == index < schedule

\* in is <<schedule, step_index>>; the delta is known by its place.
SchedulerDelta ==
    /\ At("scheduler_delta") /\ InputsReadable
    /\ StepIndexInSchedule(Data(Current.in[1]), Data(Current.in[2]))
    /\ Continue(SetValue(env, Output, HostValue("delta", Data(Current.in[2]) + 1)))
    /\ Silent

\* in is <<y, x, alpha>>.  Memory that can axpy updates y in place; else y is
\* downloaded, summed, uploaded again and closed.
Axpy ==
    /\ At("axpy") /\ InputsReadable
    /\ LET y   == Lookup(env, Current.in[1])
           sum == Append(y.data, Data(Current.in[3]))
       IN  IF session.resident
           THEN Continue(Write(env, Output, TensorValue(y.id, sum)))
           ELSE Continue(Write(Env(env.values, env.slots, env.closed \cup {y.id}), Output,
                               Upload(env, sum)))
    /\ Silent

UpdateState ==
    /\ At("update")
    /\ Continue(SetReference(env, Output, HostValue("counter", env.slots[Output].data + 1)))
    /\ Silent

-----------------------------------------------------------------------------
(* Graph calls and the paged cache                                         *)

\* The call returns a fresh tensor; in is what the graph reads.
CallGraph ==
    /\ At("call_graph") /\ InputsReadable
    /\ Continue(Write(env, Output, Upload(env, 0)))
    /\ Silent

\* in is <<token_ids, position_offset>>.  Both vectors are uploaded before
\* either is stored.
PagedPlan ==
    /\ At("paged_plan") /\ InputsReadable
    /\ LET start   == Data(Current.in[2])
           count   == Len(Data(Current.in[1]))
           pages   == Upload(env, PlanPages(start, count))
           offsets == UploadAlso(env, {pages.id}, PlanOffsets(start, count))
       IN  /\ count > 0
           /\ Continue(SetReference(SetReference(SetReference(env,
                  "write_page_ids", pages), "write_offsets", offsets),
                  "page_table", HostValue("table", PlanTable(start, count))))
    /\ Silent

\* The places the plan gives to the first n tokens of the batch.
PlannedPlaces(n) ==
    [k \in 1..n |-> env.slots.write_page_ids.data[k] * PageSize
                    + env.slots.write_offsets.data[k]]

\* The graph puts the first n tokens of the batch where the plan says.
WriteCache(e, batch, n) ==
    LET places == PlannedPlaces(n) IN
    SetReference(e, "pages", HostValue("paged",
        [p \in 0..(Positions - 1) |->
           IF p \in Range(places) THEN batch[CHOOSE k \in 1..n : places[k] = p]
           ELSE e.slots.pages.data[p]]))

Fits(n) == \A p \in Range(PlannedPlaces(n)) : p < Positions

\* in is <<input_ids, ...>>, out <<logits>>; the cache's storage stays.
CallModel ==
    /\ At("call_model") /\ InputsReadable
    /\ LET batch == Data(Current.in[1])
           e     == WriteCache(env, batch, Len(batch))
       IN  /\ Fits(Len(batch))
           /\ Continue(Write(e, Output, Upload(e, 0)))
           /\ history' = [history EXCEPT !.batch = batch]
    /\ UNCHANGED <<session, runs, input>>

\* The call fails after some of its writes.
CallModelFails ==
    /\ At("call_model") /\ InputsReadable
    /\ \E n \in 0..Len(Data(Current.in[1])) :
         /\ Fits(n)
         /\ EndRun("failed", WriteCache(env, Data(Current.in[1]), n))
    /\ Silent

\* in is <<token_ids, position_offset>>.
AdvancePosition ==
    /\ At("advance_position") /\ InputsReadable
    /\ Continue(SetReference(env, Output,
                    Upload(env, Data(Current.in[2]) + Len(Data(Current.in[1])))))
    /\ history' = [done |-> history.done \o history.batch, batch |-> <<>>]
    /\ UNCHANGED <<session, runs, input>>

-----------------------------------------------------------------------------
(* Failure: the host, an upload or a graph call returns an error, an input *)
(* is unknown or closed, or the schedule has ended.                        *)

Fallible == {"read_line", "encode", "sample", "emit_token", "write_image", "vector", "axpy",
             "call_graph", "paged_plan", "advance_position"}

StepFails ==
    /\ InBody
    /\ \/ Current.op \in Fallible
       \/ ~InputsReadable
       \/ /\ Current.op = "scheduler_delta"
          /\ ~StepIndexInSchedule(Data(Current.in[1]), Data(Current.in[2]))
    /\ EndRun("failed", env)
    /\ Silent

Next ==
    \/ StartRun \/ FinishRun \/ StepFails
    \/ EnterLoop \/ EndCountedIteration \/ EndEachIteration \/ EndUntilEOFIteration
    \/ ReadLine \/ ReadEOF \/ Encode \/ Emit \/ Sample
    \/ Vector \/ SchedulerDelta \/ Axpy \/ UpdateState
    \/ CallGraph \/ PagedPlan \/ CallModel \/ CallModelFails \/ AdvancePosition

Spec == Init /\ [][Next]_vars

-----------------------------------------------------------------------------
\* What a value or a state slot names has not been closed: neither replacing
\* a name nor the end of a run closes a tensor that the state still holds, and
\* an in-place update does not close its own target.
NamesHoldOpenTensors == (ValueIds(env) \cup SlotIds(env)) \cap env.closed = {}

\* The token at a position of the sequence, read through the page table.
Covered(n) == n = 0 \/ (n - 1) \div PageSize < Len(env.slots.page_table.data)
Cached(p)  == env.slots.pages.data[env.slots.page_table.data[p \div PageSize + 1] * PageSize
                                   + (p % PageSize)]

\* Through the page table the model sees exactly the tokens the position
\* counts, followed by the batch of the call: after any number of calls,
\* also when earlier calls or runs failed between a write to the cache and
\* the advance of the position.
CallsSeeTheConversation ==
    "pages" \in DOMAIN env.slots =>
        LET tokens == history.done \o history.batch IN
        /\ Covered(Len(tokens))
        /\ \A i \in DOMAIN tokens : Cached(i - 1) = tokens[i]
=============================================================================
