--------------------------- MODULE RuntimePrograms ---------------------------
(***************************************************************************)
(* The two runtime programs the repository ships, with fewer iterations.   *)
(* Inputs and outputs are listed in the order the operation's action reads *)
(* them; configuration that no property depends on is left out.  And what  *)
(* must hold of sessions that run them.                                    *)
(***************************************************************************)
EXTENDS ProgramExecutor

CONSTANTS DecodeSteps, InferenceSteps

ASSUME IterationAssumption ==
    /\ DecodeSteps \in Nat \ {0}
    /\ InferenceSteps \in Nat \ {0}

Step(op, in, out, arg)    == [op |-> op, in |-> in, out |-> out, arg |-> arg, body |-> <<>>]
Loop(op, in, out, arg, b) == [op |-> op, in |-> in, out |-> out, arg |-> arg, body |-> b]

\* Plans for one batch and calls the model on it.
PagedForward(tokens) == <<
    Step("paged_plan", <<tokens, "position_offset">>,
         <<"write_page_ids", "write_offsets", "page_table">>, 0),
    Step("call_model", <<tokens, "position_offset", "pages", "page_table",
                         "write_page_ids", "write_offsets">>, <<"logits">>, 0),
    Step("sample", <<"logits">>, <<"next_token">>, 0),
    Step("emit_token", <<"next_token">>, <<>>, 0),
    Step("advance_position", <<tokens, "position_offset">>, <<"position_offset">>, 0)>>

\* One line of the user: its tokens are the first batch, and each token sampled
\* from then on is the next.
ChatTurn ==
    <<Step("read_line", <<>>, <<"user_text">>, 0),
      Step("encode", <<"user_text">>, <<"input_ids">>, "input_ids")>>
    \o PagedForward("input_ids")
    \o <<Loop("loop_count", <<>>, <<>>, DecodeSteps, PagedForward("next_token"))>>

ChatProgram ==
    [state |-> << <<"pages", "paged_tensor">>, <<"page_table", "page_table">>,
                  <<"position_offset", "tensor">>, <<"write_page_ids", "tensor">>,
                  <<"write_offsets", "tensor">> >>,
     steps |-> <<Loop("until_eof", <<>>, <<>>, 0, ChatTurn)>>]

DenoisingStep == <<
    Step("call_graph", <<"latents", "text_embedding", "timestep", "guidance_timestep">>,
         <<"noise_pred">>, 0),
    Step("scheduler_delta", <<"sigmas", "step_index">>, <<"sigma_delta">>, 0),
    Step("axpy", <<"latents", "noise_pred", "sigma_delta">>, <<"latents">>, 0),
    Step("update", <<>>, <<"step_index">>, 0)>>

DiffusionProgram ==
    [state |-> << <<"step_index", "counter">>, <<"latents", "tensor">>, <<"sigmas", "tensor">>,
                  <<"timesteps", "tensor">>, <<"text_embedding", "tensor">> >>,
     steps |-> <<
        Step("read_line", <<>>, <<"user_prompt">>, 0),
        Step("encode", <<"user_prompt">>, <<"text_ids">>, "no append_to"),
        Step("call_graph", <<"text_ids">>, <<"text_embedding">>, 0),
        Step("vector", <<>>, <<"latents">>, <<>>),
        Step("vector", <<>>, <<"raw_sigmas">>, InferenceSteps),
        Step("vector", <<>>, <<"shift_mu">>, 1),
        Step("vector", <<"raw_sigmas", "shift_mu">>, <<"sigmas">>, 0),
        Step("vector", <<"sigmas">>, <<"timesteps", "timesteps_list">>, 0),
        Step("vector", <<>>, <<"guidance_scale">>, 1),
        Step("vector", <<"guidance_scale">>, <<"guidance_timestep">>, 0),
        Loop("loop_each", <<"timesteps_list">>, <<"timestep">>, 0, DenoisingStep),
        Step("call_graph", <<"latents">>, <<"decoded_image">>, 0),
        Step("write_image", <<"decoded_image">>, <<>>, 0)>>]

-----------------------------------------------------------------------------
\* An image is written only from latents to which every delta of the schedule
\* was applied once and in order, whatever earlier runs of the session left
\* in the step counter.
ImagesUseTheWholeSchedule ==
    (status = "done" /\ "latents" \in DOMAIN env.slots) =>
        env.slots.latents.data = [i \in 1..InferenceSteps |-> i]

\* A chat that is repeated until the end of the input ends when the host has
\* no more lines or the user enters an empty one (chat.yml, and the test of the
\* empty line in executor_test.go).
ConversationsEndWithTheInput ==
    (status = "done" /\ "pages" \in DOMAIN env.slots) =>
        input.left = 0 \/ input.last = "empty"
=============================================================================
