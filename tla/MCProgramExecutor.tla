-------------------------- MODULE MCProgramExecutor --------------------------
(***************************************************************************)
(* The shipped programs on a small host.                                   *)
(***************************************************************************)
EXTENDS RuntimePrograms

MCPrograms  == {ChatProgram, DiffusionProgram}
MCDiffusion == {DiffusionProgram}
MCChat      == {ChatProgram}
MCPrompts   == {<<>>, <<1, 2>>, <<3>>}
MCTensorIds == 1..30
=============================================================================
