------------------------------- MODULE Toolchain -------------------------------
(***************************************************************************)
(* Parts of the toolchain that compute one answer from one input, beside   *)
(* those with steps of their own.  case is the input; case.of names the    *)
(* part that gets it.                                                      *)
(***************************************************************************)
EXTENDS Sequences

CONSTANTS L1Budget, SemaphoreBytes

VARIABLE case

CE == INSTANCE CopyEndpoints
RU == INSTANCE Runner WITH DefaultBudget <- L1Budget

(* The launched program agrees with the ABI the threads were compiled for, *)
(* and the runner written for it gives its threads and buffers the same    *)
(* arguments, roles and sizes (kernel_runner.py).                          *)
ProgramHoldsTogether ==
  case.of = "runner" =>
    /\ RU!ProgramHoldsTogether(case.kernel, case.tensors, case.device)
    /\ RU!RunnerKeepsTheRest(case.kernel, case.tensors, case.device)

(* A copy that both accept moves the same tiles in both (copy handlers,    *)
(* operators.py).                                                          *)
CopiesAgree == case.of = "copy" => CE!CopiesAgree(case.ends[1], case.ends[2])
=============================================================================
