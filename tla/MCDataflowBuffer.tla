-------------------------- MODULE MCDataflowBuffer --------------------------
(***************************************************************************)
(* Model checking of DataflowBuffer.  The cfg files give the two kernels,  *)
(* the capacity and the data; kernel roles are not fixed: Init takes every *)
(* assignment of roles to the kernels.                                     *)
(***************************************************************************)
EXTENDS DataflowBuffer
=============================================================================
