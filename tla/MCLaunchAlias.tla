---------------------------- MODULE MCLaunchAlias ----------------------------
(***************************************************************************)
(* A copy of its first tensor into its second, called with one tensor for  *)
(* both and with two tensors of the same shape, on one device.             *)
(***************************************************************************)
EXTENDS Launch

Device == [id |-> 1, arch |-> "wormhole", mesh |-> 1, grid |-> <<1, 1>>]
Placement(name) ==
  [name |-> name, ttnn |-> TRUE, shape |-> 1, space |-> "DRAM", tiled |-> TRUE, device |-> Device]

AliasOperations ==
  [copy |-> [auto |-> FALSE, options |-> <<>>, fp32 |-> FALSE,
             runs |-> [none |-> [grid |-> <<1, 1>>, netsOk |-> TRUE, intermediates |-> <<>>,
                                 body |-> <<MakeDfb(2, 2, 1), Thread("compute", {1}, <<>>, TRUE),
                                            Thread("datamovement", {1}, <<Param(1)>>, TRUE),
                                            Thread("datamovement", {1}, <<Param(2)>>, TRUE)>>]]]]
AliasCalls ==
  {[op |-> "copy", args |-> <<Placement(a), Placement(b)>>, keywords |-> "none", options |-> <<>>, env |-> <<>>,
    execute |-> TRUE, l1 |-> 8] : a, b \in {"x", "y"}}
NoArgv == <<>>
=============================================================================
