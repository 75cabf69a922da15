--------------------------- MODULE MCSimMulticast ---------------------------
(***************************************************************************)
(* Model checking of SimProgram with a multicast pipe: a sender and the    *)
(* receivers on two nodes, the second of which also waits for a block of   *)
(* the sender.  One program, which every schedule completes.               *)
(***************************************************************************)
EXTENDS SimProgram, TLC

CONSTANTS s, r1, r2

MCKernelOrder == <<r1, s, r2>>

MCDfbs == {"d"}
MCCap == "d" :> 1
MCPipes == {"p"}
MCReceivers == "p" :> {r1, r2}

On(op, d) == [op |-> op, on |-> d]

MCScripts ==
  (s  :> {<<On("send", "p"), On("reserve", "d"), On("push", "d"), On("reserve", "d"),
            On("send", "p")>>})
  @@ (r1 :> {<<On("recv", "p"), On("recv", "p")>>})
  @@ (r2 :> {<<On("wait", "d"), On("pop", "d"), On("recv", "p"), On("recv", "p")>>})
=============================================================================
