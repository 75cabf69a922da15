----------------------------- MODULE PipeTransfer -----------------------------
(***************************************************************************)
(* What a pipe promises (the semantics of docs/development/PipeNets.md):   *)
(* it holds no data of its own.  A transfer takes place when every         *)
(* destination has posted a receive, fills all of them at once, and the    *)
(* wait of a receive returns only after its own transfer.                  *)
(***************************************************************************)
EXTENDS Naturals

CONSTANTS Ends    \* the pairs of a pipe and one of its destinations

VARIABLES
  open,      \* receives posted and not yet filled
  filled     \* receives filled and not yet waited for

Post(e) == open' = [open EXCEPT ![e] = @ + 1] /\ UNCHANGED filled

EndsOf(p) == {e \in Ends : e[1] = p}

Transfer(p) ==
  /\ \A e \in EndsOf(p) : open[e] > 0
  /\ open' = [e \in Ends |-> IF e \in EndsOf(p) THEN open[e] - 1 ELSE open[e]]
  /\ filled' = [e \in Ends |-> IF e \in EndsOf(p) THEN filled[e] + 1 ELSE filled[e]]

Take(e) == filled[e] > 0 /\ filled' = [filled EXCEPT ![e] = @ - 1] /\ UNCHANGED open

Init == open = [e \in Ends |-> 0] /\ filled = [e \in Ends |-> 0]
Next == (\E e \in Ends : Post(e) \/ Take(e)) \/ \E p \in {e[1] : e \in Ends} : Transfer(p)
Spec == Init /\ [][Next]_<<open, filled>>
=============================================================================
