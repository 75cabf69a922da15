---------------------------- MODULE BlockChannel ----------------------------
(***************************************************************************)
(* What a dataflow buffer promises the two kernels that share it: the      *)
(* blocks a producer publishes reach the consumer once each, in order and  *)
(* unchanged; at most Cap of them are published and not yet consumed; the  *)
(* consumer gives a block back only after it has read it, and may          *)
(* overwrite the block it holds, for its own later use, only after it has  *)
(* read what was there.                                                    *)
(***************************************************************************)
EXTENDS Naturals, Sequences

CONSTANTS
  Cap,    \* block_count of the buffer
  Data    \* what a block can hold once it is written

VARIABLES
  queue,  \* the published blocks, oldest first
  seen    \* the oldest block has been read since it was last written

TypeOK ==
  /\ queue \in Seq(Data)
  /\ Len(queue) <= Cap
  /\ seen \in BOOLEAN

Init ==
  /\ queue = << >>
  /\ seen = FALSE

Publish(v) ==
  /\ Len(queue) < Cap
  /\ queue' = Append(queue, v)
  /\ UNCHANGED seen

Read ==
  /\ queue # << >>
  /\ seen' = TRUE
  /\ UNCHANGED queue

Overwrite(v) ==
  /\ queue # << >>
  /\ seen
  /\ queue' = <<v>> \o Tail(queue)
  /\ seen' = FALSE

Consume ==
  /\ queue # << >>
  /\ seen
  /\ queue' = Tail(queue)
  /\ seen' = FALSE

(* A kernel that is at both ends publishes its last block and gives back   *)
(* the one it holds in a single step, when it returns.                     *)
Exchange(v) ==
  /\ queue # << >>
  /\ seen
  /\ queue' = Append(Tail(queue), v)
  /\ seen' = FALSE

Next ==
  \/ \E v \in Data : Publish(v) \/ Overwrite(v) \/ Exchange(v)
  \/ Read
  \/ Consume

Spec == Init /\ [][Next]_<<queue, seen>>
=============================================================================
