--------------------------- MODULE KernelNetwork ---------------------------
(***************************************************************************)
(* The kernels of a simulated program and what they meet at: dataflow      *)
(* buffers (the counters of sim/dfb.py) and pipes (sim/copyhandlers.py),   *)
(* as functions of the state c of the channels.                            *)
(*                                                                         *)
(* The second half is the reference for SimProgram: what the program can   *)
(* do under any schedule.  A state m of the network says how far each      *)
(* kernel is in its script; each kernel advances whenever its own next     *)
(* step is possible, in no particular order, until none can.               *)
(***************************************************************************)
EXTENDS Naturals, FiniteSets, Sequences, Functions

CONSTANTS
  KernelOrder,  \* the kernels, in the order add_kernel was called
  Dfbs,         \* the dataflow buffers, each with one producer and one consumer
  Cap,          \* Cap[d]: block_count of buffer d
  Pipes,        \* the pipes
  Receivers,    \* Receivers[p]: kernels that receive from p, one per node
  Scripts       \* Scripts[k]: the scripts kernel k may run

Kernels == Range(KernelOrder)
NoKernel == "no kernel"

(* Calls that go through block_if_needed(), and calls that never block.    *)
BlockingOps == {"reserve", "wait", "send", "recv"}
ReleaseOps == {"push", "pop"}
Call == [op : {"reserve", "push", "wait", "pop"}, on : Dfbs]
          \cup [op : {"send", "recv"}, on : Pipes]

(* A kernel is a key of the scheduler's dict, so it is there once.         *)
ASSUME KernelsAssumption ==
  /\ KernelOrder \in Seq(Kernels)
  /\ \A i, j \in DOMAIN KernelOrder : KernelOrder[i] = KernelOrder[j] => i = j
  /\ NoKernel \notin Kernels

ASSUME CapAssumption == Cap \in [Dfbs -> Nat \ {0}]

ASSUME ScriptsAssumption == \A k \in Kernels : Scripts[k] \subseteq Seq(Call)

-----------------------------------------------------------------------------
(* Buffers and pipes.  `popped' is the ring's head, not wrapped.           *)
EmptyChannels ==
  [visible  |-> [d \in Dfbs |-> 0],
   reserved |-> [d \in Dfbs |-> 0],
   popped   |-> [d \in Dfbs |-> 0],
   holdsR   |-> [d \in Dfbs |-> NoKernel],   \* _pending_reserved_greenlet
   holdsW   |-> [d \in Dfbs |-> NoKernel],   \* _pending_waited_greenlet
   sent     |-> [p \in Pipes |-> 0],
   got      |-> [p \in Pipes |-> [k \in Kernels |-> 0]]]

(* can_reserve() and can_wait() of a buffer, and can_wait() of a transfer  *)
(* evaluated by the kernel itself: there is a message it has not received. *)
Can(c, call, k) ==
  CASE call.op = "reserve" -> c.visible[call.on] + c.reserved[call.on] < Cap[call.on]
    [] call.op = "wait"    -> c.visible[call.on] >= 1
    [] call.op = "recv"    -> c.got[call.on][k] < c.sent[call.on]
    [] OTHER               -> TRUE

(* Mutant of SchedulerCan: a reserved slot is taken for a visible one.     *)
SchedulerCanSeeReserved(c, call, k) ==
  IF call.op = "wait"
  THEN c.visible[call.on] + c.reserved[call.on] >= 1
  ELSE Can(c, call, k)

(* The same methods evaluated by the scheduler, outside the kernel's       *)
(* greenlet: node() raises there, and any queued message will do.          *)
SchedulerCan(c, call, k) ==
  IF call.op = "recv"
  THEN \E r \in Receivers[call.on] : c.got[call.on][r] < c.sent[call.on]
  ELSE Can(c, call, k)

(* auto_push_block() and auto_pop_block() of the buffers in D, by the      *)
(* kernel k: the blocks it holds are released.                             *)
AutoPush(c, D, k) ==
  LET own == {d \in D : c.holdsR[d] = k}
  IN  [c EXCEPT
         !.reserved = [d \in Dfbs |-> IF d \in own THEN @[d] - 1 ELSE @[d]],
         !.visible  = [d \in Dfbs |-> IF d \in own THEN @[d] + 1 ELSE @[d]],
         !.holdsR   = [d \in Dfbs |-> IF d \in own THEN NoKernel ELSE @[d]]]

AutoPop(c, D, k) ==
  LET own == {d \in D : c.holdsW[d] = k}
  IN  [c EXCEPT
         !.visible = [d \in Dfbs |-> IF d \in own THEN @[d] - 1 ELSE @[d]],
         !.popped  = [d \in Dfbs |-> IF d \in own THEN @[d] + 1 ELSE @[d]],
         !.holdsW  = [d \in Dfbs |-> IF d \in own THEN NoKernel ELSE @[d]]]

(* A call up to its block_if_needed(): the automatic release of the last   *)
(* block, or the queueing of a message, which copy() does before           *)
(* tx.wait().                                                              *)
Prepare(c, call, k) ==
  CASE call.op = "reserve" -> AutoPush(c, {call.on}, k)
    [] call.op = "wait"    -> AutoPop(c, {call.on}, k)
    [] call.op = "send"    -> [c EXCEPT !.sent[call.on] = @ + 1]
    [] OTHER               -> c

(* A call from its block_if_needed() on; and push() and pop().             *)
Complete(c, call, k) ==
  CASE call.op = "reserve" -> [c EXCEPT !.reserved[call.on] = @ + 1,
                                        !.holdsR[call.on] = k]
    [] call.op = "wait"    -> [c EXCEPT !.holdsW[call.on] = k]
    [] call.op = "recv"    -> [c EXCEPT !.got[call.on][k] = @ + 1]
    [] call.op = "push"    -> AutoPush(c, {call.on}, k)
    [] call.op = "pop"     -> AutoPop(c, {call.on}, k)
    [] OTHER               -> c

(* What _tagged does when the function has returned.                       *)
ReleaseAll(c, k) == AutoPop(AutoPush(c, Dfbs, k), Dfbs, k)

-----------------------------------------------------------------------------
(* The network of the kernels with scripts s.  begun[k]: the call at       *)
(* pos[k] is prepared.  left: the kernels that have not returned.          *)
NetStart ==
  [pos   |-> [k \in Kernels |-> 1],
   begun |-> [k \in Kernels |-> FALSE],
   chan  |-> EmptyChannels,
   left  |-> Kernels]

NetStep(s, m, k) ==
  IF m.pos[k] > Len(s[k])
  THEN [m EXCEPT !.chan = ReleaseAll(@, k), !.left = @ \ {k}]
  ELSE LET call == s[k][m.pos[k]]
       IN  IF call.op \in BlockingOps /\ ~m.begun[k]
           THEN [m EXCEPT !.chan = Prepare(@, call, k), !.begun[k] = TRUE]
           ELSE [m EXCEPT !.chan = Complete(@, call, k),
                          !.pos[k] = @ + 1,
                          !.begun[k] = FALSE]

NetCan(s, m, k) ==
  /\ k \in m.left
  /\ \/ m.pos[k] > Len(s[k])
     \/ LET call == s[k][m.pos[k]]
        IN  (call.op \in BlockingOps /\ ~m.begun[k]) \/ Can(m.chan, call, k)

Quiet(s, m) == \A k \in Kernels : ~NetCan(s, m, k)

(* One execution: the kernel that advances is chosen, any would do.        *)
NetAdvance(s, m) ==
  IF Quiet(s, m) THEN m
  ELSE NetStep(s, m, CHOOSE k \in Kernels : NetCan(s, m, k))

NetTrace(s) ==
  LET trace[n \in Nat] == IF n = 0 THEN NetStart ELSE NetAdvance(s, trace[n - 1])
  IN  trace

(* Two steps for each call and for the return are more than any kernel     *)
(* takes.                                                                  *)
Steps(s) == UNION {{k} \X (1 .. 2 * (Len(s[k]) + 1)) : k \in Kernels}

(* Where the program ends.                                                 *)
Settle(s) == NetTrace(s)[Cardinality(Steps(s))]

-----------------------------------------------------------------------------
(* What is required of a program: each end of a buffer or of a pipe is     *)
(* used by one kernel.  The simulator does not check it; the compiler does. *)
Fills(call) == call.op \in {"reserve", "push", "send"}

OneKernelPerEnd ==
  \A j, k \in Kernels : \A s \in Scripts[j], t \in Scripts[k] :
    \A x \in Range(s), y \in Range(t) :
      x.on = y.on /\ (Fills(x) <=> Fills(y)) => j = k

(* Each pipe has one receiver: who calls recv is the only one who may.     *)
SoleReceivers ==
  \A k \in Kernels : \A s \in Scripts[k] : \A x \in Range(s) :
    x.op = "recv" => Receivers[x.on] = {k}
=============================================================================
