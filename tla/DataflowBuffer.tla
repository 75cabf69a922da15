--------------------------- MODULE DataflowBuffer ---------------------------
(***************************************************************************)
(* One DataflowBuffer of the simulator (sim/dfb.py, sim/dfbstate.py) and   *)
(* the two kernels that share it: a ring of Cap slots with a head, a count *)
(* of visible and a count of reserved slots; the block handed out by       *)
(* reserve() and not yet pushed, and the one handed out by wait() and not  *)
(* yet popped; and the automatic push and pop that the buffer performs for *)
(* a kernel that reserves or waits again, or returns, without having       *)
(* released its block.                                                     *)
(*                                                                         *)
(* Kernels are greenlets: one runs until it blocks.  wait() and reserve()  *)
(* are two steps each, because block_if_needed() lets any other kernel run *)
(* between their first half (the automatic release) and their second (the  *)
(* slot): the scheduler resumes the kernel only when can_wait() or         *)
(* can_reserve() holds.  tx.wait() yields too, so a copy is started and    *)
(* finished by two steps.                                                  *)
(*                                                                         *)
(* A call the block's state machine refuses, or push_block() and           *)
(* pop_block() with nothing to release, raises and ends the run: the       *)
(* behaviour stops there, so those calls are guards here.                  *)
(***************************************************************************)
EXTENDS BlockState

CONSTANTS
  Producer,      \* the kernel that reserves and pushes
  Consumer,      \* the kernel that waits and pops; may be the same kernel
  Cap,           \* block_count: number of slots in the ring
  Data,          \* what a written block holds
  Zero,          \* the zero fill of a freshly reserved slot
  Empty,         \* a slot that holds nothing (None)
  NoBlock,       \* no pending block (None)
  MaxReads,      \* bound: copies out of one block in flight at once
  StaleHandles   \* TRUE: a kernel may also pop through a handle whose block
                 \* it has already given back

ASSUME CapAssumption == Cap \in Nat \ {0}
ASSUME ContentAssumption == Zero \notin Data /\ Empty \notin Data /\ Zero # Empty
ASSUME MaxReadsAssumption == MaxReads \in Nat \ {0}
ASSUME StaleAssumption == StaleHandles \in BOOLEAN

Kernels == {Producer, Consumer}
Slots == 0 .. Cap - 1
Content == Data \cup {Zero, Empty}

Block == [sm      : Machine,
          owner   : Kernels,     \* _pending_..._greenlet
          slot    : Slots,       \* the slot whose tensor the block views
          reads   : Nat,         \* copies out of the block in flight
          writing : BOOLEAN]     \* a copy into the block in flight

ASSUME NoBlockAssumption == NoBlock \notin Block

VARIABLES
  head, visible, reserved,  \* DFBState
  buf,                      \* DFBState.buf
  reservedBlock,            \* _pending_reserved_block
  waitedBlock,              \* _pending_waited_block
  popped,                   \* a handle of a popped block is still around
  pc,                       \* where each kernel is
  kernelType                \* the role each kernel was registered with

ring == <<head, visible, reserved, buf>>
blocks == <<reservedBlock, waitedBlock, popped>>
vars == <<ring, blocks, pc, kernelType>>

Init ==
  /\ head = 0
  /\ visible = 0
  /\ reserved = 0
  /\ buf = [s \in Slots |-> Empty]
  /\ reservedBlock = NoBlock
  /\ waitedBlock = NoBlock
  /\ popped = FALSE
  /\ pc = [k \in Kernels |-> "running"]
  /\ kernelType \in [Kernels -> KernelType]

Free == Cap - visible - reserved

BackSlot == (head + visible) % Cap

(* Mutant of CanReserve: one slot too many.                                *)
CanReserveWhenFull == Free >= 0

CanReserve == Free >= 1

CanWait == visible >= 1

NewBlock(acquisition, k, slot) ==
  [sm      |-> Initialize(acquisition, kernelType[k]),
   owner   |-> k,
   slot    |-> slot,
   reads   |-> 0,
   writing |-> FALSE]

-----------------------------------------------------------------------------
(* Mutant of MayPush: the block's state machine is not asked.              *)
MayPushUnwritten == reserved >= 1

(* push_block() and pop_block().  They act on the buffer's pending block,  *)
(* whichever handle they were called through, and skip the state machine   *)
(* when there is none.                                                     *)
MayPush ==
  /\ reservedBlock # NoBlock => AcceptsPush(reservedBlock.sm)
  /\ reserved >= 1

MayPop ==
  /\ waitedBlock # NoBlock => AcceptsPop(waitedBlock.sm)
  /\ visible >= 1

PushBlock ==
  /\ MayPush
  /\ reservedBlock' = NoBlock
  /\ reserved' = reserved - 1
  /\ visible' = visible + 1
  /\ UNCHANGED <<head, buf, waitedBlock, popped>>

(* Mutants of PopBlock: the head does not wrap; the pending block is       *)
(* kept; the slot is not emptied.                                          *)
PopBlockPastTheEnd ==
  /\ MayPop
  /\ waitedBlock' = NoBlock
  /\ buf' = [buf EXCEPT ![head] = Empty]
  /\ head' = head + 1
  /\ visible' = visible - 1
  /\ popped' = TRUE
  /\ UNCHANGED <<reserved, reservedBlock>>

PopBlockKeepsPending ==
  /\ MayPop
  /\ buf' = [buf EXCEPT ![head] = Empty]
  /\ head' = (head + 1) % Cap
  /\ visible' = visible - 1
  /\ popped' = TRUE
  /\ UNCHANGED <<reserved, reservedBlock, waitedBlock>>

PopBlockKeepsSlot ==
  /\ MayPop
  /\ waitedBlock' = NoBlock
  /\ head' = (head + 1) % Cap
  /\ visible' = visible - 1
  /\ popped' = TRUE
  /\ UNCHANGED <<buf, reserved, reservedBlock>>

PopBlock ==
  /\ MayPop
  /\ waitedBlock' = NoBlock
  /\ buf' = [buf EXCEPT ![head] = Empty]
  /\ head' = (head + 1) % Cap
  /\ visible' = visible - 1
  /\ popped' = TRUE
  /\ UNCHANGED <<reserved, reservedBlock>>

(* push_block() immediately followed by pop_block().                       *)
PushAndPopBlock ==
  /\ MayPush
  /\ MayPop
  /\ reservedBlock' = NoBlock
  /\ waitedBlock' = NoBlock
  /\ reserved' = reserved - 1
  /\ buf' = [buf EXCEPT ![head] = Empty]
  /\ head' = (head + 1) % Cap
  /\ popped' = TRUE
  /\ UNCHANGED visible

(* The tests of auto_push_block() and auto_pop_block(): there is a pending *)
(* block and the running greenlet is the one that acquired it.             *)
HasReserved(k) == reservedBlock # NoBlock /\ reservedBlock.owner = k

HasWaited(k) == waitedBlock # NoBlock /\ waitedBlock.owner = k

AutoPushBlock(k) ==
  IF HasReserved(k) THEN PushBlock ELSE UNCHANGED <<ring, blocks>>

(* Mutant of AutoPopBlock: whose block is pending is not asked.            *)
AutoPopOfAnyone(k) ==
  IF waitedBlock # NoBlock THEN PopBlock ELSE UNCHANGED <<ring, blocks>>

AutoPopBlock(k) ==
  IF HasWaited(k) THEN PopBlock ELSE UNCHANGED <<ring, blocks>>

-----------------------------------------------------------------------------
(* reserve(): up to the blocking point, then from it.                      *)
ReserveBegin(k) ==
  /\ k = Producer
  /\ pc[k] = "running"
  /\ AutoPushBlock(k)
  /\ pc' = [pc EXCEPT ![k] = "reserve"]
  /\ UNCHANGED kernelType

ReserveEnd(k) ==
  /\ pc[k] = "reserve"
  /\ CanReserve
  /\ buf' = [buf EXCEPT ![BackSlot] = Zero]
  /\ reserved' = reserved + 1
  /\ reservedBlock' = NewBlock("RESERVE", k, BackSlot)
  /\ pc' = [pc EXCEPT ![k] = "running"]
  /\ UNCHANGED <<head, visible, waitedBlock, popped, kernelType>>

(* wait(): likewise.                                                       *)
WaitBegin(k) ==
  /\ k = Consumer
  /\ pc[k] = "running"
  /\ AutoPopBlock(k)
  /\ pc' = [pc EXCEPT ![k] = "wait"]
  /\ UNCHANGED kernelType

WaitEnd(k) ==
  /\ pc[k] = "wait"
  /\ CanWait
  /\ waitedBlock' = NewBlock("WAIT", k, head)
  /\ pc' = [pc EXCEPT ![k] = "running"]
  /\ UNCHANGED <<ring, reservedBlock, popped, kernelType>>

(* Block.push() and Block.pop() through the handle of the pending block.   *)
Push(k) ==
  /\ pc[k] = "running"
  /\ HasReserved(k)
  /\ PushBlock
  /\ UNCHANGED <<pc, kernelType>>

Pop(k) ==
  /\ pc[k] = "running"
  /\ HasWaited(k)
  /\ PopBlock
  /\ UNCHANGED <<pc, kernelType>>

(* Block.pop() through a handle already popped, with no block pending: for *)
(* instance the end of a "with" statement whose body popped the block.     *)
StalePop(k) ==
  /\ StaleHandles
  /\ k = Consumer
  /\ pc[k] = "running"
  /\ popped
  /\ waitedBlock = NoBlock
  /\ PopBlock
  /\ UNCHANGED <<pc, kernelType>>

(* Mutant of Return: only the reserved block is released.                  *)
ReturnWithoutPop(k) ==
  /\ pc[k] = "running"
  /\ AutoPushBlock(k)
  /\ pc' = [pc EXCEPT ![k] = "done"]
  /\ UNCHANGED kernelType

(* The wrapper of the kernel function (program.py, _tagged) releases what  *)
(* is still pending when the function returns.                             *)
Return(k) ==
  /\ pc[k] = "running"
  /\ IF HasReserved(k) /\ HasWaited(k) THEN PushAndPopBlock
     ELSE IF HasReserved(k) THEN PushBlock
     ELSE AutoPopBlock(k)
  /\ pc' = [pc EXCEPT ![k] = "done"]
  /\ UNCHANGED kernelType

(* What is asked of the buffer when all kernels have returned.             *)
ValidateNoPendingBlocks == reservedBlock = NoBlock /\ waitedBlock = NoBlock

-----------------------------------------------------------------------------
(* What a kernel does with the block b it holds; after is the same block   *)
(* after the step.                                                         *)
StartCopyOut(b, after) ==
  /\ b.reads < MaxReads
  /\ Accepts(b.sm, "copy_src")
  /\ after = [b EXCEPT !.sm = Transition(@, "copy_src"), !.reads = @ + 1]
  /\ UNCHANGED buf

FinishCopyOut(b, after) ==
  /\ b.reads > 0
  /\ Accepts(b.sm, "tx_wait")
  /\ after = [b EXCEPT !.sm = Transition(@, "tx_wait"), !.reads = @ - 1]
  /\ UNCHANGED buf

StartCopyIn(b, after) ==
  /\ Accepts(b.sm, "copy_dst")
  /\ after = [b EXCEPT !.sm = Transition(@, "copy_dst"), !.writing = TRUE]
  /\ UNCHANGED buf

FinishCopyIn(b, after) ==
  /\ b.writing
  /\ Accepts(b.sm, "tx_wait")
  /\ after = [b EXCEPT !.sm = Transition(@, "tx_wait"), !.writing = FALSE]
  /\ \E v \in Data : buf' = [buf EXCEPT ![b.slot] = v]

(* b.store(...): the block is the destination.                             *)
StoreInto(b, after) ==
  /\ b.sm.access \notin {"NAW", "ROR", "OS"}
  /\ Accepts(b.sm, "store_dst")
  /\ after = [b EXCEPT !.sm = Transition(@, "store_dst")]
  /\ \E v \in Data : buf' = [buf EXCEPT ![b.slot] = v]

(* The block is an operand, or the source of a store: only wait() blocks   *)
(* of compute kernels are tracked (BlockProtocol has the details).         *)
ReadOperand(b, after) ==
  /\ b.sm.acquisition = "WAIT"
  /\ \E op \in {"assign_src", "store_src"} :
       /\ Accepts(b.sm, op)
       /\ after = [b EXCEPT !.sm = Transition(@, op)]
  /\ UNCHANGED buf

UseBlock(b, after) ==
  \/ StartCopyOut(b, after)
  \/ FinishCopyOut(b, after)
  \/ StartCopyIn(b, after)
  \/ FinishCopyIn(b, after)
  \/ StoreInto(b, after)
  \/ ReadOperand(b, after)

UseReserved(k) ==
  /\ pc[k] = "running"
  /\ HasReserved(k)
  /\ UseBlock(reservedBlock, reservedBlock')
  /\ UNCHANGED <<head, visible, reserved, waitedBlock, popped,
                 pc, kernelType>>

UseWaited(k) ==
  /\ pc[k] = "running"
  /\ HasWaited(k)
  /\ UseBlock(waitedBlock, waitedBlock')
  /\ UNCHANGED <<head, visible, reserved, reservedBlock, popped,
                 pc, kernelType>>

Next ==
  \E k \in Kernels :
    \/ ReserveBegin(k) \/ ReserveEnd(k)
    \/ WaitBegin(k) \/ WaitEnd(k)
    \/ Push(k) \/ Pop(k) \/ StalePop(k)
    \/ UseReserved(k) \/ UseWaited(k)
    \/ Return(k)

Spec == Init /\ [][Next]_vars

-----------------------------------------------------------------------------
TypeOK ==
  /\ head \in Slots
  /\ visible \in 0 .. Cap
  /\ reserved \in 0 .. Cap
  /\ buf \in [Slots -> Content]
  /\ reservedBlock \in Block \cup {NoBlock}
  /\ waitedBlock \in Block \cup {NoBlock}
  /\ popped \in BOOLEAN
  /\ pc \in [Kernels -> {"running", "reserve", "wait", "done"}]
  /\ kernelType \in [Kernels -> KernelType]

(* The i-th slot of the ring counted from the head.                        *)
Slot(i) == (head + i) % Cap

(* The counters never promise more than the ring holds, and exactly one    *)
(* slot is reserved while a reserved block is out: back_slot() ignores the *)
(* reserved count, so a second reservation would be given the same slot.   *)
CountersMatchHandles ==
  /\ visible + reserved <= Cap
  /\ reserved = IF reservedBlock # NoBlock THEN 1 ELSE 0

(* The producer and the consumer never hold the same slot.                 *)
SlotsAreExclusive ==
  reservedBlock # NoBlock =>
    \A i \in 0 .. visible - 1 : reservedBlock.slot # Slot(i)

(* A block keeps pointing at the right slot however far the other kernel   *)
(* has moved the ring since the block was handed out: the reserved block   *)
(* at the first slot after the visible ones and never at one of these, and *)
(* the waited block at the head, which is still visible.                   *)
HandlesFollowRing ==
  /\ reservedBlock # NoBlock => reservedBlock.slot = BackSlot
  /\ waitedBlock # NoBlock => waitedBlock.slot = head /\ visible >= 1
  /\ SlotsAreExclusive

(* Every visible slot holds written data, never the zero fill and never    *)
(* None (wait() asserts "Visible slot has no data - internal               *)
(* inconsistency"), and a slot nobody holds is empty.                      *)
SlotsMatchCounters ==
  \A i \in Slots :
    /\ i < visible => buf[Slot(i)] \in Data
    /\ i >= visible + reserved => buf[Slot(i)] = Empty

(* When both kernels have returned, no block is left pending: the errors   *)
(* of validate_no_pending_blocks that call it "a simulator bug" are never  *)
(* raised.                                                                 *)
NothingPendingAtExit ==
  (\A k \in Kernels : pc[k] = "done") => ValidateNoPendingBlocks

(* What a kernel has at its end of the buffer: its place in its own code,  *)
(* its pending block, and what it reads in that block.                     *)
Seen(b) == IF b = NoBlock THEN Empty ELSE buf[b.slot]

ReservedEnd == <<pc[Producer], reservedBlock, Seen(reservedBlock)>>

WaitedEnd == <<pc[Consumer], waitedBlock, Seen(waitedBlock)>>

(* Whatever one kernel does at its end of the buffer (acquires, uses,      *)
(* releases, blocks, returns and has the wrapper release for it), the      *)
(* other kernel's block, and the data in it, stay as they are.             *)
OneEndAtATime ==
  [][Producer # Consumer => UNCHANGED ReservedEnd \/ UNCHANGED WaitedEnd]_vars

(* pop_block documents (dfb.py:1203) that it raises DFBContractError "if   *)
(* no slot was waited on".                                                 *)
PopsOnlyWaitedSlot ==
  [][head' # head => waitedBlock # NoBlock]_vars

-----------------------------------------------------------------------------
(* The buffer implements BlockChannel: its queue is the visible slots from *)
(* the head on, and its oldest block has been read when the state of the   *)
(* waited block says that a read of it has started since it was last       *)
(* written.                                                                *)
VisibleBlocks == [i \in 1 .. visible |-> buf[Slot(i - 1)]]

OldestWasRead ==
  /\ waitedBlock # NoBlock
  /\ waitedBlock.sm.access \in {"ROR", "RW", "NAW"}

Channel == INSTANCE BlockChannel WITH queue <- VisibleBlocks, seen <- OldestWasRead

ImplementsChannel == Channel!Spec
=============================================================================
