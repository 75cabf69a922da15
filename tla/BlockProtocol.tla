--------------------------- MODULE BlockProtocol ---------------------------
(***************************************************************************)
(* One block between its acquisition and its release, with everything a    *)
(* kernel can do to it: start copies from and into it and wait for them in *)
(* any order (sim/copy.py), store into it, store it into another block,    *)
(* use it as an operand of an expression whose result is stored later, and *)
(* push or pop it (sim/dfb.py, class Block).  The module is about the      *)
(* state machine's promise: whatever legal sequence of calls is made, the  *)
(* machine's state agrees with the copies really in flight, and the block  *)
(* is released only when nobody is using it.                               *)
(*                                                                         *)
(* reads, writing, written, garbage, used and stored are not fields of the *)
(* block: they are what is really happening to its data, which the         *)
(* properties compare with what the machine believes.                      *)
(***************************************************************************)
EXTENDS BlockState

CONSTANT MaxReads   \* bound: copies from the block in flight at once
ASSUME MaxReadsAssumption == MaxReads \in Nat \ {0}

VARIABLES
  sm,         \* Block._sm
  confirm,    \* Block._store_confirmation_pending (and membership in the
              \* buffer's _pending_confirmations: they change together)
  temporary,  \* a temporary block with this one in _source_blocks is alive
  reads,      \* copies out of the block started and not yet waited for
  writing,    \* a copy into the block started and not yet waited for
  written,    \* the block's tensor holds data, not the zero fill
  garbage,    \* some call read the block while it held no readable data
  used,       \* the block was an operand while it was held
  stored      \* data read from the block reached a store

ghosts == <<reads, writing, written, garbage, used, stored>>
vars == <<sm, confirm, temporary, ghosts>>

Init ==
  \E acquisition \in BlockAcquisition, kernel \in KernelType :
    /\ sm = Initialize(acquisition, kernel)
    /\ confirm = FALSE
    /\ temporary = FALSE
    /\ reads = 0
    /\ writing = FALSE
    /\ written = (acquisition = "WAIT")
    /\ garbage = FALSE
    /\ used = FALSE
    /\ stored = FALSE

(* A wait() block of a compute kernel is the only kind whose reads the     *)
(* simulator tracks.                                                       *)
Tracked == sm.acquisition = "WAIT" /\ sm.kernel = "COMPUTE"

(* What reading the tensor now would return to the caller.                 *)
Readable == written /\ ~writing /\ sm.access # "OS"

-----------------------------------------------------------------------------
(* CopyTransaction.__init__ with the block as source.                      *)
MarkCopyAsSource ==
  /\ reads < MaxReads
  /\ Accepts(sm, "copy_src")
  /\ sm' = Transition(sm, "copy_src")
  /\ reads' = reads + 1
  /\ garbage' = (garbage \/ ~Readable)
  /\ UNCHANGED <<confirm, temporary, writing, written, used, stored>>

(* CopyTransaction.__init__ with the block as destination.                 *)
MarkCopyAsDest ==
  /\ Accepts(sm, "copy_dst")
  /\ sm' = Transition(sm, "copy_dst")
  /\ writing' = TRUE
  /\ UNCHANGED <<confirm, temporary, reads, written, garbage, used, stored>>

(* CopyTransaction.wait of one of the copies in flight: the transfer is    *)
(* done and the machine told.  A second wait() of the same transaction     *)
(* returns at once and changes nothing.                                    *)
MarkTxWaitComplete ==
  /\ Accepts(sm, "tx_wait")
  /\ sm' = Transition(sm, "tx_wait")
  /\ \/ /\ reads > 0
        /\ reads' = reads - 1
        /\ UNCHANGED <<writing, written>>
     \/ /\ writing
        /\ writing' = FALSE
        /\ written' = TRUE
        /\ UNCHANGED reads
  /\ UNCHANGED <<confirm, temporary, garbage, used, stored>>

(* The block is an operand of an expression.  Only a tracked block is      *)
(* remembered by the result; nothing checks that the others are readable.  *)
Operand(mark) ==
  /\ temporary' = (temporary \/ Tracked)
  /\ garbage' = (garbage \/ ~Readable)
  /\ used' = (used \/ (Tracked /\ sm.access # "OS"))
  /\ IF Tracked /\ mark
     THEN /\ Accepts(sm, "assign_src")
          /\ sm' = Transition(sm, "assign_src")
          /\ confirm' = TRUE
     ELSE UNCHANGED <<sm, confirm>>
  /\ UNCHANGED <<reads, writing, written, stored>>

(* Block._track_sources_for_result (the operators of Block) marks a source *)
(* the machine still allows to be read; track_source_blocks (ttl.math and  *)
(* ttl.block functions) only one that was not read since it was written.   *)
UseAsOperand == Operand(Validate(sm, "STORE_SRC"))

UseInFunction == Operand(sm.access = "MR")

(* The temporary goes out of scope without having been stored.             *)
DropTemporary ==
  /\ temporary
  /\ temporary' = FALSE
  /\ UNCHANGED <<sm, confirm, ghosts>>

(* mark_store_read_complete, called by store() on each source block.       *)
MarkStoreReadComplete ==
  /\ IF sm.access # "OS"
     THEN /\ Accepts(sm, "store_src")
          /\ sm' = Transition(sm, "store_src")
     ELSE UNCHANGED sm
  /\ confirm' = FALSE

(* other.store(block): the block itself is the source.                     *)
StoreFromBlock ==
  /\ garbage' = (garbage \/ ~Readable)
  /\ IF Tracked /\ Validate(sm, "STORE_SRC")
     THEN MarkStoreReadComplete
     ELSE UNCHANGED <<sm, confirm>>
  /\ stored' = TRUE
  /\ UNCHANGED <<temporary, reads, writing, written, used>>

(* other.store(t) with t the temporary the block contributed to.           *)
StoreFromTemporary ==
  /\ temporary
  /\ temporary' = FALSE
  /\ IF Validate(sm, "STORE_SRC") \/ confirm
     THEN MarkStoreReadComplete
     ELSE UNCHANGED <<sm, confirm>>
  /\ stored' = TRUE
  /\ UNCHANGED <<reads, writing, written, garbage, used>>

(* block.store(other): _check_can_write, then mark_store_complete.         *)
MarkStoreComplete ==
  /\ sm.access \notin {"NAW", "ROR", "OS"}
  /\ Accepts(sm, "store_dst")
  /\ sm' = Transition(sm, "store_dst")
  /\ written' = TRUE
  /\ UNCHANGED <<confirm, temporary, reads, writing, garbage, used, stored>>

(* Mutant of Release: releasing the block settles its confirmation.        *)
ReleaseConfirms ==
  /\ AcceptsPush(sm) \/ AcceptsPop(sm)
  /\ sm' = Close(sm)
  /\ confirm' = FALSE
  /\ UNCHANGED <<temporary, ghosts>>

Release ==
  /\ AcceptsPush(sm) \/ AcceptsPop(sm)
  /\ sm' = Close(sm)
  /\ UNCHANGED <<confirm, temporary, ghosts>>

(* The block has been released and no expression remembers it.             *)
Released ==
  /\ sm.access = "OS"
  /\ ~temporary
  /\ UNCHANGED vars

Next ==
  \/ MarkCopyAsSource
  \/ MarkCopyAsDest
  \/ MarkTxWaitComplete
  \/ UseAsOperand
  \/ UseInFunction
  \/ DropTemporary
  \/ StoreFromBlock
  \/ StoreFromTemporary
  \/ MarkStoreComplete
  \/ Release
  \/ Released

Spec == Init /\ [][Next]_vars

-----------------------------------------------------------------------------
(* Every field has its type; the ghost counters stay in their bounds.      *)
TypeOK ==
  /\ sm \in Machine
  /\ confirm \in BOOLEAN
  /\ temporary \in BOOLEAN
  /\ reads \in 0 .. MaxReads
  /\ writing \in BOOLEAN
  /\ written \in BOOLEAN
  /\ garbage \in BOOLEAN
  /\ used \in BOOLEAN
  /\ stored \in BOOLEAN

(* transition() comments its last error "internal inconsistency:           *)
(* validate() should have failed first": an operation the machine says it  *)
(* expects always has a transition, for every operation key the code can   *)
(* pass with it, so that error is unreachable.                             *)
ExpectedIsAccepted ==
  /\ \A op \in OperationKey :
       Validate(sm, ExpectedFor(op)) /\ (op = "assign_src" => Tracked)
         => Accepts(sm, op)
  /\ Validate(sm, "PUSH") => AcceptsPush(sm)
  /\ Validate(sm, "POP") => AcceptsPop(sm)

(* The machine's state is about the copies really in flight: ROR(N) means  *)
(* exactly N copies out of the block, NAW exactly one copy into it, and    *)
(* every other state none at all.                                          *)
StateMatchesCopies ==
  /\ sm.access = "ROR" => sm.ror = reads /\ reads > 0 /\ ~writing
  /\ sm.access = "NAW" => writing /\ reads = 0
  /\ sm.access \notin {"ROR", "NAW"} => reads = 0 /\ ~writing

(* A block is never handed to the other side while a copy is using its     *)
(* slot, and a reserved block never before it was written.                 *)
ReleasedIsQuiet ==
  [][sm.access # "OS" /\ sm'.access = "OS"
       => reads = 0 /\ ~writing /\ written]_vars

(* Data that a compute kernel read and then lost is reported: a block that *)
(* was an operand while it was held, and whose data never reached a store, *)
(* is still awaiting confirmation when the run ends (and then              *)
(* validate_no_pending_blocks raises), whichever of the two tracking       *)
(* functions saw it and even if it was released in between.                *)
LostReadIsReported == used /\ ~stored => confirm

(* store() marks its sources before it writes: as long as a confirmation   *)
(* is pending on a block still held, that mark is accepted, so a source of *)
(* the temporary does not refuse its store.                                *)
ConfirmationIsAccepted ==
  confirm /\ sm.access # "OS" => Accepts(sm, "store_src")

(* blockstate.py:19-21 says of a block in MW that it "contains garbage     *)
(* data, must be written to", and :31-32 that OS is out of scope: no call  *)
(* that is accepted should read a block without readable data.             *)
NeverReadsGarbage == ~garbage
=============================================================================
