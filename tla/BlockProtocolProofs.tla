------------------------ MODULE BlockProtocolProofs ------------------------
(***************************************************************************)
(* What BlockProtocol promises, for every bound on the copies in flight:   *)
(* the type invariant, the agreement of the machine's state with the       *)
(* copies, the quiet release, and the confirmation of every read.          *)
(*                                                                         *)
(* None of them is inductive alone.  IInv adds what the table implies (the *)
(* expected set is the one of the access state), what was written, and     *)
(* that a tracked block is in RW only after a read that is either awaiting *)
(* confirmation or was stored.                                             *)
(***************************************************************************)
EXTENDS BlockProtocol, BlockStateProofs

WrittenInv == sm.access \in {"MR", "RW", "ROR"} => written

ConfirmInv ==
  /\ confirm => Tracked
  /\ Tracked /\ sm.access = "RW" => confirm \/ stored
  /\ used => Tracked

IInv ==
  /\ TypeOK
  /\ Consistent(sm)
  /\ TracksCopies(sm, reads, writing)
  /\ WrittenInv
  /\ ConfirmInv
  /\ LostReadIsReported

(* The states of a tracked block in which store_src and assign_src are     *)
(* accepted: all but the released one.                                     *)
LEMMA TrackedReads ==
  ASSUME Consistent(sm), Tracked, sm.access # "OS"
  PROVE  /\ sm.access \in {"MR", "RW"}
         /\ Validate(sm, "STORE_SRC")
         /\ Accepts(sm, "store_src")
<1>1. sm.acquisition = "WAIT" /\ sm.kernel = "COMPUTE"
  BY DEF Tracked
<1>2. sm.access \in {"MR", "RW"}
  BY <1>1 DEF Consistent, Machine, AccessState
<1>3. "STORE_SRC" \in ExpectedIn(sm.acquisition, sm.kernel, sm.access)
  BY <1>1, <1>2 DEF ExpectedIn
<1>4. Validate(sm, "STORE_SRC")
  BY <1>3 DEF Validate, Consistent
<1>5. StateTransitions(sm.acquisition, sm.kernel, "store_src", sm.access)
        = Goes("RW", {"STORE_SRC", "STORE", "POP"})
  BY <1>1, <1>2 DEF StateTransitions, WaitCompute
<1>6. Goes("RW", {"STORE_SRC", "STORE", "POP"}) # NoEntry
  BY DEF Goes, NoEntry
<1> QED
  BY <1>2, <1>4, <1>5, <1>6 DEF Accepts, ExpectedFor

(* A block fresh from reserve() or wait() satisfies the invariant.         *)
LEMMA InitIInv == Init => IInv
<1> SUFFICES ASSUME Init PROVE IInv
  OBVIOUS
<1>1. PICK a \in BlockAcquisition, k \in KernelType :
        /\ sm = Initialize(a, k)
        /\ written = (a = "WAIT")
  BY DEF Init
<1>2. /\ Consistent(sm) /\ TracksCopies(sm, 0, FALSE)
      /\ sm.access = IF a = "RESERVE" THEN "MW" ELSE "MR"
  <2>1. LET m == Initialize(a, k)
        IN  /\ Consistent(m) /\ TracksCopies(m, 0, FALSE)
            /\ m.access = IF a = "RESERVE" THEN "MW" ELSE "MR"
    BY InitializeConsistent
  <2> QED
    BY <1>1, <2>1
<1>3. confirm = FALSE /\ temporary = FALSE /\ reads = 0 /\ writing = FALSE
      /\ garbage = FALSE /\ used = FALSE /\ stored = FALSE
  BY DEF Init
<1>4. TypeOK
  <2>1. written \in BOOLEAN
    BY <1>1
  <2>2. sm \in Machine /\ reads \in 0 .. MaxReads
    BY <1>2, <1>3, MaxReadsAssumption DEF Consistent
  <2> QED
    BY <1>3, <2>1, <2>2 DEF TypeOK
<1>5. WrittenInv
  BY <1>1, <1>2 DEF WrittenInv, BlockAcquisition
<1>6. ConfirmInv
  BY <1>2, <1>3 DEF ConfirmInv
<1>7. LostReadIsReported
  BY <1>3 DEF LostReadIsReported
<1> QED
  BY <1>2, <1>3, <1>4, <1>5, <1>6, <1>7 DEF IInv

-----------------------------------------------------------------------------
(* Each step keeps IInv.  First the steps that only start and end copies.  *)
LEMMA CopyStepsKeepIInv ==
  ASSUME IInv, MarkCopyAsSource \/ MarkCopyAsDest \/ MarkTxWaitComplete
  PROVE  IInv'
<1> USE DEF IInv
<1>0. reads \in Nat /\ writing \in BOOLEAN /\ sm.ror \in Nat
  BY MaxReadsAssumption DEF TypeOK, Machine
<1>1. CASE MarkCopyAsSource
  <2>1. Keeps(sm, sm', reads + 1, writing) /\ sm.access \in {"MR", "RW", "ROR"}
        /\ sm'.access = "ROR"
    BY <1>0, <1>1, CopySrcStep DEF MarkCopyAsSource
  <2>2. reads' = reads + 1 /\ writing' = writing
    BY <1>1 DEF MarkCopyAsSource
  <2>3. TypeOK'
    BY <1>0, <1>1, <2>1, MaxReadsAssumption DEF MarkCopyAsSource, TypeOK, Keeps, Consistent
  <2>4. WrittenInv' /\ LostReadIsReported'
    BY <1>1, <2>1 DEF MarkCopyAsSource, WrittenInv, LostReadIsReported
  <2>5. ConfirmInv'
    BY <1>1, <2>1 DEF MarkCopyAsSource, ConfirmInv, Tracked, Keeps
  <2> QED
    BY <2>1, <2>2, <2>3, <2>4, <2>5 DEF Keeps
<1>2. CASE MarkCopyAsDest
  <2>1. Keeps(sm, sm', reads, TRUE) /\ sm'.access = "NAW"
    BY <1>0, <1>2, CopyDstStep DEF MarkCopyAsDest
  <2>2. reads' = reads /\ writing' = TRUE
    BY <1>2 DEF MarkCopyAsDest
  <2>3. TypeOK'
    BY <1>2, <2>1 DEF MarkCopyAsDest, TypeOK, Keeps, Consistent
  <2>4. WrittenInv' /\ LostReadIsReported'
    BY <1>2, <2>1 DEF MarkCopyAsDest, WrittenInv, LostReadIsReported
  <2>5. ConfirmInv'
    BY <1>2, <2>1 DEF MarkCopyAsDest, ConfirmInv, Tracked, Keeps
  <2> QED
    BY <2>1, <2>2, <2>3, <2>4, <2>5 DEF Keeps
<1>3. CASE MarkTxWaitComplete
  <2>1. sm.kernel = "DM" /\ Accepts(sm, "tx_wait") /\ sm' = Transition(sm, "tx_wait")
    BY <1>3, TxWait DEF MarkTxWaitComplete
  <2>2. CASE reads > 0 /\ reads' = reads - 1 /\ UNCHANGED <<writing, written>>
    <3>1. Keeps(sm, sm', reads - 1, writing) /\ sm.access = "ROR"
          /\ sm'.access \in {"ROR", "RW"}
      BY <1>0, <2>1, <2>2, TxWaitReadStep
    <3>2. TypeOK'
      BY <1>0, <1>3, <2>2, <3>1, MaxReadsAssumption
      DEF MarkTxWaitComplete, TypeOK, Keeps, Consistent
    <3>3. WrittenInv' /\ LostReadIsReported'
      BY <1>3, <2>2, <3>1 DEF MarkTxWaitComplete, WrittenInv, LostReadIsReported
    <3>4. ConfirmInv'
      BY <1>3, <2>1, <3>1 DEF MarkTxWaitComplete, ConfirmInv, Tracked, Keeps
    <3> QED
      BY <2>2, <3>1, <3>2, <3>3, <3>4 DEF Keeps
  <2>3. CASE writing /\ writing' = FALSE /\ written' = TRUE /\ UNCHANGED reads
    <3>1. Keeps(sm, sm', reads, FALSE) /\ sm'.access = "MR"
      BY <1>0, <2>1, <2>3, TxWaitWriteStep
    <3>2. TypeOK'
      BY <1>3, <2>3, <3>1 DEF MarkTxWaitComplete, TypeOK, Keeps, Consistent
    <3>3. WrittenInv' /\ LostReadIsReported'
      BY <1>3, <2>3 DEF MarkTxWaitComplete, WrittenInv, LostReadIsReported
    <3>4. ConfirmInv'
      BY <1>3, <2>1, <3>1 DEF MarkTxWaitComplete, ConfirmInv, Tracked, Keeps
    <3> QED
      BY <2>3, <3>1, <3>2, <3>3, <3>4 DEF Keeps
  <2> QED
    BY <1>3, <2>2, <2>3 DEF MarkTxWaitComplete
<1> QED
  BY <1>1, <1>2, <1>3

(* Being an operand keeps it: what is marked is put up for confirmation.   *)
LEMMA OperandKeepsIInv ==
  ASSUME IInv, UseAsOperand \/ UseInFunction
  PROVE  IInv'
<1> USE DEF IInv
<1>0. reads \in Nat /\ writing \in BOOLEAN /\ sm.ror \in Nat
  BY MaxReadsAssumption DEF TypeOK, Machine
<1>1. PICK mark \in BOOLEAN :
        /\ Operand(mark)
        /\ Tracked /\ sm.access # "OS" /\ ~mark => sm.access = "RW"
  <2>1. CASE UseAsOperand
    <3>1. Operand(Validate(sm, "STORE_SRC")) /\ Validate(sm, "STORE_SRC") \in BOOLEAN
      BY <2>1 DEF UseAsOperand, Validate
    <3> QED
      BY <3>1, TrackedReads
  <2>2. CASE UseInFunction
    <3>1. Operand(sm.access = "MR") /\ (sm.access = "MR") \in BOOLEAN
      BY <2>2 DEF UseInFunction
    <3> QED
      BY <3>1, TrackedReads
  <2> QED
    BY <2>1, <2>2
<1>2. UNCHANGED <<reads, writing, written, stored>>
  BY <1>1 DEF Operand
<1>3. CASE Tracked /\ mark
  <2>1. Accepts(sm, "assign_src") /\ sm' = Transition(sm, "assign_src") /\ confirm' = TRUE
    BY <1>1, <1>3 DEF Operand
  <2>2. Keeps(sm, sm', reads, writing) /\ sm.access \in {"MR", "RW"} /\ sm'.access = "RW"
    BY <1>0, <2>1, ReadSrcStep
  <2>3. TypeOK'
    BY <1>1, <1>2, <2>1, <2>2 DEF Operand, TypeOK, Keeps, Consistent
  <2>4. WrittenInv' /\ LostReadIsReported'
    BY <1>2, <2>1, <2>2 DEF WrittenInv, LostReadIsReported
  <2>5. ConfirmInv'
    BY <1>3, <2>1, <2>2 DEF ConfirmInv, Tracked, Keeps
  <2> QED
    BY <1>2, <2>2, <2>3, <2>4, <2>5 DEF Keeps
<1>4. CASE ~(Tracked /\ mark)
  <2>1. UNCHANGED <<sm, confirm>>
    BY <1>1, <1>4 DEF Operand
  <2>2. used' = (used \/ (Tracked /\ sm.access # "OS"))
    BY <1>1 DEF Operand
  <2>3. TypeOK'
    BY <1>1, <1>2, <2>1, <2>2 DEF Operand, TypeOK, Tracked
  <2>4. Tracked' = Tracked
    BY <2>1 DEF Tracked
  <2>5. WrittenInv' /\ ConfirmInv'
    BY <1>2, <2>1, <2>2, <2>4 DEF WrittenInv, ConfirmInv
  <2>6. LostReadIsReported'
    BY <1>1, <1>2, <1>4, <2>1, <2>2 DEF LostReadIsReported, ConfirmInv
  <2> QED
    BY <1>2, <2>1, <2>3, <2>5, <2>6
<1> QED
  BY <1>3, <1>4

(* Stores from the block, from a temporary of it and into it keep it.      *)
LEMMA StoreStepsKeepIInv ==
  ASSUME IInv, StoreFromBlock \/ StoreFromTemporary \/ MarkStoreComplete
  PROVE  IInv'
<1> USE DEF IInv
<1>0. reads \in Nat /\ writing \in BOOLEAN /\ sm.ror \in Nat
  BY MaxReadsAssumption DEF TypeOK, Machine
<1>1. CASE StoreFromBlock \/ StoreFromTemporary
  <2>1. /\ UNCHANGED <<reads, writing, written, used>>
        /\ stored' = TRUE
        /\ temporary' \in BOOLEAN /\ garbage' \in BOOLEAN
        /\ MarkStoreReadComplete \/ UNCHANGED <<sm, confirm>>
    BY <1>1 DEF StoreFromBlock, StoreFromTemporary, TypeOK
  <2>2. LostReadIsReported'
    BY <2>1 DEF LostReadIsReported
  <2>3. /\ Keeps(sm, sm', reads, writing)
        /\ sm'.access = sm.access \/ (sm.access = "MR" /\ sm'.access = "RW")
        /\ confirm' \in BOOLEAN
        /\ confirm' => confirm
    <3>1. CASE UNCHANGED <<sm, confirm>>
      BY <3>1 DEF Keeps, TypeOK
    <3>2. CASE MarkStoreReadComplete /\ sm.access # "OS"
      <4>1. Accepts(sm, "store_src") /\ sm' = Transition(sm, "store_src") /\ confirm' = FALSE
        BY <3>2 DEF MarkStoreReadComplete
      <4> QED
        BY <1>0, <4>1, ReadSrcStep
    <3>3. CASE MarkStoreReadComplete /\ sm.access = "OS"
      BY <3>3 DEF MarkStoreReadComplete, Keeps
    <3> QED
      BY <2>1, <3>1, <3>2, <3>3
  <2>4. TypeOK'
    BY <2>1, <2>3 DEF TypeOK, Keeps, Consistent
  <2>5. WrittenInv'
    BY <2>1, <2>3 DEF WrittenInv
  <2>6. ConfirmInv'
    BY <2>1, <2>3 DEF ConfirmInv, Tracked, Keeps
  <2> QED
    BY <2>1, <2>2, <2>3, <2>4, <2>5, <2>6 DEF Keeps
<1>2. CASE MarkStoreComplete
  <2>1. Keeps(sm, sm', reads, writing) /\ sm'.access = "MR"
    BY <1>0, <1>2, StoreDstStep DEF MarkStoreComplete
  <2>2. TypeOK'
    BY <1>2, <2>1 DEF MarkStoreComplete, TypeOK, Keeps, Consistent
  <2>3. WrittenInv' /\ LostReadIsReported'
    BY <1>2 DEF MarkStoreComplete, WrittenInv, LostReadIsReported
  <2>4. ConfirmInv'
    BY <1>2, <2>1 DEF MarkStoreComplete, ConfirmInv, Tracked, Keeps
  <2> QED
    BY <1>2, <2>1, <2>2, <2>3, <2>4 DEF MarkStoreComplete, Keeps
<1> QED
  BY <1>1, <1>2

(* push() and pop() keep it: the confirmation outlives the release.        *)
LEMMA ReleaseKeepsIInv ==
  ASSUME IInv, Release
  PROVE  IInv'
<1> USE DEF IInv
<1>0. reads \in Nat /\ writing \in BOOLEAN /\ sm.ror \in Nat
  BY MaxReadsAssumption DEF TypeOK, Machine
<1>1. Keeps(sm, sm', reads, writing) /\ sm'.access = "OS"
  BY <1>0, ReleaseStep DEF Release
<1>2. UNCHANGED <<confirm, temporary, reads, writing, written, garbage, used, stored>>
  BY DEF Release, ghosts
<1>3. TypeOK'
  BY <1>1, <1>2 DEF TypeOK, Keeps, Consistent
<1>4. WrittenInv' /\ LostReadIsReported'
  BY <1>1, <1>2 DEF WrittenInv, LostReadIsReported
<1>5. ConfirmInv'
  BY <1>1, <1>2 DEF ConfirmInv, Tracked, Keeps
<1> QED
  BY <1>1, <1>2, <1>3, <1>4, <1>5 DEF Keeps

(* Every step keeps the invariant.                                         *)
LEMMA NextIInv == IInv /\ [Next]_vars => IInv'
<1> SUFFICES ASSUME IInv, [Next]_vars PROVE IInv'
  OBVIOUS
<1>1. CASE MarkCopyAsSource \/ MarkCopyAsDest \/ MarkTxWaitComplete
  BY <1>1, CopyStepsKeepIInv
<1>2. CASE UseAsOperand \/ UseInFunction
  BY <1>2, OperandKeepsIInv
<1>3. CASE StoreFromBlock \/ StoreFromTemporary \/ MarkStoreComplete
  BY <1>3, StoreStepsKeepIInv
<1>4. CASE Release
  BY <1>4, ReleaseKeepsIInv
<1>5. CASE DropTemporary
  BY <1>5 DEF DropTemporary, IInv, ghosts, TypeOK, WrittenInv, ConfirmInv, Tracked,
              LostReadIsReported
<1>6. CASE UNCHANGED vars
  BY <1>6 DEF vars, IInv, ghosts, TypeOK, WrittenInv, ConfirmInv, Tracked,
              LostReadIsReported
<1> QED
  BY <1>1, <1>2, <1>3, <1>4, <1>5, <1>6 DEF Next, Released

-----------------------------------------------------------------------------
(* The strengthened invariant holds of every behaviour.                    *)
THEOREM Invariance == Spec => []IInv
<1>1. Init => IInv
  BY InitIInv
<1>2. IInv /\ [Next]_vars => IInv'
  BY NextIInv
<1> QED
  BY <1>1, <1>2, PTL DEF Spec

(* Every field of the block and of its clients keeps its type.             *)
THEOREM TypeCorrect == Spec => []TypeOK
<1>1. IInv => TypeOK
  BY DEF IInv
<1> QED
  BY <1>1, Invariance, PTL

(* The state of the machine is about the copies really in flight, however  *)
(* many there are: the count kept in ROR is their number, NAW means one    *)
(* copy into the block and none out of it (blockstate.py, transition).     *)
THEOREM StateTracksCopies == Spec => []StateMatchesCopies
<1>1. IInv => StateMatchesCopies
  BY DEF IInv, TracksCopies, StateMatchesCopies
<1> QED
  BY <1>1, Invariance, PTL

(* An operation the machine says it expects has an entry in the table: the *)
(* error transition() calls an internal inconsistency is unreachable.      *)
LEMMA ExpectedHasEntry ==
  ASSUME Consistent(sm), NEW op \in OperationKey, Validate(sm, ExpectedFor(op)),
         op = "assign_src" => Tracked
  PROVE  Accepts(sm, op)
<1> DEFINE to == StateTransitions(sm.acquisition, sm.kernel, op, sm.access)
<1> USE DEF Goes, NoEntry
<1>1. sm \in Machine /\ ExpectedFor(op) \in ExpectedIn(sm.acquisition, sm.kernel, sm.access)
  BY DEF Validate, Consistent
<1>2. sm.access = "MW" => sm.acquisition = "RESERVE"
  BY DEF Consistent
<1>3. sm.access \in {"ROR", "NAW"} => sm.kernel = "DM"
  BY DEF Consistent
<1>4. CASE sm.acquisition = "WAIT" /\ sm.kernel = "DM"
  <2>1. CountsInRor(sm, op) \/ to # NoEntry
    BY <1>1, <1>2, <1>4
    DEF Machine, AccessState, ExpectedIn, ReleaseOp, RorExpected, OperationKey, ExpectedFor,
        StateTransitions, WaitDM, CountsInRor
  <2> QED
    BY <2>1 DEF Accepts
<1>5. CASE sm.acquisition = "RESERVE" /\ sm.kernel = "DM"
  <2>1. CountsInRor(sm, op) \/ to # NoEntry
    BY <1>1, <1>5
    DEF Machine, AccessState, ExpectedIn, ReleaseOp, RorExpected, OperationKey, ExpectedFor,
        StateTransitions, ReserveDM, CountsInRor
  <2> QED
    BY <2>1 DEF Accepts
<1>6. CASE sm.acquisition = "WAIT" /\ sm.kernel = "COMPUTE"
  <2>1. to # NoEntry
    BY <1>1, <1>2, <1>3, <1>6
    DEF Machine, AccessState, ExpectedIn, ReleaseOp, OperationKey, ExpectedFor,
        StateTransitions, WaitCompute
  <2> QED
    BY <2>1 DEF Accepts
<1>7. CASE sm.acquisition = "RESERVE" /\ sm.kernel = "COMPUTE"
  <2>1. to # NoEntry
    BY <1>1, <1>3, <1>7
    DEF Machine, AccessState, ExpectedIn, ReleaseOp, OperationKey, ExpectedFor,
        StateTransitions, ReserveCompute, Tracked
  <2> QED
    BY <2>1 DEF Accepts
<1> QED
  BY <1>1, <1>4, <1>5, <1>6, <1>7 DEF Machine, BlockAcquisition, KernelType

(* Whatever the block has been through, what it expects it accepts         *)
(* (blockstate.py, validate and transition).                               *)
THEOREM ExpectationsHold == Spec => []ExpectedIsAccepted
<1>1. IInv => ExpectedIsAccepted
  <2> SUFFICES ASSUME IInv PROVE ExpectedIsAccepted
    OBVIOUS
  <2>1. Consistent(sm)
    BY DEF IInv
  <2>2. Validate(sm, "PUSH") => AcceptsPush(sm)
    BY <2>1 DEF Consistent, Machine, AccessState, BlockAcquisition, Validate, AcceptsPush,
                ExpectedIn, ReleaseOp, RorExpected
  <2>3. Validate(sm, "POP") => AcceptsPop(sm)
    BY <2>1 DEF Consistent, Machine, AccessState, BlockAcquisition, Validate, AcceptsPop,
                ExpectedIn, ReleaseOp, RorExpected
  <2> QED
    BY <2>1, <2>2, <2>3, ExpectedHasEntry DEF ExpectedIsAccepted
<1> QED
  BY <1>1, Invariance, PTL

(* A read whose result was lost is still pending confirmation, so that     *)
(* validate_no_pending_blocks reports it.                                  *)
THEOREM LostReads == Spec => []LostReadIsReported
<1>1. IInv => LostReadIsReported
  BY DEF IInv
<1> QED
  BY <1>1, Invariance, PTL

(* A pending confirmation on a block still held can be given: store() does *)
(* not fail half-way on its sources.                                       *)
THEOREM Confirmations == Spec => []ConfirmationIsAccepted
<1>1. IInv => ConfirmationIsAccepted
  BY TrackedReads DEF IInv, ConfirmInv, ConfirmationIsAccepted
<1> QED
  BY <1>1, Invariance, PTL

(* A block leaves the hands of its kernel only when no copy is using it    *)
(* and it holds written data (transition_push, transition_pop).            *)
THEOREM QuietRelease == Spec => ReleasedIsQuiet
<1> DEFINE Quiet == sm.access # "OS" /\ sm'.access = "OS"
                      => reads = 0 /\ ~writing /\ written
<1>1. IInv /\ [Next]_vars => [Quiet]_vars
  <2> SUFFICES ASSUME IInv, Next, sm.access # "OS", sm'.access = "OS"
               PROVE  reads = 0 /\ ~writing /\ written
    OBVIOUS
  <2> USE DEF IInv
  <2>0. reads \in Nat /\ writing \in BOOLEAN
    BY MaxReadsAssumption DEF TypeOK
  <2>1. CASE Release
    BY <2>0, <2>1, ReleaseStep DEF Release, WrittenInv
  <2>2. ~(MarkCopyAsSource \/ MarkCopyAsDest \/ MarkTxWaitComplete)
    <3>1. ~MarkCopyAsSource
      BY <2>0, CopySrcStep DEF MarkCopyAsSource
    <3>2. ~MarkCopyAsDest
      BY <2>0, CopyDstStep DEF MarkCopyAsDest
    <3>3. ~MarkTxWaitComplete
      BY <2>0, TxWaitReadStep, TxWaitWriteStep DEF MarkTxWaitComplete
    <3> QED
      BY <3>1, <3>2, <3>3
  <2>3. ~(UseAsOperand \/ UseInFunction)
    <3>1. ASSUME NEW m, Operand(m) PROVE FALSE
      BY <2>0, <3>1, ReadSrcStep DEF Operand
    <3> QED
      BY <3>1 DEF UseAsOperand, UseInFunction
  <2>4. ~(StoreFromBlock \/ StoreFromTemporary)
    <3>1. ~MarkStoreReadComplete
      BY <2>0, ReadSrcStep DEF MarkStoreReadComplete
    <3> QED
      BY <3>1 DEF StoreFromBlock, StoreFromTemporary
  <2>5. ~MarkStoreComplete
    BY <2>0, StoreDstStep DEF MarkStoreComplete
  <2>6. ~DropTemporary
    BY DEF DropTemporary
  <2>7. ~Released
    BY DEF Released
  <2> QED
    BY <2>1, <2>2, <2>3, <2>4, <2>5, <2>6, <2>7 DEF Next
<1>2. Spec => [][Quiet]_vars
  BY <1>1, Invariance, PTL DEF Spec
<1> QED
  BY <1>2 DEF ReleasedIsQuiet
=============================================================================
