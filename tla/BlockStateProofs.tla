-------------------------- MODULE BlockStateProofs --------------------------
(***************************************************************************)
(* Facts about the transition functions of BlockState, for every machine   *)
(* record: what each operation accepts, where it leads, and that it keeps  *)
(* the machine consistent and in step with the copies in flight.  The      *)
(* proofs about one block (BlockProtocolProofs) and about the ring         *)
(* (DataflowBufferProofs) cite them by name.                               *)
(***************************************************************************)
EXTENDS BlockState, TLAPS

(* The machine sm brought to another access state, with the expected set   *)
(* that belongs to that state.                                             *)
Moved(sm, access, ror) ==
  [acquisition |-> sm.acquisition,
   kernel      |-> sm.kernel,
   access      |-> access,
   expected    |-> ExpectedIn(sm.acquisition, sm.kernel, access),
   ror         |-> ror]

(* A block fresh from reserve() or wait() is consistent and quiet.         *)
LEMMA InitializeConsistent ==
  ASSUME NEW a \in BlockAcquisition, NEW k \in KernelType
  PROVE  LET sm == Initialize(a, k)
         IN  /\ Consistent(sm)
             /\ TracksCopies(sm, 0, FALSE)
             /\ sm.acquisition = a
             /\ sm.kernel = k
             /\ sm.access = IF a = "RESERVE" THEN "MW" ELSE "MR"
  BY DEF Initialize, Consistent, TracksCopies, Machine, ExpectedIn, AccessState,
         ExpectedOp, BlockAcquisition, KernelType

(* The expected sets are sets of operations.                               *)
LEMMA ExpectedInType ==
  ASSUME NEW a \in BlockAcquisition, NEW k \in KernelType,
         NEW access \in AccessState
  PROVE  ExpectedIn(a, k, access) \in SUBSET ExpectedOp
<1>1. CASE access = "MW"
  BY <1>1 DEF ExpectedIn, ExpectedOp
<1>2. CASE access = "MR"
  BY <1>2 DEF ExpectedIn, ExpectedOp
<1>3. CASE access = "RW"
  <2>1. ExpectedIn(a, k, access) = {ReleaseOp(a)} \cup
          (IF k = "DM" THEN {"COPY_SRC", "COPY_DST"} ELSE {"STORE_SRC", "STORE"})
    BY <1>3 DEF ExpectedIn
  <2> QED
    BY <2>1 DEF ExpectedOp, ReleaseOp
<1>4. CASE access = "ROR"
  BY <1>4 DEF ExpectedIn, ExpectedOp, RorExpected
<1>5. CASE access = "NAW"
  BY <1>5 DEF ExpectedIn, ExpectedOp
<1>6. CASE access = "OS"
  BY <1>6 DEF ExpectedIn, ExpectedOp
<1> QED
  BY <1>1, <1>2, <1>3, <1>4, <1>5, <1>6 DEF AccessState

(* Moving a consistent machine keeps it consistent, as long as it does not *)
(* go back to MW and only data movement kernels have copies in flight.     *)
LEMMA MovedConsistent ==
  ASSUME NEW sm, Consistent(sm),
         NEW access \in AccessState \ {"MW"}, NEW ror \in Nat,
         access \in {"ROR", "NAW"} => sm.kernel = "DM"
  PROVE  /\ Consistent(Moved(sm, access, ror))
         /\ Moved(sm, access, ror).acquisition = sm.acquisition
         /\ Moved(sm, access, ror).kernel = sm.kernel
         /\ Moved(sm, access, ror).access = access
         /\ Moved(sm, access, ror).ror = ror
<1>1. sm.acquisition \in BlockAcquisition /\ sm.kernel \in KernelType
  BY DEF Consistent, Machine
<1>2. ExpectedIn(sm.acquisition, sm.kernel, access) \in SUBSET ExpectedOp
  BY <1>1, ExpectedInType
<1> QED
  BY <1>1, <1>2 DEF Moved, Consistent, Machine

-----------------------------------------------------------------------------
(* transition() by the table, and in ROR without it.                       *)
LEMMA ByTable ==
  ASSUME NEW sm \in Machine, NEW op, NEW access,
         ~CountsInRor(sm, op),
         StateTransitions(sm.acquisition, sm.kernel, op, sm.access)
           = Goes(access, ExpectedIn(sm.acquisition, sm.kernel, access))
  PROVE  Transition(sm, op)
           = Moved(sm, access, IF access = "ROR" THEN 1 ELSE sm.ror)
<1> DEFINE t == StateTransitions(sm.acquisition, sm.kernel, op, sm.access)
           e == ExpectedIn(sm.acquisition, sm.kernel, access)
<1>1. t.access = access /\ t.expected = e
  BY DEF Goes
<1>2. Transition(sm, op) = [sm EXCEPT !.access = t.access,
                                      !.ror = IF t.access = "ROR" THEN 1 ELSE @,
                                      !.expected = t.expected]
  BY DEF Transition
<1>3. Moved(sm, access, IF access = "ROR" THEN 1 ELSE sm.ror)
        = [acquisition |-> sm.acquisition, kernel |-> sm.kernel,
           access |-> access, expected |-> e,
           ror |-> IF access = "ROR" THEN 1 ELSE sm.ror]
  BY DEF Moved
<1> HIDE DEF t, e
<1> QED
  BY <1>1, <1>2, <1>3 DEF Machine

(* In ROR a further copy out, and a wait that is not the last, keep the    *)
(* state and move only the count.                                          *)
LEMMA InRor ==
  ASSUME NEW sm \in Machine, NEW op, CountsInRor(sm, op)
  PROVE  Transition(sm, op)
           = Moved(sm, "ROR", IF op = "copy_src" THEN sm.ror + 1 ELSE sm.ror - 1)
<1>1. ExpectedIn(sm.acquisition, sm.kernel, "ROR") = RorExpected
  BY DEF ExpectedIn
<1> QED
  BY <1>1 DEF Transition, Machine, CountsInRor, Moved

(* What the table holds for each operation, for the machines that accept   *)
(* it.  Outside ROR an accepted operation has an entry.                    *)
LEMMA AcceptedEntry ==
  ASSUME NEW sm, NEW op, Accepts(sm, op), ~CountsInRor(sm, op)
  PROVE  StateTransitions(sm.acquisition, sm.kernel, op, sm.access) # NoEntry
  BY DEF Accepts

-----------------------------------------------------------------------------
(* copy(block, ...) is accepted only when the data is readable, and leads  *)
(* to ROR counting one more copy.                                          *)
LEMMA CopySrc ==
  ASSUME NEW sm, Consistent(sm), Accepts(sm, "copy_src")
  PROVE  /\ sm.kernel = "DM"
         /\ sm.access \in {"MR", "RW", "ROR"}
         /\ Transition(sm, "copy_src")
              = Moved(sm, "ROR", IF sm.access = "ROR" THEN sm.ror + 1 ELSE 1)
<1>1. CASE sm.access = "ROR"
  <2>1. CountsInRor(sm, "copy_src")
    BY <1>1 DEF CountsInRor
  <2> QED
    BY <1>1, <2>1, InRor DEF Consistent
<1>2. CASE sm.access # "ROR"
  <2>1. ~CountsInRor(sm, "copy_src")
    BY <1>2 DEF CountsInRor
  <2>2. sm.kernel = "DM" /\ sm.access \in {"MR", "RW"}
    BY <2>1, <1>2, AcceptedEntry
    DEF StateTransitions, WaitDM, ReserveDM, WaitCompute, ReserveCompute,
        Consistent, Machine, KernelType
  <2>3. StateTransitions(sm.acquisition, sm.kernel, "copy_src", sm.access)
          = Goes("ROR", ExpectedIn(sm.acquisition, sm.kernel, "ROR"))
    BY <2>2 DEF StateTransitions, WaitDM, ReserveDM, ExpectedIn, RorExpected
  <2> QED
    BY <1>2, <2>1, <2>2, <2>3, ByTable DEF Consistent
<1> QED
  BY <1>1, <1>2

(* copy(..., block) is accepted only when no copy is in flight, and locks  *)
(* the block.                                                              *)
LEMMA CopyDst ==
  ASSUME NEW sm, Consistent(sm), Accepts(sm, "copy_dst")
  PROVE  /\ sm.kernel = "DM"
         /\ sm.access \in {"MW", "RW"}
         /\ Transition(sm, "copy_dst") = Moved(sm, "NAW", sm.ror)
<1>1. ~CountsInRor(sm, "copy_dst")
  BY DEF CountsInRor
<1>2. sm.kernel = "DM" /\ sm.access \in {"MW", "RW"}
  BY <1>1, AcceptedEntry
  DEF StateTransitions, WaitDM, ReserveDM, WaitCompute, ReserveCompute,
      Consistent, Machine, KernelType
<1>3. StateTransitions(sm.acquisition, sm.kernel, "copy_dst", sm.access)
        = Goes("NAW", ExpectedIn(sm.acquisition, sm.kernel, "NAW"))
  BY <1>2 DEF StateTransitions, WaitDM, ReserveDM, ExpectedIn, Consistent
<1> QED
  BY <1>1, <1>2, <1>3, ByTable DEF Consistent

(* tx.wait() of a copy out of the block leaves ROR with the last copy;     *)
(* of the copy into it, leaves the block readable.                         *)
LEMMA TxWait ==
  ASSUME NEW sm, Consistent(sm), Accepts(sm, "tx_wait")
  PROVE  /\ sm.kernel = "DM"
         /\ sm.access \in {"ROR", "NAW"}
         /\ sm.access = "NAW" => Transition(sm, "tx_wait") = Moved(sm, "MR", sm.ror)
         /\ sm.access = "ROR" =>
              Transition(sm, "tx_wait")
                = IF sm.ror > 1 THEN Moved(sm, "ROR", sm.ror - 1)
                                ELSE Moved(sm, "RW", sm.ror)
<1>1. sm.access \in {"ROR", "NAW"} /\ sm.kernel = "DM"
  <2>1. CASE sm.access \in {"ROR", "NAW"}
    BY <2>1 DEF Consistent
  <2>2. CASE sm.access \notin {"ROR", "NAW"}
    <3>1. ~CountsInRor(sm, "tx_wait")
      BY <2>2 DEF CountsInRor
    <3>2. StateTransitions(sm.acquisition, sm.kernel, "tx_wait", sm.access) = NoEntry
      BY <2>2 DEF StateTransitions, WaitDM, ReserveDM, WaitCompute, ReserveCompute
    <3> QED
      BY <3>1, <3>2, AcceptedEntry
  <2> QED
    BY <2>1, <2>2
<1>2. ASSUME sm.access = "NAW"
      PROVE  Transition(sm, "tx_wait") = Moved(sm, "MR", sm.ror)
  <2>1. ~CountsInRor(sm, "tx_wait")
    BY <1>2 DEF CountsInRor
  <2>2. StateTransitions(sm.acquisition, sm.kernel, "tx_wait", sm.access)
          = Goes("MR", ExpectedIn(sm.acquisition, sm.kernel, "MR"))
    BY <1>1, <1>2
    DEF StateTransitions, WaitDM, ReserveDM, ExpectedIn, Consistent, Machine,
        BlockAcquisition
  <2> QED
    BY <2>1, <2>2, ByTable DEF Consistent
<1>3. ASSUME sm.access = "ROR", sm.ror > 1
      PROVE  Transition(sm, "tx_wait") = Moved(sm, "ROR", sm.ror - 1)
  <2>1. CountsInRor(sm, "tx_wait")
    BY <1>3 DEF CountsInRor
  <2> QED
    BY <2>1, InRor DEF Consistent
<1>4. ASSUME sm.access = "ROR", ~(sm.ror > 1)
      PROVE  Transition(sm, "tx_wait") = Moved(sm, "RW", sm.ror)
  <2>1. ~CountsInRor(sm, "tx_wait")
    BY <1>4 DEF CountsInRor
  <2>2. StateTransitions(sm.acquisition, sm.kernel, "tx_wait", sm.access)
          = Goes("RW", {"COPY_DST", "COPY_SRC", ReleaseOp(sm.acquisition)})
    BY <1>1, <1>4
    DEF StateTransitions, WaitDM, ReserveDM, ReleaseOp, Consistent, Machine,
        BlockAcquisition
  <2>3. ExpectedIn(sm.acquisition, sm.kernel, "RW")
          = {"COPY_DST", "COPY_SRC", ReleaseOp(sm.acquisition)}
    BY <1>1 DEF ExpectedIn
  <2> QED
    BY <2>1, <2>2, <2>3, ByTable DEF Consistent
<1> QED
  BY <1>1, <1>2, <1>3, <1>4

(* Reading a block in an expression or in a store makes it writable.       *)
LEMMA ReadSrc ==
  ASSUME NEW sm, Consistent(sm), NEW op \in {"assign_src", "store_src"},
         Accepts(sm, op)
  PROVE  /\ sm.kernel = "COMPUTE"
         /\ sm.access \in {"MR", "RW"}
         /\ Transition(sm, op) = Moved(sm, "RW", sm.ror)
<1>1. ~CountsInRor(sm, op)
  BY DEF CountsInRor
<1>2. sm.kernel = "COMPUTE" /\ sm.access \in {"MR", "RW"}
  <2>1. CASE sm.kernel = "DM"
    <3>1. StateTransitions(sm.acquisition, sm.kernel, op, sm.access) = NoEntry
      BY <2>1 DEF StateTransitions, WaitDM, ReserveDM
    <3> QED
      BY <1>1, <3>1, AcceptedEntry
  <2>2. CASE sm.kernel = "COMPUTE" /\ sm.access \notin {"MR", "RW"}
    <3>1. StateTransitions(sm.acquisition, sm.kernel, op, sm.access) = NoEntry
      BY <2>2 DEF StateTransitions, WaitCompute, ReserveCompute
    <3> QED
      BY <1>1, <3>1, AcceptedEntry
  <2> QED
    BY <2>1, <2>2 DEF Consistent, Machine, KernelType
<1>3. StateTransitions(sm.acquisition, sm.kernel, op, sm.access)
        = Goes("RW", {"STORE_SRC", "STORE", ReleaseOp(sm.acquisition)})
  <2>1. CASE sm.acquisition = "WAIT"
    BY <1>2, <2>1 DEF StateTransitions, WaitCompute, ReleaseOp
  <2>2. CASE sm.acquisition = "RESERVE"
    <3>1. StateTransitions(sm.acquisition, sm.kernel, op, sm.access)
            = ReserveCompute(op, sm.access)
      BY <1>2, <2>2 DEF StateTransitions
    <3>2. op = "store_src"
      BY <3>1, <1>1, AcceptedEntry DEF ReserveCompute
    <3> QED
      BY <1>2, <2>2, <3>1, <3>2 DEF ReserveCompute, ReleaseOp
  <2> QED
    BY <2>1, <2>2 DEF Consistent, Machine, BlockAcquisition
<1>4. ExpectedIn(sm.acquisition, sm.kernel, "RW")
        = {"STORE_SRC", "STORE", ReleaseOp(sm.acquisition)}
  BY <1>2 DEF ExpectedIn
<1> QED
  BY <1>1, <1>2, <1>3, <1>4, ByTable DEF Consistent

(* Storing into a block leaves it to be read or released.                  *)
LEMMA StoreDst ==
  ASSUME NEW sm, Consistent(sm), Accepts(sm, "store_dst")
  PROVE  /\ sm.kernel = "COMPUTE"
         /\ sm.access \in {"MW", "RW"}
         /\ Transition(sm, "store_dst") = Moved(sm, "MR", sm.ror)
<1>1. ~CountsInRor(sm, "store_dst")
  BY DEF CountsInRor
<1>2. sm.kernel = "COMPUTE" /\ sm.access \in {"MW", "RW"}
  BY <1>1, AcceptedEntry
  DEF StateTransitions, WaitDM, ReserveDM, WaitCompute, ReserveCompute,
      Consistent, Machine, KernelType
<1>3. StateTransitions(sm.acquisition, sm.kernel, "store_dst", sm.access)
        = Goes("MR", ExpectedIn(sm.acquisition, sm.kernel, "MR"))
  BY <1>2
  DEF StateTransitions, WaitCompute, ReserveCompute, ExpectedIn, Consistent,
      Machine, BlockAcquisition
<1> QED
  BY <1>1, <1>2, <1>3, ByTable DEF Consistent

(* A block is released only in MR or RW: written, and with no copy in      *)
(* flight.                                                                 *)
LEMMA ReleaseState ==
  ASSUME NEW sm, Consistent(sm), AcceptsPush(sm) \/ AcceptsPop(sm)
  PROVE  sm.access \in {"MR", "RW"}
<1>1. CASE AcceptsPop(sm)
  BY <1>1 DEF AcceptsPop
<1>2. CASE AcceptsPush(sm)
  <2>1. "PUSH" \in ExpectedIn(sm.acquisition, sm.kernel, sm.access)
    BY <1>2 DEF AcceptsPush, Validate, Consistent
  <2>2. CASE sm.access = "MW"
    BY <2>1, <2>2 DEF ExpectedIn
  <2>3. CASE sm.access = "ROR"
    BY <2>1, <2>3 DEF ExpectedIn, RorExpected
  <2>4. CASE sm.access = "NAW"
    BY <2>1, <2>4 DEF ExpectedIn
  <2>5. CASE sm.access = "OS"
    BY <2>1, <2>5 DEF ExpectedIn
  <2> QED
    BY <2>2, <2>3, <2>4, <2>5 DEF Consistent, Machine, AccessState
<1> QED
  BY <1>1, <1>2

(* push() and pop() move the machine to OS, with the expected set of OS.   *)
LEMMA CloseMoves ==
  ASSUME NEW sm, Consistent(sm)
  PROVE  Close(sm) = Moved(sm, "OS", sm.ror)
<1> DEFINE none == {}
<1>1. Moved(sm, "OS", sm.ror)
        = [acquisition |-> sm.acquisition, kernel |-> sm.kernel,
           access |-> "OS", expected |-> none, ror |-> sm.ror]
  BY DEF Moved, ExpectedIn
<1>2. Close(sm) = [sm EXCEPT !.access = "OS", !.expected = none]
  BY DEF Close
<1>3. sm \in Machine
  BY DEF Consistent
<1> HIDE DEF none
<1> QED
  BY <1>1, <1>2, <1>3 DEF Machine

-----------------------------------------------------------------------------
(* The steps as their users see them: t is what sm becomes, and the copies *)
(* in flight are counted along.                                            *)
Keeps(sm, t, reads, writing) ==
  /\ Consistent(t)
  /\ TracksCopies(t, reads, writing)
  /\ t.acquisition = sm.acquisition
  /\ t.kernel = sm.kernel

(* copy(block, ...) starts: one more copy out, and the machine tracks it.  *)
LEMMA CopySrcStep ==
  ASSUME NEW sm, Consistent(sm), Accepts(sm, "copy_src"),
         NEW reads \in Nat, NEW writing \in BOOLEAN,
         TracksCopies(sm, reads, writing)
  PROVE  LET t == Transition(sm, "copy_src")
         IN  /\ Keeps(sm, t, reads + 1, writing)
             /\ sm.access \in {"MR", "RW", "ROR"}
             /\ t.access = "ROR"
<1> DEFINE n == IF sm.access = "ROR" THEN sm.ror + 1 ELSE 1
<1>1. sm.kernel = "DM" /\ sm.access \in {"MR", "RW", "ROR"}
      /\ Transition(sm, "copy_src") = Moved(sm, "ROR", n)
  BY CopySrc
<1>2. sm.ror \in Nat
  BY DEF Consistent, Machine
<1>3. n \in Nat /\ n = reads + 1 /\ n > 0 /\ ~writing
  BY <1>1, <1>2 DEF TracksCopies
<1>4. Keeps(sm, Moved(sm, "ROR", n), n, writing) /\ Moved(sm, "ROR", n).access = "ROR"
  <2> HIDE DEF n
  <2> QED
    BY <1>1, <1>3, MovedConsistent DEF AccessState, Keeps, TracksCopies
<1> QED
  BY <1>1, <1>3, <1>4

(* copy(..., block) starts: the copy in is the only one, and the machine   *)
(* tracks it.                                                              *)
LEMMA CopyDstStep ==
  ASSUME NEW sm, Consistent(sm), Accepts(sm, "copy_dst"),
         NEW reads \in Nat, NEW writing \in BOOLEAN,
         TracksCopies(sm, reads, writing)
  PROVE  LET t == Transition(sm, "copy_dst")
         IN  /\ Keeps(sm, t, reads, TRUE)
             /\ sm.access \in {"MW", "RW"}
             /\ t.access = "NAW"
             /\ reads = 0
<1>1. sm.kernel = "DM" /\ sm.access \in {"MW", "RW"}
      /\ Transition(sm, "copy_dst") = Moved(sm, "NAW", sm.ror)
  BY CopyDst
<1>2. sm.ror \in Nat
  BY DEF Consistent, Machine
<1>3. reads = 0
  BY <1>1 DEF TracksCopies
<1>4. Keeps(sm, Moved(sm, "NAW", sm.ror), reads, TRUE)
      /\ Moved(sm, "NAW", sm.ror).access = "NAW"
  BY <1>1, <1>2, <1>3, MovedConsistent DEF AccessState, Keeps, TracksCopies
<1> QED
  BY <1>1, <1>3, <1>4

(* The wait of a read, and the wait of the write.                          *)
LEMMA TxWaitReadStep ==
  ASSUME NEW sm, Consistent(sm), Accepts(sm, "tx_wait"),
         NEW reads \in Nat, NEW writing \in BOOLEAN,
         TracksCopies(sm, reads, writing), reads > 0
  PROVE  LET t == Transition(sm, "tx_wait")
         IN  /\ Keeps(sm, t, reads - 1, writing)
             /\ sm.access = "ROR"
             /\ t.access \in {"ROR", "RW"}
<1>1. sm.kernel = "DM" /\ sm.access = "ROR"
  BY TxWait DEF TracksCopies
<1>2. sm.ror = reads /\ ~writing
  BY <1>1 DEF TracksCopies
<1>3. CASE reads > 1
  <2>1. Transition(sm, "tx_wait") = Moved(sm, "ROR", reads - 1)
    BY <1>1, <1>2, <1>3, TxWait
  <2>2. reads - 1 \in Nat /\ reads - 1 > 0
    BY <1>3
  <2>3. Keeps(sm, Moved(sm, "ROR", reads - 1), reads - 1, writing)
        /\ Moved(sm, "ROR", reads - 1).access = "ROR"
    BY <1>1, <1>2, <2>2, MovedConsistent DEF AccessState, Keeps, TracksCopies
  <2> QED
    BY <1>1, <2>1, <2>3
<1>4. CASE ~(reads > 1)
  <2>1. Transition(sm, "tx_wait") = Moved(sm, "RW", reads)
    BY <1>1, <1>2, <1>4, TxWait
  <2>2. reads - 1 = 0
    BY <1>4
  <2>3. Keeps(sm, Moved(sm, "RW", reads), reads - 1, writing)
        /\ Moved(sm, "RW", reads).access = "RW"
    BY <1>1, <1>2, <2>2, MovedConsistent DEF AccessState, Keeps, TracksCopies
  <2> QED
    BY <1>1, <2>1, <2>3
<1> QED
  BY <1>3, <1>4

(* tx.wait() of the copy into the block: it is over, and the block         *)
(* readable.                                                               *)
LEMMA TxWaitWriteStep ==
  ASSUME NEW sm, Consistent(sm), Accepts(sm, "tx_wait"),
         NEW reads \in Nat, NEW writing \in BOOLEAN,
         TracksCopies(sm, reads, writing), writing
  PROVE  LET t == Transition(sm, "tx_wait")
         IN  /\ Keeps(sm, t, reads, FALSE)
             /\ sm.access = "NAW"
             /\ t.access = "MR"
             /\ reads = 0
<1>1. sm.access = "NAW" /\ reads = 0
  BY TxWait DEF TracksCopies
<1>2. Transition(sm, "tx_wait") = Moved(sm, "MR", sm.ror)
  BY <1>1, TxWait
<1>3. sm.ror \in Nat
  BY DEF Consistent, Machine
<1>4. Keeps(sm, Moved(sm, "MR", sm.ror), reads, FALSE)
      /\ Moved(sm, "MR", sm.ror).access = "MR"
  BY <1>1, <1>3, MovedConsistent DEF AccessState, Keeps, TracksCopies
<1> QED
  BY <1>1, <1>2, <1>4

(* A read by a compute kernel: no copy is in flight, before or after.      *)
LEMMA ReadSrcStep ==
  ASSUME NEW sm, Consistent(sm), NEW op \in {"assign_src", "store_src"},
         Accepts(sm, op),
         NEW reads \in Nat, NEW writing \in BOOLEAN,
         TracksCopies(sm, reads, writing)
  PROVE  LET t == Transition(sm, op)
         IN  /\ Keeps(sm, t, reads, writing)
             /\ sm.access \in {"MR", "RW"}
             /\ t.access = "RW"
<1>1. sm.access \in {"MR", "RW"} /\ Transition(sm, op) = Moved(sm, "RW", sm.ror)
  BY ReadSrc
<1>2. sm.ror \in Nat
  BY DEF Consistent, Machine
<1>3. Keeps(sm, Moved(sm, "RW", sm.ror), reads, writing)
      /\ Moved(sm, "RW", sm.ror).access = "RW"
  BY <1>1, <1>2, MovedConsistent DEF AccessState, Keeps, TracksCopies
<1> QED
  BY <1>1, <1>3

(* A store into the block: no copy is in flight, before or after.          *)
LEMMA StoreDstStep ==
  ASSUME NEW sm, Consistent(sm), Accepts(sm, "store_dst"),
         NEW reads \in Nat, NEW writing \in BOOLEAN,
         TracksCopies(sm, reads, writing)
  PROVE  LET t == Transition(sm, "store_dst")
         IN  /\ Keeps(sm, t, reads, writing)
             /\ sm.access \in {"MW", "RW"}
             /\ t.access = "MR"
<1>1. sm.access \in {"MW", "RW"} /\ Transition(sm, "store_dst") = Moved(sm, "MR", sm.ror)
  BY StoreDst
<1>2. sm.ror \in Nat
  BY DEF Consistent, Machine
<1>3. Keeps(sm, Moved(sm, "MR", sm.ror), reads, writing)
      /\ Moved(sm, "MR", sm.ror).access = "MR"
  BY <1>1, <1>2, MovedConsistent DEF AccessState, Keeps, TracksCopies
<1> QED
  BY <1>1, <1>3

(* push() or pop(): the released machine is consistent, and no copy was in *)
(* flight.                                                                 *)
LEMMA ReleaseStep ==
  ASSUME NEW sm, Consistent(sm), AcceptsPush(sm) \/ AcceptsPop(sm),
         NEW reads \in Nat, NEW writing \in BOOLEAN,
         TracksCopies(sm, reads, writing)
  PROVE  LET t == Close(sm)
         IN  /\ Keeps(sm, t, reads, writing)
             /\ sm.access \in {"MR", "RW"}
             /\ t.access = "OS"
             /\ reads = 0
             /\ ~writing
<1>1. sm.access \in {"MR", "RW"} /\ Close(sm) = Moved(sm, "OS", sm.ror)
  BY ReleaseState, CloseMoves
<1>2. sm.ror \in Nat
  BY DEF Consistent, Machine
<1>3. reads = 0 /\ ~writing
  BY <1>1 DEF TracksCopies
<1>4. Keeps(sm, Moved(sm, "OS", sm.ror), reads, writing)
      /\ Moved(sm, "OS", sm.ror).access = "OS"
  BY <1>1, <1>2, <1>3, MovedConsistent DEF AccessState, Keeps, TracksCopies
<1> QED
  BY <1>1, <1>3, <1>4
=============================================================================
