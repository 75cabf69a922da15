----------------------------- MODULE BlockState -----------------------------
(***************************************************************************)
(* The access-state machine of one dataflow-buffer block, as the simulator *)
(* keeps it in sim/blockstate.py (class BlockStateMachine).  This module   *)
(* has no variables: it gives the states, the transition table and the     *)
(* transition functions, as operators that BlockProtocol (one block and    *)
(* its clients) and DataflowBuffer (the ring) apply to the record they     *)
(* keep for a block.                                                       *)
(*                                                                         *)
(* A call the machine refuses raises a RuntimeError that ends the whole    *)
(* simulation, so the modules use Accepts as the guard of a call.          *)
(***************************************************************************)
EXTENDS Naturals

AccessState == {"MW", "MR", "RW", "ROR", "NAW", "OS"}

KernelType == {"DM", "COMPUTE"}

BlockAcquisition == {"RESERVE", "WAIT"}

(* ExpectedOp.DONE is declared by the source and never used by it.         *)
ExpectedOp ==
  {"COPY_SRC", "COPY_DST", "TX_WAIT", "PUSH", "POP", "STORE", "STORE_SRC"}

(* The operation keys the methods of Block pass to transition(), each with *)
(* the expected operation it passes along (Block.mark_copy_as_source, ...) *)
OperationKey ==
  {"copy_src", "copy_dst", "tx_wait", "assign_src", "store_src", "store_dst"}

ExpectedFor(op) ==
  CASE op = "copy_src"   -> "COPY_SRC"
    [] op = "copy_dst"   -> "COPY_DST"
    [] op = "tx_wait"    -> "TX_WAIT"
    [] op = "assign_src" -> "STORE_SRC"
    [] op = "store_src"  -> "STORE_SRC"
    [] op = "store_dst"  -> "STORE"

Machine == [acquisition : BlockAcquisition,
            kernel      : KernelType,
            access      : AccessState,
            expected    : SUBSET ExpectedOp,
            ror         : Nat]

-----------------------------------------------------------------------------
(* STATE_TRANSITIONS: what the table holds for an acquisition, a kernel    *)
(* role, an operation key and an access state.  A missing entry is a       *)
(* record whose access is "none".                                          *)
Goes(access, expected) == [access |-> access, expected |-> expected]

NoEntry == Goes("none", {})

(* Mutant of WaitDM: a block can be copied from only once.                 *)
WaitDMCopiedOnce(op, from) ==
  CASE op = "copy_src" /\ from = "MR" -> Goes("ROR", {"TX_WAIT", "COPY_SRC"})
    [] op = "copy_dst" /\ from = "RW" -> Goes("NAW", {"TX_WAIT"})
    [] op = "tx_wait" /\ from = "ROR" ->
         Goes("RW", {"COPY_DST", "COPY_SRC", "POP"})
    [] op = "tx_wait" /\ from = "NAW" -> Goes("MR", {"COPY_SRC"})
    [] OTHER -> NoEntry

WaitDM(op, from) ==
  CASE op = "copy_src" /\ from \in {"MR", "RW"} ->
         Goes("ROR", {"TX_WAIT", "COPY_SRC"})
    [] op = "copy_dst" /\ from = "RW" -> Goes("NAW", {"TX_WAIT"})
    [] op = "tx_wait" /\ from = "ROR" ->
         Goes("RW", {"COPY_DST", "COPY_SRC", "POP"})
    [] op = "tx_wait" /\ from = "NAW" -> Goes("MR", {"COPY_SRC"})
    [] OTHER -> NoEntry

ReserveDM(op, from) ==
  CASE op = "copy_src" /\ from \in {"MR", "RW"} ->
         Goes("ROR", {"TX_WAIT", "COPY_SRC"})
    [] op = "copy_dst" /\ from \in {"MW", "RW"} -> Goes("NAW", {"TX_WAIT"})
    [] op = "tx_wait" /\ from = "NAW" -> Goes("MR", {"PUSH", "COPY_SRC"})
    [] op = "tx_wait" /\ from = "ROR" ->
         Goes("RW", {"COPY_DST", "COPY_SRC", "PUSH"})
    [] OTHER -> NoEntry

(* Mutant of WaitCompute: store_src has no entry for RW.                   *)
WaitComputeStoredOnce(op, from) ==
  CASE \/ op = "assign_src" /\ from \in {"MR", "RW"}
       \/ op = "store_src" /\ from = "MR" ->
         Goes("RW", {"STORE_SRC", "STORE", "POP"})
    [] op = "store_dst" /\ from = "RW" -> Goes("MR", {"STORE_SRC"})
    [] OTHER -> NoEntry

WaitCompute(op, from) ==
  CASE op \in {"assign_src", "store_src"} /\ from \in {"MR", "RW"} ->
         Goes("RW", {"STORE_SRC", "STORE", "POP"})
    [] op = "store_dst" /\ from = "RW" -> Goes("MR", {"STORE_SRC"})
    [] OTHER -> NoEntry

ReserveCompute(op, from) ==
  CASE op = "store_src" /\ from \in {"MR", "RW"} ->
         Goes("RW", {"STORE_SRC", "STORE", "PUSH"})
    [] op = "store_dst" /\ from \in {"MW", "RW"} ->
         Goes("MR", {"STORE_SRC", "PUSH"})
    [] OTHER -> NoEntry

StateTransitions(acquisition, kernel, op, from) ==
  IF acquisition = "WAIT"
  THEN IF kernel = "DM" THEN WaitDM(op, from) ELSE WaitCompute(op, from)
  ELSE IF kernel = "DM" THEN ReserveDM(op, from) ELSE ReserveCompute(op, from)

-----------------------------------------------------------------------------
(* initialize(): a reserved block must be written, a waited block read.    *)
Initialize(acquisition, kernel) ==
  [acquisition |-> acquisition,
   kernel      |-> kernel,
   access      |-> IF acquisition = "RESERVE" THEN "MW" ELSE "MR",
   expected    |-> IF acquisition = "RESERVE"
                   THEN IF kernel = "DM" THEN {"COPY_DST"} ELSE {"STORE"}
                   ELSE IF kernel = "DM" THEN {"COPY_SRC"} ELSE {"STORE_SRC"},
   ror         |-> 0]

RorExpected == {"TX_WAIT", "COPY_SRC"}

(* validate(): an operation outside the expected set raises (an empty set  *)
(* raises too, with another message).                                      *)
Validate(sm, expectedOp) == expectedOp \in sm.expected

(* Mutant of CountsInRor: the last copy but one already leaves ROR.        *)
CountsInRorOneTooFew(sm, op) ==
  sm.access = "ROR" /\ (op = "copy_src" \/ (op = "tx_wait" /\ sm.ror > 2))

(* The two in-state transitions of ROR(N), which do not use the table.     *)
CountsInRor(sm, op) ==
  /\ sm.access = "ROR"
  /\ \/ op = "copy_src"
     \/ op = "tx_wait" /\ sm.ror > 1

Accepts(sm, op) ==
  /\ Validate(sm, ExpectedFor(op))
  /\ \/ CountsInRor(sm, op)
     \/ StateTransitions(sm.acquisition, sm.kernel, op, sm.access) # NoEntry

(* Mutants of Transition: ror goes down whichever way; ror is not set to   *)
(* one on the way into ROR.                                                *)
TransitionCountsDown(sm, op) ==
  IF CountsInRor(sm, op)
  THEN [sm EXCEPT !.ror = @ - 1, !.expected = RorExpected]
  ELSE LET t == StateTransitions(sm.acquisition, sm.kernel, op, sm.access)
       IN  [sm EXCEPT !.access = t.access,
                      !.ror = IF t.access = "ROR" THEN 1 ELSE @,
                      !.expected = t.expected]

TransitionKeepsCount(sm, op) ==
  IF CountsInRor(sm, op)
  THEN [sm EXCEPT !.ror = IF op = "copy_src" THEN @ + 1 ELSE @ - 1,
                  !.expected = RorExpected]
  ELSE LET t == StateTransitions(sm.acquisition, sm.kernel, op, sm.access)
       IN  [sm EXCEPT !.access = t.access, !.expected = t.expected]

Transition(sm, op) ==
  IF CountsInRor(sm, op)
  THEN [sm EXCEPT !.ror = IF op = "copy_src" THEN @ + 1 ELSE @ - 1,
                  !.expected = RorExpected]
  ELSE LET t == StateTransitions(sm.acquisition, sm.kernel, op, sm.access)
       IN  [sm EXCEPT !.access = t.access,
                      !.ror = IF t.access = "ROR" THEN 1 ELSE @,
                      !.expected = t.expected]

(* transition_push() and transition_pop(), with their extra guards.        *)
AcceptsPush(sm) == Validate(sm, "PUSH") /\ sm.acquisition = "RESERVE"

AcceptsPop(sm) ==
  /\ Validate(sm, "POP")
  /\ sm.acquisition = "WAIT"
  /\ sm.access \in {"MR", "RW"}

Close(sm) == [sm EXCEPT !.access = "OS", !.expected = {}]

-----------------------------------------------------------------------------
(* What a reader of the table can rely on: the expected set is a function  *)
(* of the access state (Consistent), and the state says which copies are   *)
(* in flight (TracksCopies).  BlockStateProofs shows that every transition *)
(* preserves both.                                                         *)
ReleaseOp(acquisition) == IF acquisition = "RESERVE" THEN "PUSH" ELSE "POP"

ExpectedIn(acquisition, kernel, access) ==
  CASE access = "MW"  -> IF kernel = "DM" THEN {"COPY_DST"} ELSE {"STORE"}
    [] access = "MR"  -> {IF kernel = "DM" THEN "COPY_SRC" ELSE "STORE_SRC"}
                           \cup (IF acquisition = "RESERVE" THEN {"PUSH"} ELSE {})
    [] access = "RW"  -> {ReleaseOp(acquisition)}
                           \cup (IF kernel = "DM" THEN {"COPY_SRC", "COPY_DST"}
                                                 ELSE {"STORE_SRC", "STORE"})
    [] access = "ROR" -> RorExpected
    [] access = "NAW" -> {"TX_WAIT"}
    [] access = "OS"  -> {}

Consistent(sm) ==
  /\ sm \in Machine
  /\ sm.expected = ExpectedIn(sm.acquisition, sm.kernel, sm.access)
  /\ sm.access = "MW" => sm.acquisition = "RESERVE"
  /\ sm.access \in {"ROR", "NAW"} => sm.kernel = "DM"

TracksCopies(sm, reads, writing) ==
  /\ sm.access = "ROR" => sm.ror = reads /\ reads > 0 /\ ~writing
  /\ sm.access = "NAW" => writing /\ reads = 0
  /\ sm.access \notin {"ROR", "NAW"} => reads = 0 /\ ~writing
=============================================================================
