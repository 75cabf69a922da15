------------------------------ MODULE StoreCall ------------------------------
(***************************************************************************)
(* Block.store() of the simulator (sim/dfb.py) as one call on several      *)
(* blocks of a kernel: the destination is asked whether it may be written, *)
(* the blocks that the stored value was read from are marked one by one,   *)
(* and then the destination is marked, which can still refuse.  A refusal  *)
(* raises; what the call did up to there stays done.                       *)
(*                                                                         *)
(* BlockProtocol has the life of one block; here there are several, held   *)
(* at once, and one temporary that remembers which it was computed from.   *)
(***************************************************************************)
EXTENDS BlockState

CONSTANTS Blocks,    \* the blocks a kernel holds
          Temporary  \* the result of an expression on them

VARIABLES
  sm,       \* _sm of each block
  confirm,  \* _store_confirmation_pending of each block
  parts,    \* _source_blocks of the temporary
  failed    \* a call raised

vars == <<sm, confirm, parts, failed>>

Init ==
  /\ \E kernel \in KernelType : sm \in [Blocks -> {Initialize(a, kernel) : a \in BlockAcquisition}]
  /\ confirm = [b \in Blocks |-> FALSE]
  /\ parts = {}
  /\ failed = FALSE

Tracked(b) == sm[b].acquisition = "WAIT" /\ sm[b].kernel = "COMPUTE"

(* The block becomes an operand of the temporary.                          *)
TrackSource(b) ==
  /\ ~failed
  /\ Tracked(b)
  /\ parts' = parts \cup {b}
  /\ IF Validate(sm[b], "STORE_SRC")
     THEN /\ sm' = [sm EXCEPT ![b] = Transition(@, "assign_src")]
          /\ confirm' = [confirm EXCEPT ![b] = TRUE]
     ELSE UNCHANGED <<sm, confirm>>
  /\ UNCHANGED failed

CheckCanWrite(b) == sm[b].access \notin {"NAW", "ROR", "OS"}

SourceBlocksToMark(items) ==
  IF items = Temporary
  THEN {b \in parts : Validate(sm[b], "STORE_SRC") \/ confirm[b]}
  ELSE {b \in {items} : Tracked(b) /\ Validate(sm[b], "STORE_SRC")}

StoreRead(b) == IF sm[b].access = "OS" THEN sm[b] ELSE Transition(sm[b], "store_src")

(* dst.store(items).                                                       *)
Store(dst, items) ==
  /\ ~failed
  /\ items = Temporary => parts # {}
  /\ LET sources == SourceBlocksToMark(items)
         marked == [b \in Blocks |-> IF b \in sources THEN StoreRead(b) ELSE sm[b]]
     IN  \/ /\ ~CheckCanWrite(dst)
            /\ failed' = TRUE
            /\ UNCHANGED <<sm, confirm>>
         \/ /\ CheckCanWrite(dst)
            /\ failed' = ~Accepts(marked[dst], "store_dst")
            /\ sm' = IF failed' THEN marked
                     ELSE [marked EXCEPT ![dst] = Transition(@, "store_dst")]
            /\ confirm' = [b \in Blocks |-> confirm[b] /\ b \notin sources]
  /\ UNCHANGED parts

(* push() or pop() of a block.                                             *)
Release(b) ==
  /\ ~failed
  /\ AcceptsPush(sm[b]) \/ AcceptsPop(sm[b])
  /\ sm' = [sm EXCEPT ![b] = Close(@)]
  /\ UNCHANGED <<confirm, parts, failed>>

Next ==
  \E b \in Blocks :
    \/ TrackSource(b)
    \/ Release(b)
    \/ \E items \in (Blocks \ {b}) \cup {Temporary} : Store(b, items)

Spec == Init /\ [][Next]_vars

-----------------------------------------------------------------------------
(* However blocks were read, stored, stored into and released before, and  *)
(* in whatever expressions they took part, a block that store() marks as   *)
(* the source of a value does not refuse the mark: of several sources none *)
(* is left unmarked behind one that raised.                                *)
SourcesNeverRefuse ==
  \A items \in Blocks \cup {Temporary} : \A b \in SourceBlocksToMark(items) :
    sm[b].access = "OS" \/ Accepts(sm[b], "store_src")
=============================================================================
