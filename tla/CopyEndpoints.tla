----------------------------- MODULE CopyEndpoints -----------------------------
(***************************************************************************)
(* Which copies there are: ttl.copy(src, dst) as the simulator looks it up *)
(* and validates it (sim/copy.py, sim/copyhandlers.py, Tensor.__getitem__  *)
(* of sim/ttnnsim.py), and as the compiler emits it (ttl/operators.py).    *)
(*                                                                         *)
(* Shapes count tiles.  A tensor is subscripted by an item for every axis, *)
(* an index or a range; without a subscript it is itself.  The pipe of a   *)
(* callback is a SrcPipeIdentity or a DstPipeIdentity in the simulator and *)
(* one and the same Pipe for the compiler.                                 *)
(***************************************************************************)
EXTENDS Integers, Sequences, FiniteSets, SequencesExt, FiniteSetsExt, Functions

Item(lo, hi, range) == [lo |-> lo, hi |-> hi, range |-> range]
Tensor(shape) == [kind |-> "tensor", shape |-> shape, items |-> <<>>]
Subscript(shape, items) == [kind |-> "tensor", shape |-> shape, items |-> items]
Block(shape) == [kind |-> "block", shape |-> shape]
SrcPipeIdentity == [kind |-> "srcPipe"]
DstPipeIdentity == [kind |-> "dstPipe"]
IsPipe(e) == e.kind \in {"srcPipe", "dstPipe"}
IsSubscript(e) == e.kind = "tensor" /\ e.items # <<>>

(* Of each axis the tiles of one step along it; those of the whole before  *)
(* the first; and where the n-th tile of a shape lies.                     *)
Strides(shape) ==
  LET stride[k \in 0 .. Len(shape)] == IF k = Len(shape) THEN 1 ELSE shape[k + 1] * stride[k + 1]
  IN  stride
Prod(shape) == Strides(shape)[0]
Place(shape, n) == [k \in DOMAIN shape |-> (n \div Strides(shape)[k]) % shape[k]]

(* What a copy does: its direction, and which tile of the tensor goes with *)
(* which tile of the block.                                                *)
NoCopy == [does |-> "error", moves |-> {}]
Moves(does, moves) == [does |-> does, moves |-> moves]

-----------------------------------------------------------------------------
(* The simulator.                                                          *)

HandlerRegistry ==
  {<<"block", "srcPipe">>, <<"dstPipe", "block">>, <<"tensor", "block">>, <<"block", "tensor">>}

(* Tensor.__getitem__: an index is a range of one; an upper end is cut to  *)
(* the tensor's.                                                           *)
ViewShape(t) ==
  IF t.items = <<>> THEN t.shape
  ELSE [k \in DOMAIN t.shape |-> Max({0, Min({t.items[k].hi, t.shape[k]}) - t.items[k].lo})]
ViewOrigin(t) == IF t.items = <<>> THEN [k \in DOMAIN t.shape |-> 0] ELSE [k \in DOMAIN t.shape |-> t.items[k].lo]
SubscriptOk(t) == t.items = <<>> \/ Len(t.items) = Len(t.shape)

(* validate of the tensor handlers: as many tiles on either side.          *)
SimMoves(tensor, block) ==
  LET shape == ViewShape(tensor)
  IN  {<<[k \in DOMAIN shape |-> ViewOrigin(tensor)[k] + Place(shape, n)[k]], Place(block.shape, n)>> :
         n \in 0 .. Prod(shape) - 1}
SimTensorCopy(does, tensor, block) ==
  IF SubscriptOk(tensor) /\ Prod(ViewShape(tensor)) = Prod(block.shape)
  THEN Moves(does, SimMoves(tensor, block)) ELSE NoCopy

SimCopy(src, dst) ==
  IF <<src.kind, dst.kind>> \notin HandlerRegistry THEN NoCopy
  ELSE CASE dst.kind = "srcPipe" -> Moves("send", {})
         [] src.kind = "dstPipe" -> Moves("receive", {})
         [] src.kind = "tensor"  -> SimTensorCopy("read", src, dst)
         [] dst.kind = "tensor"  -> SimTensorCopy("write", dst, src)

-----------------------------------------------------------------------------
(* The compiler.                                                           *)

(* visit_Subscript: of an item where it starts, and whether it is a range; *)
(* where the range ends is dropped.                                        *)
IndexOrRange(item) == [start |-> item.lo, range |-> item.range]
Indices(tensor) == [k \in DOMAIN tensor.items |-> IndexOrRange(tensor.items[k])]

(* _process_tensor_subscript and _make_tensor_slice: the starts, and the   *)
(* block's shape for the extent.  The leading axes that the block does not *)
(* have take an index.                                                     *)
SliceOk(tensor, shape) ==
  LET rank == Len(tensor.shape)
      squeezed == rank - Len(shape)
      items == Indices(tensor)
  IN  /\ rank >= 2 /\ Len(items) = rank /\ squeezed >= 0
      /\ \A k \in 1 .. squeezed : ~items[k].range
      /\ (\E k \in DOMAIN shape : shape[k] > 1) => \E k \in squeezed + 1 .. rank : items[k].range

(* Mutant of SliceTile: the block's axes are the first ones of the tensor. *)
SliceTileLeading(tensor, place) ==
  [k \in DOMAIN tensor.items |-> Indices(tensor)[k].start + (IF k <= Len(place) THEN place[k] ELSE 0)]
SliceTile(tensor, place) ==
  LET squeezed == Len(tensor.items) - Len(place)
  IN  [k \in DOMAIN tensor.items |-> Indices(tensor)[k].start + (IF k > squeezed THEN place[k - squeezed] ELSE 0)]

TtlSlice(does, tensor, block) ==
  IF SliceOk(tensor, block.shape)
  THEN Moves(does, {<<SliceTile(tensor, Place(block.shape, n)), Place(block.shape, n)>> :
                      n \in 0 .. Prod(block.shape) - 1})
  ELSE NoCopy

TtlCopy(src, dst) ==
  CASE IsPipe(src) /\ IsPipe(dst) -> NoCopy
    [] IsPipe(dst) -> IF src.kind = "block" THEN Moves("send", {}) ELSE NoCopy
    [] IsPipe(src) -> IF dst.kind = "block" THEN Moves("receive", {}) ELSE NoCopy
    [] IsSubscript(dst) -> IF src.kind = "block" THEN TtlSlice("write", dst, src) ELSE NoCopy
    [] IsSubscript(src) -> IF dst.kind = "block" THEN TtlSlice("read", src, dst) ELSE NoCopy
    [] OTHER -> NoCopy

-----------------------------------------------------------------------------
(* What is copied: an index is the range of its one tile.                  *)
Items == {item \in [lo : Nat, hi : Nat, range : BOOLEAN] : ~item.range => item.hi = item.lo + 1}
Ends ==
  [kind : {"tensor"}, shape : Seq(Nat), items : Seq(Items)] \cup [kind : {"block"}, shape : Seq(Nat)]
    \cup {SrcPipeIdentity, DstPipeIdentity}

(* The copies both take alike: tensors are subscripted, with an index on   *)
(* the axes the block does not have and, on the others, as many tiles      *)
(* inside the tensor as the block has, a range among them where the block  *)
(* has more than one; a pipe is used in the direction of its callback.     *)
InCommon(src, dst) ==
  /\ src.kind # "dstPipe" \/ ~IsPipe(dst)
  /\ src.kind # "srcPipe" /\ dst.kind # "dstPipe"
  /\ \A t \in {src, dst} : t.kind = "tensor" =>
       /\ Len(t.items) = Len(t.shape) /\ Len(t.shape) >= 2
       /\ \A k \in DOMAIN t.items : t.items[k].lo < t.items[k].hi /\ t.items[k].hi <= t.shape[k]
       /\ \A b \in {src, dst} : b.kind = "block" =>
            LET squeezed == Len(t.shape) - Len(b.shape)
            IN  /\ squeezed >= 0
                /\ \A k \in DOMAIN t.items :
                     IF k <= squeezed THEN ~t.items[k].range
                     ELSE t.items[k].hi - t.items[k].lo = b.shape[k - squeezed]
                /\ (\E k \in DOMAIN b.shape : b.shape[k] > 1) => \E k \in squeezed + 1 .. Len(t.shape) : t.items[k].range

(* A kernel that the simulator ran moves the same tiles when it is         *)
(* compiled: either side refuses a copy or both take the same tiles of the *)
(* tensor to the same tiles of the block.                                  *)
CopiesAgree(src, dst) == InCommon(src, dst) => SimCopy(src, dst) = TtlCopy(src, dst)
=============================================================================
