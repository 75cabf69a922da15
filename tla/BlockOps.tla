------------------------------ MODULE BlockOps ------------------------------
(***************************************************************************)
(* Operations on blocks: what the simulator computes element by element    *)
(* (sim/block.py, sim/math.py, and the data side of Block in sim/dfb.py)   *)
(* and which calls the compiled language takes (ttl/operators.py).         *)
(*                                                                         *)
(* A block is a grid of tiles kept in one tensor.  Its shape counts tiles  *)
(* and its buffer counts elements, and nothing but the arithmetic below    *)
(* keeps the two together.  Positions count from 0, axes from 1, except    *)
(* the dims an operation is called with, which are Python's indices.       *)
(***************************************************************************)
EXTENDS Integers, Sequences, FiniteSets, SequencesExt, FiniteSetsExt, Functions, TLC

CONSTANT TileSide

Error == [error |-> TRUE]
Failed(x) == "error" \in DOMAIN x
Prod(s) == FoldSeq(LAMBDA d, v : d * v, 1, s)
Head2(s, k) == SubSeq(s, 1, k)
Least(a, b) == IF a < b THEN a ELSE b

-----------------------------------------------------------------------------
(* Tensors, as torch lays them out: the numbers in row-major order.        *)

Offset(dims, i) ==
  LET f[k \in 0..Len(dims)] == IF k = 0 THEN 0 ELSE f[k - 1] * dims[k] + i[k] IN f[Len(dims)]
(* SubSeq has TLC work the sequence out once.                              *)
Listed(N, F(_)) == SubSeq([n \in 1..N |-> F(n)], 1, N)
Place(dims, n) == [k \in DOMAIN dims |-> (n \div Prod(SubSeq(dims, k + 1, Len(dims)))) % dims[k]]
Tensor(dims, F(_)) == [dims |-> dims, data |-> Listed(Prod(dims), LAMBDA n : F(Place(dims, n - 1)))]
At(t, i) == t.data[Offset(t.dims, i) + 1]

Reshape(t, dims) == IF Prod(dims) = Len(t.data) THEN [t EXCEPT !.dims = dims] ELSE Error
(* t[i] with whole numbers for the leading axes, and t[lo:hi, ...].        *)
Pick(t, i) == Tensor(SubSeq(t.dims, Len(i) + 1, Len(t.dims)), LAMBDA j : At(t, i \o j))
Narrow(t, lo, hi) ==
  LET Lo(k) == IF k \in DOMAIN lo THEN Least(lo[k], t.dims[k]) ELSE 0
      Hi(k) == IF k \in DOMAIN hi THEN Least(hi[k], t.dims[k]) ELSE t.dims[k]
  IN  Tensor([k \in DOMAIN t.dims |-> Hi(k) - Lo(k)], LAMBDA j : At(t, [k \in DOMAIN j |-> j[k] + Lo(k)]))
Flatten(ts) == FoldLeft(LAMBDA s, t : s \o t.data, <<>>, ts)

-----------------------------------------------------------------------------
(* Blocks: to_list and from_list.                                          *)

Block(layout, shape, buf) == [layout |-> layout, shape |-> shape, buf |-> buf]
Batch(shape) == IF Len(shape) < 2 THEN 0 ELSE Len(shape) - 2

(* One tensor for every tile, or for every row of a row-major block.       *)
ToList(b) ==
  IF b.layout = "row"
  THEN LET rows == Front(b.shape) IN Listed(Prod(rows), LAMBDA n : Pick(b.buf, Place(rows, n - 1)))
  ELSE LET nb == Batch(b.shape)
           axes == 1..(Len(b.shape) - nb)
           side == [j \in axes |-> b.buf.dims[Len(b.buf.dims) - Len(b.shape) + nb + j] \div b.shape[nb + j]]
           Cut(c) == Narrow(Pick(b.buf, Head2(c, nb)), [j \in axes |-> c[nb + j] * side[j]],
                            [j \in axes |-> (c[nb + j] + 1) * side[j]])
       IN  Listed(Prod(b.shape), LAMBDA n : Cut(Place(b.shape, n - 1)))

(* Mutant of FromList: the tiles are laid out one after the other.         *)
FromListInOrder(ts, shape, layout) ==
  LET n == Len(ts[1].dims) IN
  IF n < 2 THEN Error
  ELSE Block(layout, shape, [dims |-> Head2(shape, Batch(shape)) \o
               <<shape[Len(shape) - 1] * ts[1].dims[n - 1], shape[Len(shape)] * ts[1].dims[n]>>,
             data |-> Flatten(ts)])

(* Rows are stacked; tiles are stacked and permuted, so that the rows of a *)
(* tile are strided over the row of tiles it is in.  The tiles of a block  *)
(* with one axis are put end to end, whatever their rank.                  *)
FromList(ts, shape, layout) ==
  LET dims == ts[1].dims
      n == Len(dims)
      th == dims[n - 1]
      tw == dims[n]
      nb == Batch(shape)
      stacked == [dims |-> shape \o <<th, tw>>, data |-> Flatten(ts)]
      Source(i) == Head2(i, nb) \o <<i[nb + 1] \div th, i[nb + 2] \div tw, i[nb + 1] % th, i[nb + 2] % tw>>
  IN  IF layout = "row" THEN Block(layout, shape, [dims |-> shape, data |-> Flatten(ts)])
      ELSE IF Len(shape) = 1
      THEN Block(layout, shape, [dims |-> <<Len(ts) * dims[1]>> \o Tail(dims), data |-> Flatten(ts)])
      ELSE IF n < 2 THEN Error
      ELSE Block(layout, shape,
                 Tensor(Head2(shape, nb) \o <<shape[nb + 1] * th, shape[nb + 2] * tw>>,
                        LAMBDA i : At(stacked, Source(i))))

(* tile_shape_from_tensor and tile_count_from_tensor.                      *)
TileShape(t) ==
  [k \in DOMAIN t.dims |->
     IF k <= Len(t.dims) - 2 THEN t.dims[k] ELSE IF t.dims[k] = 1 THEN 1 ELSE t.dims[k] \div TileSide]
Count(layout, t) == IF layout = "row" THEN Len(t.data) ELSE Prod(TileShape(t))

(* Block.from_tensor: dimensions that are not whole tiles are refused.     *)
FromTensor(layout, t) ==
  IF layout = "row" THEN Block(layout, t.dims, t)
  ELSE IF \E k \in DOMAIN t.dims : k > Len(t.dims) - 2 /\ t.dims[k] % TileSide # 0 THEN Error
  ELSE Block(layout, TileShape(t), t)

-----------------------------------------------------------------------------
(* Moving data.  A copy and a store compare the number of tiles alone; a   *)
(* tensor of another shape takes the place of the block's own.             *)

CopyIn(b, layout, t) ==
  IF layout # b.layout \/ Count(layout, t) # Prod(b.shape) THEN Error ELSE [b EXCEPT !.buf = t]
Store(dst, src) == IF Prod(src.shape) # Prod(dst.shape) THEN Error ELSE [dst EXCEPT !.buf = src.buf]
CopyOut(b, layout, t) ==
  IF layout # b.layout \/ Prod(b.shape) # Count(layout, t) THEN Error ELSE Reshape(b.buf, t.dims)
(* A receive from a pipe compares the shapes.                              *)
Receive(b, message) == IF message.dims # b.buf.dims THEN Error ELSE [b EXCEPT !.buf = message]

-----------------------------------------------------------------------------
(* Operations element by element; F and Holds are functions of numbers.    *)

Unary(b, F) ==
  LET Each(t) == [t EXCEPT !.data = [n \in DOMAIN @ |-> F[@[n]]]]
      tiles == ToList(b)
  IN  FromList(Listed(Len(tiles), LAMBDA n : Each(tiles[n])), b.shape, b.layout)

(* _apply_binary_op and, for Where, _apply_ternary_op: the layouts, then   *)
(* the shapes must agree.                                                  *)
Binary(a, b, F) ==
  LET as == ToList(a)
      bs == ToList(b)
      Each(n) == [as[n] EXCEPT !.data = [e \in DOMAIN @ |-> F[@[e], bs[n].data[e]]]]
  IN  IF a.layout # b.layout \/ a.shape # b.shape THEN Error
      ELSE FromList(Listed(Len(as), Each), a.shape, a.layout)

Mask(e, m) == Binary(e, m, [v, w \in Int |-> IF w = 1 THEN 0 ELSE v])
Compare(a, b, Holds) == Binary(a, b, [v, w \in Int |-> IF Holds[v, w] THEN 1 ELSE 0])
Where(c, t, f) ==
  LET cs == ToList(c)
      ts == ToList(t)
      fs == ToList(f)
      Each(n) == [cs[n] EXCEPT !.data = [e \in DOMAIN @ |-> IF @[e] = 1 THEN ts[n].data[e] ELSE fs[n].data[e]]]
  IN  IF \E x \in {t, f} : x.layout # c.layout \/ x.shape # c.shape THEN Error
      ELSE FromList(Listed(Len(cs), Each), c.shape, c.layout)

(* fill: a tensor of whole tiles of two axes or more.                      *)
Fill(v, shape) ==
  IF Len(shape) < 2 THEN Error
  ELSE Block("tile", shape, Tensor([k \in DOMAIN shape |-> IF k > Len(shape) - 2 THEN shape[k] * TileSide ELSE shape[k]],
                                   LAMBDA i : v))

-----------------------------------------------------------------------------
(* Operations on the grid.  dims is the sequence of Python indices.        *)

Axis(d, n) == (d % n) + 1
Axes(dims, n) == {Axis(dims[k], n) : k \in DOMAIN dims}
InRange(dims, n) == \A k \in DOMAIN dims : dims[k] >= -n /\ dims[k] < n

BroadcastOk(shape, dims, target) ==
  /\ dims # <<>>
  /\ Len(target) = Len(shape)
  /\ InRange(dims, Len(shape))
  /\ \A k \in DOMAIN shape :
       IF k \in Axes(dims, Len(shape)) THEN shape[k] = 1 ELSE shape[k] = target[k]

(* The seed of each tile (row 0, column 0) is spread over the tile, then   *)
(* the tile over the grid.                                                 *)
Broadcast(b, dims, target) ==
  LET n == Len(b.shape)
      on == Axes(dims, n)
      Tall(k) == b.buf.dims[k] \div b.shape[k]
      Source(i) == [k \in DOMAIN i |->
        IF k <= n - 2 THEN (IF b.shape[k] = 1 THEN 0 ELSE i[k])
        ELSE (IF b.shape[k] = 1 THEN 0 ELSE (i[k] \div Tall(k)) * Tall(k))
             + (IF k \in on THEN 0 ELSE i[k] % Tall(k))]
  IN  IF b.layout = "row" \/ n < 2 THEN Error
      ELSE IF ~BroadcastOk(b.shape, dims, target) THEN Error
      ELSE Block("tile", target,
                 Tensor([k \in 1..n |-> IF k <= n - 2 THEN target[k] ELSE target[k] * Tall(k)],
                        LAMBDA i : At(b.buf, Source(i))))

Collapse(op, f) == IF op = "sum" THEN FoldFunction(+, 0, f) ELSE Max(Range(f))

Reduced(shape, dims) == [k \in DOMAIN shape |-> IF k \in Axes(dims, Len(shape)) THEN 1 ELSE shape[k]]

(* _reduce_impl: tiles are combined across the grid, then within the tile  *)
(* along the last two axes; the result is left in row 0 and column 0 and   *)
(* the rest of the tile is zero.                                           *)
Reduce(b, dims, target, op) ==
  LET n == Len(b.shape)
      on == Axes(dims, n)
      tiles == ToList(b)
      Tile(c) == tiles[Offset(b.shape, c) + 1]
      From(c) == {x \in {Place(b.shape, m - 1) : m \in DOMAIN tiles} : \A k \in 1..n : k \notin on => x[k] = c[k]}
      Across(c, e) == Collapse(op, [x \in From(c) |-> At(Tile(x), e)])
      Last2(e) == Len(e) - 1
      Rows(e) == IF n - 1 \in on THEN {[e EXCEPT ![Last2(e)] = r] : r \in 0..(tiles[1].dims[Last2(e)] - 1)} ELSE {e}
      Square(e) == UNION {IF n \in on THEN {[f EXCEPT ![Len(f)] = c] : c \in 0..(tiles[1].dims[Len(f)] - 1)} ELSE {f} :
                          f \in Rows(e)}
      Seed(e) == /\ n - 1 \in on => e[Last2(e)] = 0
                 /\ n \in on => e[Len(e)] = 0
      Result(c) == Tensor(tiles[1].dims,
                          LAMBDA e : IF Seed(e) THEN Collapse(op, [f \in Square(e) |-> Across(c, f)]) ELSE 0)
  IN  IF b.layout = "row" \/ dims = <<>> \/ Len(target) # n THEN Error
      ELSE IF ~InRange(dims, n) THEN Error
      ELSE IF target # Reduced(b.shape, dims) THEN Error
      ELSE FromList(Listed(Prod(target), LAMBDA m : Result(Place(target, m - 1))), target, b.layout)

Transpose(b) ==
  LET M == b.shape[1]
      N == b.shape[2]
      Turned(t) == Tensor(<<t.dims[2], t.dims[1]>>, LAMBDA i : At(t, <<i[2], i[1]>>))
      tiles == ToList(b)
  IN  IF Len(b.shape) # 2 THEN Error
      ELSE FromList(Listed(N * M, LAMBDA m : Turned(tiles[((m - 1) % M) * N + (m - 1) \div M + 1])), <<N, M>>, b.layout)

Squeeze(b, dims) ==
  LET n == Len(b.shape)
      kept == SelectSeq([k \in 1..n |-> k], LAMBDA k : k \notin Axes(dims, n))
  IN  IF ~InRange(dims, n) THEN Error
      ELSE IF \E k \in Axes(dims, n) : b.shape[k] # 1 THEN Error
      ELSE FromList(ToList(b), [j \in DOMAIN kept |-> b.shape[kept[j]]], b.layout)

(* Positions are counted in the result, from a set: one given twice adds   *)
(* one axis.                                                               *)
Unsqueeze(b, dims) ==
  LET n == Len(b.shape) + Len(dims)
      Insert(s, k) == InsertAt(s, k, 1)
      shape[k \in 0..n] == IF k = 0 THEN b.shape
                           ELSE IF k \in Axes(dims, n) THEN Insert(shape[k - 1], k) ELSE shape[k - 1]
  IN  IF ~InRange(dims, n) THEN Error ELSE FromList(ToList(b), shape[n], b.layout)

(* _matmul_tile_shape and matmul: the grid comes from the shapes, the      *)
(* numbers from the buffers.                                               *)
MatmulShape(a, b) ==
  LET Out(k) == IF k <= Len(a) - 2 /\ (k > Len(b) - 2 \/ b[k] = 1) THEN a[k] ELSE b[k]
  IN  IF Len(b) = 1 THEN Front(a)
      ELSE IF Len(a) = 1 THEN Head2(b, Len(b) - 2) \o <<Last(b)>>
      ELSE IF Len(b) = 2 THEN Front(a) \o <<Last(b)>>
      ELSE [k \in 1..Len(a) - 2 |-> Out(k)] \o <<a[Len(a) - 1], Last(b)>>

Matmul(a, b) ==
  LET n == Len(a.buf.dims)
      Left(i, k) == Front(i) \o <<k>>
      Inner(i) == SubSeq(i, n - Len(b.buf.dims) + 1, n - 2)
      Right(i, k) == [j \in DOMAIN Inner(i) |-> IF b.buf.dims[j] = 1 THEN 0 ELSE Inner(i)[j]] \o <<k, Last(i)>>
  IN  IF a.layout # b.layout \/ Last(a.buf.dims) # b.buf.dims[Len(b.buf.dims) - 1] THEN Error
      ELSE Block(a.layout, MatmulShape(a.shape, b.shape),
                 Tensor(Front(a.buf.dims) \o <<Last(b.buf.dims)>>,
                        LAMBDA i : MapThenSumSet(LAMBDA k : At(a.buf, Left(i, k)) * At(b.buf, Right(i, k)),
                                                 0..(Last(a.buf.dims) - 1))))

-----------------------------------------------------------------------------
(* The compiled language (ttl/operators.py): the type of the result, or an *)
(* error.  A compiled block is known by its shape in tiles alone.          *)

Typed(shape) == [shape |-> shape]
(* An expression that the compiled language does not have.                 *)
Untyped == [untyped |-> TRUE]

TtlBroadcast(shape, dims, target) ==
  LET n == Len(shape)
      Norm(d) == IF d < 0 THEN d + n + 1 ELSE d + 1
      on == {Norm(dims[k]) : k \in DOMAIN dims}
  IN  IF dims = <<>> \/ Len(target) # n THEN Error
      ELSE IF \E k \in DOMAIN dims : dims[k] < -n \/ dims[k] >= n THEN Error
      ELSE IF \E k \in 1..n : shape[k] # (IF k \in on THEN 1 ELSE target[k]) THEN Error
      ELSE Typed(target)

(* Mutant of TtlReduce: an index from the end is not found in the shape.   *)
TtlReduceFromTheStart(shape, dims) ==
  IF Len(shape) # 2 \/ dims = <<>> \/ ~InRange(dims, 2) THEN Error
  ELSE Typed([k \in DOMAIN shape |-> IF \E j \in DOMAIN dims : dims[j] = k - 1 THEN 1 ELSE shape[k]])

TtlReduce(shape, dims) ==
  IF Len(shape) # 2 \/ dims = <<>> \/ ~InRange(dims, 2) THEN Error ELSE Typed(Reduced(shape, dims))

TtlTranspose(shape) == IF Len(shape) # 2 THEN Error ELSE Typed(<<shape[2], shape[1]>>)
TtlFill(shape) == IF shape = <<>> \/ \E k \in DOMAIN shape : shape[k] <= 0 THEN Error ELSE Typed(shape)
(* Elementwise operations and @ leave the operands to the verifier of the  *)
(* operation that they build.                                              *)
TtlMatmul(a, b) == IF Len(b) < 2 THEN Error ELSE Typed(<<a[1], b[2]>>)

(* A subscript of a tensor, an index or a range for every axis, for a      *)
(* block of the given shape.  The extent of a range is not looked at.      *)
TtlSlice(rank, isRange, shape) ==
  LET squeezed == rank - Len(shape) IN
  IF rank < 2 \/ Len(isRange) # rank \/ Len(shape) > rank THEN Error
  ELSE IF \E k \in 1..squeezed : isRange[k] THEN Error
  ELSE IF /\ \E k \in DOMAIN shape : shape[k] > 1
          /\ \A k \in DOMAIN isRange : k > squeezed => ~isRange[k]
  THEN Error ELSE Typed(shape)

-----------------------------------------------------------------------------
(* Programs.  block is the simulator's value of an expression and typed    *)
(* the compiler's type of it.  meant is what the expression means: the     *)
(* same numbers, with one element along an axis that was reduced and not   *)
(* broadcast again (seeds): only row 0 or column 0 of a tile counts there. *)

CONSTANTS Tensors, DimLists, MaxSteps
VARIABLES block, meant, seeds, typed, steps
blockVars == <<block, meant, seeds, typed, steps>>

Rank == Len(block.shape)
Every(dims) == {Place(dims, n - 1) : n \in 1..Prod(dims)}

(* A tensor copied into a block of its grid; and a part of it, cut out by  *)
(* a subscript with the index 0 on the axes in at and a full range on the  *)
(* others.                                                                 *)
Loaded(t) ==
  LET zero == Tensor(t.dims, LAMBDA i : 0) IN CopyIn(Block("tile", TileShape(t), zero), "tile", t)
Subscript(t, at) ==
  Narrow(t, [k \in DOMAIN t.dims |-> 0],
         [k \in DOMAIN t.dims |-> IF k \notin at THEN t.dims[k] ELSE IF k > Len(t.dims) - 2 THEN TileSide ELSE 1])

BlockInit ==
  \E t \in Tensors : \E at \in SUBSET DOMAIN t.dims :
    /\ meant = Subscript(t, at)
    /\ block = Loaded(meant)
    /\ seeds = {}
    /\ typed = (IF Rank = 2 THEN TtlSlice(2, [k \in DOMAIN t.dims |-> k \notin at], block.shape) ELSE Untyped)
    /\ steps = 0

Step(b, m, axes, type) ==
  /\ steps < MaxSteps
  /\ ~Failed(b)
  /\ block' = b
  /\ meant' = m
  /\ seeds' = axes
  /\ typed' = (IF typed = Untyped THEN Untyped ELSE type)
  /\ steps' = steps + 1

DoTranspose ==
  /\ Rank = 2
  /\ Step(Transpose(block), Tensor(<<meant.dims[2], meant.dims[1]>>, LAMBDA i : At(meant, <<i[2], i[1]>>)),
          {3 - k : k \in seeds}, TtlTranspose(block.shape))

(* Row 0 and column 0 of the block are what is broadcast.                  *)
DoBroadcast(dims, n) ==
  LET on == Axes(dims, Rank)
      target == [k \in 1..Rank |-> IF k \in on THEN n ELSE block.shape[k]]
      Extent(k) == IF k \notin on THEN meant.dims[k] ELSE IF k > Rank - 2 THEN n * TileSide ELSE n
  IN  Step(Broadcast(block, dims, target),
           Tensor([k \in 1..Rank |-> Extent(k)], LAMBDA i : At(meant, [k \in DOMAIN i |-> IF k \in on THEN 0 ELSE i[k]])),
           seeds \ on, TtlBroadcast(block.shape, dims, target))

(* An axis is reduced once: beyond its seed it holds no numbers.           *)
DoReduce(dims, op) ==
  LET on == Axes(dims, Rank)
      Along(i) == {j \in Every(meant.dims) : \A k \in DOMAIN i : k \notin on => j[k] = i[k]}
  IN  /\ on \cap seeds = {}
      /\ Step(Reduce(block, dims, Reduced(block.shape, dims), op),
              Tensor([k \in 1..Rank |-> IF k \in on THEN 1 ELSE meant.dims[k]],
                     LAMBDA i : Collapse(op, [j \in Along(i) |-> At(meant, j)])),
              seeds \cup {k \in on : k > Rank - 2}, TtlReduce(block.shape, dims))

(* Elementwise: -b, mask(b, b > 0), where(b > 0, b, fill).                 *)
DoNegate ==
  Step(Unary(block, [v \in Int |-> -v]), [meant EXCEPT !.data = [n \in DOMAIN @ |-> -@[n]]], seeds, typed)
DoMask ==
  Step(Mask(block, Compare(block, Fill(0, block.shape), [v, w \in Int |-> v > w])),
       [meant EXCEPT !.data = [n \in DOMAIN @ |-> Least(@[n], 0)]], seeds, typed)
DoWhere ==
  Step(Where(Compare(block, Fill(0, block.shape), [v, w \in Int |-> v > w]), block, Fill(7, block.shape)),
       [meant EXCEPT !.data = [n \in DOMAIN @ |-> IF @[n] > 0 THEN @[n] ELSE 7]], seeds, typed)

(* An axis of one block is put before the last two, or taken away.         *)
DoUnsqueeze(d) ==
  /\ Axis(d, Rank + 1) < Rank
  /\ Step(Unsqueeze(block, <<d>>), [meant EXCEPT !.dims = InsertAt(@, Axis(d, Rank + 1), 1)],
          {k + 1 : k \in seeds}, Untyped)
DoSqueeze(d) ==
  /\ Axis(d, Rank) < Rank - 1
  /\ Step(Squeeze(block, <<d>>), [meant EXCEPT !.dims = RemoveAt(@, Axis(d, Rank))], {k - 1 : k \in seeds}, Untyped)

DoMatmul(b) ==
  LET other == Loaded(b)
      Term(i, k) == At(meant, <<i[1], k>>) * At(b, <<k, i[2]>>)
  IN  /\ Rank = 2 /\ seeds = {} /\ Len(b.dims) = 2
      /\ Step(Matmul(block, other),
              Tensor(<<meant.dims[1], b.dims[2]>>, LAMBDA i : MapThenSumSet(LAMBDA k : Term(i, k), 0..(meant.dims[2] - 1))),
              {}, TtlMatmul(block.shape, other.shape))

(* Stored into a reserved block, sent through a pipe, copied out to a      *)
(* tensor and in again.                                                    *)
DoMove ==
  LET reserved == Fill(0, block.shape)
      received == Receive(reserved, Store(reserved, block).buf)
  IN  Step(Loaded(CopyOut(received, "tile", reserved.buf)), meant, seeds, typed)

BlockNext ==
  \/ DoTranspose \/ DoNegate \/ DoMask \/ DoWhere \/ DoMove
  \/ \E dims \in DimLists : \/ \E n \in 1..2 : DoBroadcast(dims, n)
                            \/ \E op \in {"sum", "max"} : DoReduce(dims, op)
  \/ \E d \in -2..1 : DoUnsqueeze(d) \/ DoSqueeze(d)
  \/ \E b \in Tensors : DoMatmul(b)

BlockSpec == BlockInit /\ [][BlockNext]_blockVars

(* Whatever is computed on it, a block holds at every element that counts  *)
(* the number that the expression means: no tile is taken for another,     *)
(* none of the padding of a reduced tile reaches a result (dfb.py 410-530, *)
(* block.py, math.py).                                                     *)
BlockHoldsItsMeaning ==
  /\ \A k \in 1..Rank : k \notin seeds => meant.dims[k] = block.buf.dims[k]
  /\ \A i \in Every(meant.dims) : At(block.buf, i) = At(meant, i)

(* An expression on two axes that the simulator computes, the compiler     *)
(* types, and the type has the shape of the block (operators.py).          *)
CompiledTypeIsTheBlocks == typed # Untyped => ~Failed(typed) /\ typed.shape = block.shape
=============================================================================
