------------------------------ MODULE SimTensor ------------------------------
(***************************************************************************)
(* What the simulator's ttnn knows of a tensor besides its numbers         *)
(* (sim/ttnnsim.py, sim/sharding.py): how indexing moves the origin of a   *)
(* view, how a tensor is cut into shards over a grid of cores and which of *)
(* a view's elements are local to a core, how work is split over cores,    *)
(* and the collectives over a mesh of devices, which the simulator keeps   *)
(* in one tensor.                                                          *)
(*                                                                         *)
(* Positions in a tensor are sequences counted from 0; axes count from 1.  *)
(***************************************************************************)
EXTENDS Integers, Sequences, FiniteSets, SequencesExt, FiniteSetsExt, Functions

CONSTANT TileSize

Prod(s) == FoldSeq(LAMBDA d, v : d * v, 1, s)
CeilDiv(a, b) == (a + b - 1) \div b
Rows(s) == s[Len(s) - 1]
Cols(s) == s[Len(s)]

-----------------------------------------------------------------------------
(* Indexing.  A selector is an interval, or open: a slice without bounds.  *)
(* A view is the part of a root tensor that a chain of indexings selects;  *)
(* origin is the attribute _element_origin, place where the part really    *)
(* begins.                                                                 *)

Sel(lo, hi) == [lo |-> lo, hi |-> hi, open |-> FALSE]
OpenSel == [lo |-> 0, hi |-> 0, open |-> TRUE]
Root(shape, layout) ==
  [shape |-> shape, layout |-> layout,
   origin |-> [i \in DOMAIN shape |-> 0], place |-> [i \in DOMAIN shape |-> 0]]

Tiled(view, i) == view.layout = "tile" /\ i > Len(view.shape) - 2

(* The errors of _to_element_key: rank, alignment, and for tiles the       *)
(* bounds of the slice.                                                    *)
KeyOk(view, key) ==
  /\ Len(key) = Len(view.shape)
  /\ \A i \in DOMAIN key : Tiled(view, i) =>
       /\ view.shape[i] = 1 \/ view.shape[i] % TileSize = 0
       /\ ~key[i].open

ElementKey(view, key) ==
  [i \in DOMAIN key |->
     IF Tiled(view, i) THEN Sel(key[i].lo * TileSize, key[i].hi * TileSize) ELSE key[i]]

(* Mutant of GetItem: the origin is that of the last indexing alone.       *)
GetItemFromParent(view, key) ==
  LET ek == ElementKey(view, key)
      Lo(i) == IF ek[i].open THEN 0 ELSE ek[i].lo
      Hi(i) == IF ek[i].open THEN view.shape[i] ELSE Min({ek[i].hi, view.shape[i]})
  IN  [view EXCEPT !.shape = [i \in DOMAIN key |-> Max({0, Hi(i) - Lo(i)})],
                   !.place = [i \in DOMAIN key |-> @[i] + Lo(i)],
                   !.origin = IF \E i \in DOMAIN key : ek[i].open THEN @ ELSE [i \in DOMAIN key |-> ek[i].lo]]

(* __getitem__: an open slice has no start, and the view keeps its         *)
(* parent's origin on every axis.                                          *)
GetItem(view, key) ==
  LET ek == ElementKey(view, key)
      Lo(i) == IF ek[i].open THEN 0 ELSE ek[i].lo
      Hi(i) == IF ek[i].open THEN view.shape[i] ELSE Min({ek[i].hi, view.shape[i]})
  IN  [view EXCEPT !.shape = [i \in DOMAIN key |-> Max({0, Hi(i) - Lo(i)})],
                   !.place = [i \in DOMAIN key |-> @[i] + Lo(i)],
                   !.origin = IF \E i \in DOMAIN key : ek[i].open THEN @
                              ELSE [i \in DOMAIN key |-> @[i] + ek[i].lo]]

-----------------------------------------------------------------------------
(* Cores.  A range is << x0, y0, x1, y1 >>, both ends included.            *)

NumCores(ranges) == FoldSeq(LAMBDA r, n : n + (r[3] - r[1] + 1) * (r[4] - r[2] + 1), 0, ranges)

CoreGrid(ranges) ==
  LET of == Range(ranges)
  IN  [y |-> Max({r[4] : r \in of}) - Min({r[2] : r \in of}) + 1,
       x |-> Max({r[3] : r \in of}) - Min({r[1] : r \in of}) + 1]

(* num_cores_to_corerangeset: a row, a column, or the bounding box of the  *)
(* first cores in row-major order.                                         *)
NumCoresToCoreRangeSet(n, rows, cols) ==
  IF n <= cols THEN << <<0, 0, n - 1, 0>> >>
  ELSE IF n <= rows THEN << <<0, 0, 0, n - 1>> >>
  ELSE << <<0, 0, cols - 1, (n - 1) \div cols>> >>

(* The order in which split_work_to_cores takes the cores: of a grid, by   *)
(* rows or by columns; of ranges, each by rows.                            *)
GridCores(x, y, rowWise) ==
  [i \in 1 .. x * y |-> IF rowWise THEN <<(i - 1) % x, (i - 1) \div x>> ELSE <<(i - 1) \div y, (i - 1) % y>>]
RangeCores(ranges) ==
  FoldLeft(LAMBDA cores, r :
             cores \o [i \in 1 .. NumCores(<<r>>) |->
                         <<r[1] + ((i - 1) % (r[3] - r[1] + 1)), r[2] + ((i - 1) \div (r[3] - r[1] + 1))>>],
           <<>>, ranges)

SplitCores(cores, units) ==
  LET used == Min({Len(cores), units})
      more == units % used
      each == units \div used
  IN  IF more > 0
      THEN [used |-> used, group1 |-> SubSeq(cores, 1, more), group2 |-> SubSeq(cores, more + 1, used),
            units1 |-> each + 1, units2 |-> each]
      ELSE [used |-> used, group1 |-> SubSeq(cores, 1, used), group2 |-> <<>>,
            units1 |-> each, units2 |-> 0]

-----------------------------------------------------------------------------
(* Memory configurations: the strategy, the grid of shards and the size of *)
(* one.                                                                    *)

Shards(strategy, grid, shard, cores) == [strategy |-> strategy, grid |-> grid, shard |-> shard, cores |-> cores]

(* MemoryConfig of a layout and a ShardSpec whose grid is a set of ranges. *)
MemoryConfig(strategy, cg, shard) ==
  Shards(strategy, IF strategy = "block" THEN <<cg.y, cg.x>> ELSE <<cg.x * cg.y>>, shard, cg.x * cg.y)

(* create_sharded_memory_config: leading axes are collapsed into the       *)
(* height.                                                                 *)
ShardedConfig(strategy, shape, cg) ==
  LET height == Prod(Front(shape))
      width == Last(shape)
      n == cg.x * cg.y
  IN  MemoryConfig(strategy, cg,
                   CASE strategy = "height" -> <<height \div n, width>>
                     [] strategy = "width" -> <<height, width \div n>>
                     [] strategy = "block" -> <<height \div cg.y, width \div cg.x>>)

(* _distribute_cores_across_dims: prime factors dealt out in turn; at the  *)
(* last one, or a prime that is left, the loop ends.                       *)
PrimeFactors(n) ==
  LET f[m \in 1 .. n] ==
        IF m = 1 THEN <<>>
        ELSE LET p == Min({d \in 2 .. m : m % d = 0}) IN <<p>> \o f[m \div p]
  IN  f[n]
Distribute(n, k) ==
  LET primes == PrimeFactors(n)
      dealt == [i \in 1 .. k |-> Prod([j \in DOMAIN primes |-> IF (j - 1) % k = i - 1 THEN primes[j] ELSE 1])]
  IN  SortSeq(dealt, >)

(* _nd_shard_spec_for_dims: larger factors on the earlier axes; sizes are  *)
(* rounded up.                                                             *)
NdAcrossDims(shape, dims, ranges) ==
  LET order == SetToSortSeq(dims, <)
      factors == Distribute(NumCores(ranges), Len(order))
      grid == [i \in DOMAIN shape |->
                 IF i \in dims THEN factors[CHOOSE k \in DOMAIN order : order[k] = i] ELSE 1]
  IN  Shards("grid", grid, [i \in DOMAIN shape |-> CeilDiv(shape[i], grid[i])], Prod(grid))

(* NdShardSpec.with_resolved_shard_grid: the grid of a spec that has only  *)
(* the size of its shards, which must cut every axis without a rest.       *)
NdResolvable(shape, shard) == \A i \in DOMAIN shape : shard[i] >= 1 /\ shape[i] % shard[i] = 0
NdResolved(shape, shard) ==
  LET grid == [i \in DOMAIN shape |-> shape[i] \div shard[i]] IN Shards("grid", grid, shard, Prod(grid))

(* An explicit grid keeps the default distribution.                        *)
NdRoundRobin(grid, shard, cores) == Shards("robin", grid, shard, cores)

(* TensorSpec: the sharding that a call of height_sharded(), ...,          *)
(* nd_sharded() gives to a tensor of this shape.                           *)
TensorSpec(shape, sharding) ==
  CASE sharding.by = "dims" -> NdAcrossDims(shape, sharding.dims, sharding.ranges)
    [] sharding.by = "shard" -> NdResolved(shape, sharding.shard)
    [] OTHER -> ShardedConfig(sharding.by, shape, CoreGrid(sharding.ranges))

(* from_torch: tiles fill the last two axes of a tensor of tiles; what the *)
(* spec computed from the shape it was given stays.                        *)
PadToTileAlignment(shape, layout) ==
  [i \in DOMAIN shape |->
     IF layout = "tile" /\ i > Len(shape) - 2 THEN TileSize * CeilDiv(shape[i], TileSize) ELSE shape[i]]
FromTorch(shape, layout) == Root(PadToTileAlignment(shape, layout), layout)

-----------------------------------------------------------------------------
(* Which elements of a view are local to a core: the counts per strategy.  *)

Positions(origin, shape) ==
  {p \in [DOMAIN shape -> 0 .. Max({0} \cup {origin[i] + shape[i] : i \in DOMAIN shape})] :
     \A i \in DOMAIN shape : origin[i] <= p[i] /\ p[i] < origin[i] + shape[i]}

Owned(first, size, index) == first * size <= index /\ index < (first + 1) * size
Along(from, size, core, shard) == Cardinality({r \in from .. from + size - 1 : Owned(core, shard, r)})

LinearToNd(linear, grid) ==
  [i \in DOMAIN grid |-> (linear \div Prod(SubSeq(grid, i + 1, Len(grid)))) % grid[i]]

HeightLocal(core, mc, origin, shape) == Along(Rows(origin), Rows(shape), core, Rows(mc.shard)) * Cols(shape)
WidthLocal(core, mc, origin, shape) == Along(Cols(origin), Cols(shape), core, Cols(mc.shard)) * Rows(shape)
BlockLocal(core, mc, origin, shape) ==
  Along(Rows(origin), Rows(shape), core \div Cols(mc.grid), Rows(mc.shard))
    * Along(Cols(origin), Cols(shape), core % Cols(mc.grid), Cols(mc.shard))
GridLocal(core, mc, origin, shape) ==
  LET at == LinearToNd(core, mc.grid)
  IN  Cardinality({p \in Positions(origin, shape) : \A i \in DOMAIN p : Owned(at[i], mc.shard[i], p[i])})
RobinLocal(core, mc, origin, shape) ==
  LET Stride(i) == Prod(SubSeq(mc.grid, i + 1, Len(mc.grid)))
      Shard(p) == FoldSeq(LAMBDA i, n : n + (p[i] \div mc.shard[i]) * Stride(i), 0, [i \in DOMAIN p |-> i])
  IN  Cardinality({p \in Positions(origin, shape) : Shard(p) % mc.cores = core})

Local(core, mc, view) ==
  CASE mc.strategy = "height" -> HeightLocal(core, mc, view.origin, view.shape)
    [] mc.strategy = "width" -> WidthLocal(core, mc, view.origin, view.shape)
    [] mc.strategy = "block" -> BlockLocal(core, mc, view.origin, view.shape)
    [] mc.strategy = "grid" -> GridLocal(core, mc, view.origin, view.shape)
    [] mc.strategy = "robin" -> RobinLocal(core, mc, view.origin, view.shape)

-----------------------------------------------------------------------------
(* Tensors over a mesh.  mesh is << rows, columns >>, dims the axis of the *)
(* tensor that each of the two cuts, or 0.                                 *)

(* The mesh mappers of from_torch: an axis is <<>>, or counted from either *)
(* end; a mapper for one axis takes the mesh as a row.                     *)
MeshAxis(dim, rank) == IF dim = <<>> THEN 0 ELSE (dim[1] % rank) + 1
MeshShardInfo(mapper, rank) ==
  [mesh |-> IF Len(mapper.dims) = 1 THEN <<1, Prod(mapper.mesh)>> ELSE mapper.mesh,
   dims |-> IF Len(mapper.dims) = 1 THEN <<0, MeshAxis(mapper.dims[1], rank)>>
            ELSE [k \in 1 .. 2 |-> MeshAxis(mapper.dims[k], rank)]]

Tensor(shape, At(_)) == [shape |-> shape, at |-> [p \in Positions([i \in DOMAIN shape |-> 0], shape) |-> At(p)]]
Narrow(t, d, from, size) ==
  Tensor([t.shape EXCEPT ![d] = size], LAMBDA p : t.at[[p EXCEPT ![d] = @ + from]])
(* torch.cat of tensors of one shape.                                      *)
Cat(ts, d) ==
  LET size == ts[1].shape[d]
  IN  Tensor([ts[1].shape EXCEPT ![d] = size * Len(ts)],
             LAMBDA p : ts[p[d] \div size + 1].at[[p EXCEPT ![d] = @ % size]])
Sum(ts) == Tensor(ts[1].shape, LAMBDA p : FoldSeq(LAMBDA t, v : v + t.at[p], 0, ts))

Axes(mesh, dims, axis) ==
  SelectSeq(IF axis = 0 THEN <<1, 2>> ELSE <<axis>>, LAMBDA k : dims[k] # 0 /\ mesh[k] > 1)
Pieces(t, d, n) == [i \in 1 .. n |-> Narrow(t, d, (i - 1) * (t.shape[d] \div n), t.shape[d] \div n)]
Copies(t, n) == [i \in 1 .. n |-> t]

AllReduce(t, mesh, dims, axis) ==
  FoldLeft(LAMBDA r, k : Cat(Copies(Sum(Pieces(r, dims[k], mesh[k])), mesh[k]), dims[k]),
           t, Axes(mesh, dims, axis))

(* Mutant of AllGather: the copies are put along the gathered axis.        *)
AllGatherAlong(t, mesh, dims, axis, dim) ==
  FoldLeft(LAMBDA r, k : Cat(Copies(Cat(Pieces(r, dims[k], mesh[k]), dim), mesh[k]), dim),
           t, Axes(mesh, dims, axis))
AllGather(t, mesh, dims, axis, dim) ==
  FoldLeft(LAMBDA r, k : Cat(Copies(Cat(Pieces(r, dims[k], mesh[k]), dim), mesh[k]), dims[k]),
           t, Axes(mesh, dims, axis))

-----------------------------------------------------------------------------
(* Properties                                                              *)

(* The core an element of the root belongs to: its shard's, in the order   *)
(* the strategy numbers shards.                                            *)
Owner(mc, p) ==
  LET Shard(i) == p[i] \div mc.shard[i]
      linear[i \in 0 .. Len(p)] == IF i = 0 THEN 0 ELSE linear[i - 1] * mc.grid[i] + Shard(i)
  IN  CASE mc.strategy = "height" -> Rows(p) \div Rows(mc.shard)
        [] mc.strategy = "width" -> Cols(p) \div Cols(mc.shard)
        [] mc.strategy = "block" -> (Rows(p) \div Rows(mc.shard)) * Cols(mc.grid) + Cols(p) \div Cols(mc.shard)
        [] mc.strategy = "grid" -> linear[Len(p)]
        [] mc.strategy = "robin" -> linear[Len(p)] % mc.cores

View(root, keys) == FoldLeft(GetItem, root, keys)
KeysOk(root, keys) == \A i \in DOMAIN keys : KeyOk(View(root, SubSeq(keys, 1, i - 1)), keys[i])
(* A start on some axis, and a slice without bounds on another.            *)
LosesItsStart(key) == (\E i \in DOMAIN key : key[i].open) /\ (\E i \in DOMAIN key : ~key[i].open /\ key[i].lo # 0)

(* Each core finds as many of the view's elements local as lie in its      *)
(* shard of the root.                                                      *)
LocalIsOwned(root, mc, keys) ==
  LET view == View(root, keys)
      elements == Positions(view.place, view.shape)
  IN  \A core \in 0 .. mc.cores - 1 :
        Local(core, mc, view) = Cardinality({p \in elements : Owner(mc, p) = core})

(* The local elements the statistics report for a view, however deep the   *)
(* chain of indexings it came from, are the elements of the root tensor it *)
(* shows that lie in this core's shard; so each is local to one core.  The *)
(* origin is lost by one kind of indexing only: t[1:3, :] keeps that of t. *)
LocalityIsOwnership(root, mc, keys) ==
  LET view == View(root, keys)
      kept == \A key \in Range(keys) : ~LosesItsStart(key)
  IN  (kept <=> view.origin = view.place) /\ (kept => LocalIsOwned(root, mc, keys))

(* split_work_to_cores gives every unit of work to one core.               *)
CoresShareTheWork(cores, units) ==
  LET w == SplitCores(cores, units)
      all == w.group1 \o w.group2
  IN  /\ Range(all) \subseteq Range(cores) /\ Len(all) = w.used /\ IsInjective(all)
      /\ Len(w.group1) * w.units1 + Len(w.group2) * w.units2 = units

(* What device d of the mesh holds of a tensor: a piece along each axis    *)
(* the mesh cuts.                                                          *)
OnDevice(t, mesh, dims, d) ==
  FoldLeft(LAMBDA r, k : IF dims[k] = 0 THEN r ELSE Pieces(r, dims[k], mesh[k])[d[k]], t, <<1, 2>>)
Group(mesh, k, d) == [i \in 1 .. mesh[k] |-> [d EXCEPT ![k] = i]]

Held(t, mesh, dims, axis, d) == [i \in 1 .. mesh[axis] |-> OnDevice(t, mesh, dims, Group(mesh, axis, d)[i])]

(* Every device holds the pieces of its row or column, one behind the      *)
(* other.                                                                  *)
AllGathered(t, mesh, dims, axis, dim) ==
  \A d \in (1 .. mesh[1]) \X (1 .. mesh[2]) :
    OnDevice(AllGather(t, mesh, dims, axis, dim), mesh, dims, d) = Cat(Held(t, mesh, dims, axis, d), dim)

(* After a collective along one axis of the mesh every device holds the    *)
(* sum, or the concatenation, of the pieces of the devices in its row or   *)
(* column, although the simulator has one tensor for all of them.  Only a  *)
(* gather along the axis that the other axis of the mesh cuts goes wrong:  *)
(* that one cuts the gathered pieces again.                                *)
CollectivesReachAll(t, mesh, dims, axis, dim) ==
  dims[axis] # 0 =>
    /\ \A d \in (1 .. mesh[1]) \X (1 .. mesh[2]) :
         OnDevice(AllReduce(t, mesh, dims, axis), mesh, dims, d) = Sum(Held(t, mesh, dims, axis, d))
    /\ AllGathered(t, mesh, dims, axis, dim)
         <=> (dim = dims[3 - axis] => mesh[1] = 1 \/ mesh[2] = 1)
=============================================================================
