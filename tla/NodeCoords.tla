------------------------------ MODULE NodeCoords ------------------------------
(***************************************************************************)
(* Node coordinates and the geometry of pipes: what node() and grid_size() *)
(* return on a grid of any rank (sim/nodecontext.py), which nodes a pipe   *)
(* names (sim/pipe.py, ttl/pipe.py), and the graph both front ends build   *)
(* of an operation's PipeNets (ttl/_pipenets).                             *)
(*                                                                         *)
(* A coordinate is a sequence; the code's plain int is the one of length   *)
(* 1, which every function here treats alike.  An item of a destination is *)
(* an int or a slice, both kept as a half-open interval.                   *)
(***************************************************************************)
EXTENDS Integers, Sequences, FiniteSets, SequencesExt, FiniteSetsExt, Functions

CONSTANT MaxHardwareSemaphoreIds

Volume(grid) == FoldSeq(LAMBDA d, v : d * v, 1, grid)

(* Mutant of Linearize: the axis to the left.                              *)
LinearizeLeft(coord, grid) ==
  LET upTo[i \in 1 .. Len(coord)] ==
        IF i = 1 THEN coord[1] ELSE upTo[i - 1] * grid[i - 1] + coord[i]
  IN  upTo[Len(coord)]
(* flatten_node_index and _linearize: row-major, an axis of the grid for   *)
(* each axis the coordinate has.                                           *)
Linearize(coord, grid) ==
  LET upTo[i \in 1 .. Len(coord)] ==
        IF i = 1 THEN coord[1] ELSE upTo[i - 1] * grid[i] + coord[i]
  IN  upTo[Len(coord)]

Padded(coord, dims, with) == coord \o [i \in 1 .. dims - Len(coord) |-> with]

GridSize(grid, dims) ==
  IF dims < Len(grid)
  THEN Append(SubSeq(grid, 1, dims - 1), Volume(SubSeq(grid, dims, Len(grid))))
  ELSE Padded(grid, dims, 1)

Digits(grid, n) ==
  [i \in DOMAIN grid |-> (n \div Volume(SubSeq(grid, i + 1, Len(grid)))) % grid[i]]

(* Fewer dimensions than the grid has: the first ones are flattened.       *)
Node(grid, n, dims) ==
  LET coord == Digits(grid, n)
      first == Len(grid) - dims + 1
  IN  IF dims < Len(grid)
      THEN <<Linearize(SubSeq(coord, 1, first), grid)>> \o SubSeq(coord, first + 1, Len(grid))
      ELSE Padded(coord, dims, 0)

Nodes(grid) == 0 .. Volume(grid) - 1

(* The compiler's: two dimensions only, core_x and core_y of a grid        *)
(* <<cols, rows>>.                                                         *)
TtlDimsOk(dims) == dims = 2
TtlGridSize(grid) == grid
TtlNode(x, y) == <<x, y>>

-----------------------------------------------------------------------------
(* Pipes.  _validate_dst_slice is called for the first three axes, by name *)
(* (x, y, z); the slices it accepts have bounds, an ascending range and no *)
(* stride.                                                                 *)

At(i) == [lo |-> i, hi |-> i + 1, slice |-> FALSE, step |-> 1]
Slice(lo, hi, step) == [lo |-> lo, hi |-> hi, slice |-> TRUE, step |-> step]
Pipe(src, dst) == [src |-> src, dst |-> dst]

SliceOk(item) == item.slice => (item.lo < item.hi /\ item.step = 1)
PipeOk(pipe) == \A i \in DOMAIN pipe.dst : i <= 3 => SliceOk(pipe.dst[i])
IsMulticast(dst) == \E i \in DOMAIN dst : dst[i].slice

(* The compiler's Pipe has two coordinates, its ends are inclusive.        *)
TtlPipeOk(pipe) == Len(pipe.src) = 2 /\ Len(pipe.dst) = 2 /\ PipeOk(pipe)
DstStart(pipe) == [i \in DOMAIN pipe.dst |-> pipe.dst[i].lo]
DstEnd(pipe) == [i \in DOMAIN pipe.dst |-> pipe.dst[i].hi - 1]

(* PipeUse, as each of the front ends makes it: a NodeCoord is the range   *)
(* of that one node, kept apart by its kind.                               *)
SimPipeUse(pipe) ==
  [src |-> pipe.src, ranged |-> IsMulticast(pipe.dst),
   lo |-> [i \in DOMAIN pipe.dst |-> pipe.dst[i].lo],
   hi |-> [i \in DOMAIN pipe.dst |-> pipe.dst[i].hi]]
TtlPipeUse(pipe) ==
  [src |-> pipe.src, ranged |-> IsMulticast(pipe.dst),
   lo |-> DstStart(pipe),
   hi |-> [i \in DOMAIN pipe.dst |-> DstEnd(pipe)[i] + 1]]

-----------------------------------------------------------------------------
(* OperationPipeNets: the nets of an operation, each the sequence of its   *)
(* pipe uses.                                                              *)

UsesOf(nets) == UNION {Range(net) : net \in Range(nets)}

NoMixedKinds(net) == \A p, q \in Range(net) : p.ranged = q.ranged
ConsistentRank(nets) ==
  Cardinality(UNION {{Len(use.src), Len(use.lo)} : use \in UsesOf(nets)}) <= 1

NetsOk(nets) ==
  /\ \A net \in Range(nets) : net # <<>> /\ NoMixedKinds(net)
  /\ ConsistentRank(nets)

ExpandDst(use) ==
  {coord \in [DOMAIN use.lo -> 0 .. Max({0} \cup Range(use.hi)) ] :
     \A i \in DOMAIN coord : use.lo[i] <= coord[i] /\ coord[i] < use.hi[i]}

(* None, every node takes part, when the operation has no PipeNet.         *)
ActiveNodeSet(nets, grid) ==
  IF nets = <<>> THEN Nodes(grid)
  ELSE UNION {{Linearize(coord, grid) : coord \in ExpandDst(use) \cup {use.src}} : use \in UsesOf(nets)}

PipesFrom(nets, src) ==
  FoldSeq(LAMBDA net, n : n + Len(SelectSeq(net, LAMBDA use : use.src = src)), 0, nets)
MaxPipesPerSource(nets) == Max({0} \cup {PipesFrom(nets, use.src) : use \in UsesOf(nets)})
UsesGlobalReadyCounters(nets) == Len(nets) + MaxPipesPerSource(nets) > MaxHardwareSemaphoreIds

NumPipeSyncSemaphores(nets) ==
  IF UsesGlobalReadyCounters(nets) THEN Len(nets) ELSE Len(nets) + MaxPipesPerSource(nets)
NumPipeGlobalSemaphores(nets) ==
  IF UsesGlobalReadyCounters(nets) THEN FoldSeq(LAMBDA net, n : n + Len(net), 0, nets) ELSE 0

-----------------------------------------------------------------------------
(* What a node of the simulator sees: PipeNet.is_src, is_dst, is_active.   *)

NodeInDstRange(dst, grid, n) ==
  LET coord == Node(grid, n, Len(dst))
  IN  \A i \in DOMAIN dst : dst[i].lo <= coord[i] /\ coord[i] < dst[i].hi

IsSrc(net, grid, n) == \E p \in Range(net) : Linearize(p.src, grid) = Node(grid, n, 1)[1]
IsDst(net, grid, n) == \E p \in Range(net) : NodeInDstRange(p.dst, grid, n)
IsActive(net, grid, n) == IsSrc(net, grid, n) \/ IsDst(net, grid, n)

(* The pipes if_src and if_dst call back for, in order.                    *)
IfSrc(net, grid, n) == SelectSeq(net, LAMBDA p : Linearize(p.src, grid) = Node(grid, n, 1)[1])
IfDst(net, grid, n) == SelectSeq(net, LAMBDA p : NodeInDstRange(p.dst, grid, n))

(* The coordinates a send through a pipe counts its receivers by.          *)
ExpandNodeRange(dst, grid) ==
  {coord \in [DOMAIN dst -> 0 .. Volume(grid)] :
     \A i \in DOMAIN dst : dst[i].lo <= coord[i] /\ coord[i] < dst[i].hi}

-----------------------------------------------------------------------------
(* Properties, of a grid and the PipeNets (sequences of pipes) of an       *)
(* operation on it.                                                        *)

InGrid(pipe, grid) ==
  LET size == GridSize(grid, Len(pipe.src)) IN
  /\ \A i \in DOMAIN pipe.src : 0 <= pipe.src[i] /\ pipe.src[i] < size[i]
  /\ \A i \in DOMAIN pipe.dst : 0 <= pipe.dst[i].lo /\ pipe.dst[i].hi <= size[i]

Uses(UseOf(_), nets) == [k \in DOMAIN nets |-> [i \in DOMAIN nets[k] |-> UseOf(nets[k][i])]]

(* The coordinates a PipeNet takes: linear ones, or as many as the grid    *)
(* has axes ("coords is a tuple of length matching the operation's grid    *)
(* rank", _pipenets), all on the grid.                                     *)
WellFormed(nets, grid) ==
  /\ NetsOk(Uses(SimPipeUse, nets))
  /\ \A pipe \in UsesOf(nets) :
       PipeOk(pipe) /\ Len(pipe.src) \in {1, Len(grid)} /\ InGrid(pipe, grid)

(* The nodes the simulator starts kernels on are those that is_active()    *)
(* is true on, so no node that a pipe names is left out and its partner    *)
(* stuck; and the compiler's graph, where it accepts the pipes, is the     *)
(* simulator's, so both launch the same nodes.                             *)
ActiveSetIsWhoTakesPart(nets, grid) ==
  WellFormed(nets, grid) =>
    /\ ActiveNodeSet(Uses(SimPipeUse, nets), grid)
         = {n \in Nodes(grid) : nets = <<>> \/ \E net \in Range(nets) : IsActive(net, grid, n)}
    /\ (\A pipe \in UsesOf(nets) : TtlPipeOk(pipe)) => Uses(TtlPipeUse, nets) = Uses(SimPipeUse, nets)

(* A pipe's message stays in its queue until as many nodes have read it as *)
(* its destination expands to: they are those whose if_dst calls back for  *)
(* the pipe, each once, and one node sends it.                             *)
EveryReceiverIsCounted(nets, grid) ==
  WellFormed(nets, grid) =>
    \A net \in Range(nets) : \A i \in DOMAIN net :
      LET pipe == net[i]
          receivers == {n \in Nodes(grid) : pipe \in Range(IfDst(net, grid, n))}
      IN  /\ Cardinality(ExpandNodeRange(pipe.dst, grid)) = Cardinality(receivers)
          /\ {Linearize(coord, grid) : coord \in ExpandNodeRange(pipe.dst, grid)} = receivers
          /\ Cardinality({n \in Nodes(grid) : pipe \in Range(IfSrc(net, grid, n))}) = 1

(* The nodes of a kernel that asks for any number of dimensions get as     *)
(* many coordinates as there are nodes.  They are those below grid_size(), *)
(* so that a kernel that strides its work by it from its node does all of  *)
(* it, unless it asks for some dimensions of more: node() folds the first  *)
(* ones together, grid_size() the last ones, and those have to come to the *)
(* same.  The compiler gives the same coordinates where it gives any.      *)
FoldedFirst(grid, dims) ==
  <<Volume(SubSeq(grid, 1, Len(grid) - dims + 1))>> \o SubSeq(grid, Len(grid) - dims + 2, Len(grid))
NodesFillTheGrid(grid) ==
  \A dims \in 1 .. Len(grid) + 1 :
    LET size == GridSize(grid, dims)
        coords == {Node(grid, n, dims) : n \in Nodes(grid)}
    IN  /\ Cardinality(coords) = Volume(grid) /\ Volume(size) = Volume(grid)
        /\ (\A c \in coords : \A i \in 1 .. dims : c[i] < size[i])
             <=> (dims < Len(grid) => FoldedFirst(grid, dims) = size)
        /\ TtlDimsOk(dims) /\ Len(grid) = 2 =>
             /\ size = TtlGridSize(grid)
             /\ coords = {TtlNode(x, y) : x \in 0 .. grid[1] - 1, y \in 0 .. grid[2] - 1}
=============================================================================
