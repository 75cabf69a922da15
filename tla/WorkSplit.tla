------------------------------ MODULE WorkSplit ------------------------------
(***************************************************************************)
(* Dividing work over the nodes of a grid, and choosing the blocks of a    *)
(* matrix multiplication (python/utils/block_allocation.py).               *)
(*                                                                         *)
(* A grid is a sequence of sizes, the last one x and the one before it y.  *)
(* A range is a pair of coordinates, both included.                        *)
(***************************************************************************)
EXTENDS Integers, Sequences, FiniteSets, SequencesExt, FiniteSetsExt, Functions

Product(s) == FoldSeq(LAMBDA d, v : d * v, 1, s)
Zeros(rank) == [i \in 1 .. rank |-> 0]

RemoveLeadingOnes(grid) ==
  LET big == {i \in DOMAIN grid : grid[i] # 1}
  IN  IF big = {} THEN <<>> ELSE SubSeq(grid, Min(big), Len(grid))

(* num_nodes_to_grid_ranges, for rows and for columns at once: lines of    *)
(* `along' nodes, of which there are `lines', from place `at' of line      *)
(* `line'.  A range is << first line, first place, last line, last >>.     *)
LineRanges(line, at, target, along) ==
  LET opens == at # 0 /\ target > along - at
      left == IF opens THEN target - (along - at) ELSE target
      l1 == IF opens THEN line + 1 ELSE line
      a1 == IF opens THEN 0 ELSE at
      full == left \div along
      l2 == l1 + full
      a2 == IF full > 0 THEN 0 ELSE a1
      tail == left % along
  IN  (IF opens THEN << <<line, at, line, along - 1>> >> ELSE <<>>)
        \o (IF full > 0 THEN << <<l1, a1, l2 - 1, along - 1>> >> ELSE <<>>)
        \o (IF tail > 0 THEN << <<l2, a2, l2, a2 + tail - 1>> >> ELSE <<>>)

X(coord) == coord[Len(coord)]
Y(coord) == coord[Len(coord) - 1]
Coord(rank, y, x) == Zeros(rank - 2) \o <<y, x>>

(* The assertions on the way: the start is on the grid, and as many nodes  *)
(* are left as asked for.                                                  *)
Available(start, grid, rowWise) ==
  IF rowWise THEN (Y(grid) - 1 - Y(start)) * X(grid) + X(grid) - X(start)
             ELSE (X(grid) - 1 - X(start)) * Y(grid) + Y(grid) - Y(start)
RangesAssert(start, target, grid, rowWise) ==
  X(start) < X(grid) /\ Y(start) < Y(grid) /\ target <= Available(start, grid, rowWise)

GridRanges(start, target, grid, rowWise) ==
  LET rank == Len(grid)
      lines == IF rowWise THEN LineRanges(Y(start), X(start), target, X(grid))
                          ELSE LineRanges(X(start), Y(start), target, Y(grid))
      End(line, at) == IF rowWise THEN Coord(rank, line, at) ELSE Coord(rank, at, line)
  IN  [i \in DOMAIN lines |-> << End(lines[i][1], lines[i][2]), End(lines[i][3], lines[i][4]) >>]

(* Mutant of Behind: the first node of the next line, always.              *)
BehindLine(last, grid, rowWise) ==
  IF rowWise THEN Coord(Len(grid), Y(last) + 1, 0) ELSE Coord(Len(grid), 0, X(last) + 1)
(* Where group 2 of an uneven split starts: behind the last node of group  *)
(* 1, on the next line when that one closes its own.                       *)
Behind(last, grid, rowWise) ==
  LET rank == Len(grid)
  IN  IF rowWise
      THEN IF X(last) # X(grid) - 1 THEN Coord(rank, Y(last), X(last) + 1) ELSE Coord(rank, Y(last) + 1, 0)
      ELSE IF Y(last) # Y(grid) - 1 THEN Coord(rank, Y(last) + 1, X(last)) ELSE Coord(rank, 0, X(last) + 1)

Work(nodes, group1, group2, units1, units2) ==
  [nodes |-> nodes, group1 |-> group1, group2 |-> group2, units1 |-> units1, units2 |-> units2]

(* One axis: the ranges are intervals of it.                               *)
SplitLine(grid, units, total) ==
  LET rank == Len(grid)
      At(x) == Append(Zeros(rank - 1), x)
      each == units \div total
      more == units % total
  IN  CASE total >= units -> Work(units, << <<At(0), At(units - 1)>> >>, <<>>, 1, 0)
        [] total < units /\ more = 0 -> Work(total, << <<At(0), At(total - 1)>> >>, <<>>, each, 0)
        [] OTHER -> Work(total, << <<At(0), At(more - 1)>> >>, << <<At(more), At(total - 1)>> >>, each + 1, each)

SplitPlane(grid, units, total, rowWise) ==
  LET first == Zeros(Len(grid))
      each == units \div total
      more == units % total
      group1 == GridRanges(first, more, grid, rowWise)
  IN  CASE total >= units -> Work(units, GridRanges(first, units, grid, rowWise), <<>>, 1, 0)
        [] total < units /\ more = 0 ->
             Work(total, << <<first, Coord(Len(grid), Y(grid) - 1, X(grid) - 1)>> >>, <<>>, each, 0)
        [] OTHER ->
             Work(total, group1,
                  GridRanges(Behind(group1[Len(group1)][2], grid, rowWise), total - more, grid, rowWise),
                  each + 1, each)

(* split_work_to_nodes.  A grid of ones only has no axis left and falls    *)
(* through both branches: the function returns None.                       *)
None == Work(-1, <<>>, <<>>, 0, 0)
SplitWork(grid, units, rowWise) ==
  LET axes == Len(RemoveLeadingOnes(grid)) IN
  IF units = 0 THEN Work(0, <<>>, <<>>, 0, 0)
  ELSE CASE axes = 1 -> SplitLine(grid, units, Product(grid))
         [] axes = 2 -> SplitPlane(grid, units, Product(grid), rowWise)
         [] axes = 0 -> None

-----------------------------------------------------------------------------
(* Blocks of a multiplication of Mt by Nt tiles.                           *)

PrimeDivisors(n) == {p \in 2 .. n : n % p = 0 /\ \A d \in 2 .. p - 1 : p % d # 0}

(* The part of n made of the primes that are too many for the nodes: each  *)
(* node keeps it whole (math.prod of the large factors).                   *)
LargePart(n, nodes) == Max({d \in 1 .. n : n % d = 0 /\ \A p \in PrimeDivisors(d) : p > nodes})

(* Sorted products of the other prime factors: divisors of what is left.   *)
PossibleProducts(n) == SelectSeq([d \in 1 .. n |-> d], LAMBDA d : n % d = 0)

MaximumBlockDim(blockDim, width) ==
  Max({0, (400 - 2 * width * blockDim) \div (2 * width + blockDim)})

SubblockHWChoices ==
  << <<4, 2>>, <<2, 4>>, <<8, 1>>, <<1, 8>>, <<7, 1>>, <<1, 7>>, <<3, 2>>, <<2, 3>>, <<6, 1>>, <<1, 6>>,
     <<5, 1>>, <<1, 5>>, <<2, 2>>, <<4, 1>>, <<1, 4>>, <<3, 1>>, <<1, 3>>, <<2, 1>>, <<1, 2>>, <<1, 1>> >>

Params(h, w) ==
  LET fits == SelectSeq(SubblockHWChoices, LAMBDA sub : h % sub[1] = 0 /\ w % sub[2] = 0)
  IN  [h |-> h, w |-> w, subH |-> fits[1][1], subW |-> fits[1][2]]
NoParams == [h |-> 0, w |-> 0, subH |-> 0, subW |-> 0]

(* The loops over the choices: the last one within the limit, what the     *)
(* variable held before when there is none.                                *)
LargestWithin(choices, scale, limit, before) ==
  FoldLeft(LAMBDA best, e : IF e * scale <= limit THEN e * scale ELSE best, before, choices)

(* Cases 1 and 2: one dimension is held at the part no node can share.     *)
OneDimension(fixed, choices, scale, width) ==
  LargestWithin(choices, scale, MaximumBlockDim(fixed, width), scale)

(* Case 3, over the choices of Npc; Mpc is not reset between them.         *)
Case3(Mt, Nt, y, x, width) ==
  LET ms == PossibleProducts(Mt)
      ns == PossibleProducts(Nt)
      mpc[i \in 0 .. Len(ns)] ==
        IF i = 0 THEN 1 ELSE LargestWithin(ms, 1, MaximumBlockDim(ns[i], width), mpc[i - 1])
      fits == {i \in 1 .. Len(ns) : Mt \div mpc[i] <= y /\ Nt \div ns[i] <= x}
  IN  IF fits = {} THEN NoParams ELSE Params(mpc[Min(fits)], ns[Min(fits)])

LargeMatmulParams(Mt, Nt, y, x, width) ==
  LET mMin == LargePart(Mt, y)
      nMin == LargePart(Nt, x)
      Fitting(h, w) == IF Mt \div h > y \/ Nt \div w > x THEN NoParams ELSE Params(h, w)
  IN  CASE nMin > MaximumBlockDim(mMin, width) -> NoParams
        [] nMin <= MaximumBlockDim(mMin, width) /\ mMin > 1 ->
             Fitting(mMin, OneDimension(mMin, PossibleProducts(Nt \div nMin), nMin, width))
        [] nMin <= MaximumBlockDim(mMin, width) /\ mMin = 1 /\ nMin > 1 ->
             Fitting(OneDimension(nMin, PossibleProducts(Mt), 1, width), nMin)
        [] OTHER -> Case3(Mt, Nt, y, x, width)

-----------------------------------------------------------------------------
(* Properties                                                              *)

NodesOf(range) ==
  {c \in [DOMAIN range[1] -> 0 .. Max({0} \cup Range(range[2]))] :
     \A i \in DOMAIN c : range[1][i] <= c[i] /\ c[i] <= range[2][i]}
NodesOfAll(ranges) == UNION {NodesOf(r) : r \in Range(ranges)}
SumOfSizes(ranges) == FoldSeq(LAMBDA r, n : n + Cardinality(NodesOf(r)), 0, ranges)

(* split_work_to_nodes gives every unit of work to exactly one node: the   *)
(* ranges of the two groups are on the grid and share no node, they have   *)
(* as many nodes as it says, no range was asked for that num_nodes_to_     *)
(* grid_ranges asserts against, and the units of all nodes add up.         *)
WorkIsSplitExactly(grid, units, rowWise) ==
  LET w == SplitWork(grid, units, rowWise)
      all == w.group1 \o w.group2
  IN  Product(grid) > 1 \/ units = 0 =>
        /\ NodesOfAll(all) \subseteq NodesOf(<<Zeros(Len(grid)), [i \in DOMAIN grid |-> grid[i] - 1]>>)
        /\ SumOfSizes(all) = Cardinality(NodesOfAll(all)) /\ w.nodes = SumOfSizes(all)
        /\ SumOfSizes(w.group1) * w.units1 + SumOfSizes(w.group2) * w.units2 = units

(* The blocks get_large_matmul_params chooses "respect memory             *)
(* constraints": both inputs, double buffered, and the output fit in the   *)
(* budget of 400 tiles.                                                    *)
MatmulFitsTheBudget(Mt, Nt, y, x, width) ==
  LET p == LargeMatmulParams(Mt, Nt, y, x, width)
  IN  2 * width * p.h + 2 * width * p.w + p.h * p.w <= 400

(* In the cases where a dimension has a prime factor no row or column of   *)
(* nodes can share, the blocks are within the budget, cut both dimensions  *)
(* without a rest into no more pieces than there are nodes, and subblocks  *)
(* cut the blocks.                                                         *)
MatmulBlocksCover(Mt, Nt, y, x, width) ==
  LET p == LargeMatmulParams(Mt, Nt, y, x, width)
  IN  p # NoParams =>
        /\ Mt % p.h = 0 /\ Nt % p.w = 0 /\ Mt <= p.h * y /\ Nt <= p.w * x
        /\ p.h % p.subH = 0 /\ p.w % p.subW = 0 /\ p.subH * p.subW <= 8
        /\ (LargePart(Mt, y) > 1 \/ LargePart(Nt, x) > 1) => MatmulFitsTheBudget(Mt, Nt, y, x, width)
=============================================================================
