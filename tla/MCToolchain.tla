----------------------------- MODULE MCToolchain -----------------------------
(***************************************************************************)
(* The parts of the toolchain around the protocols, each on inputs of its  *)
(* own: case.of names the part.  A part that computes one answer has one   *)
(* state per input; a part with steps has its variables below, which are   *)
(* Idle in every other case (Launch's own keep their initial values).      *)
(***************************************************************************)
EXTENDS Launch, CopyWait, Toolchain, TLC

CONSTANTS TileSize, TileSide, MaxSteps, MaxRows, MaxRuns, MaxHardwareSemaphoreIds, NodeIds

VARIABLES block, meant, seeds, typed, steps,      \* BlockOps
          log, open, closed, run                  \* Profile

blockVars == <<block, meant, seeds, typed, steps>>
profileVars == <<log, open, closed, run>>

Idle == 0
CopyWaitIdle == /\ body = Idle /\ hooked = Idle /\ line = Idle /\ about = "idle" /\ holds = Idle /\ trips = Idle
                /\ completed = Idle /\ made = Idle
BlockIdle == block = Idle /\ meant = Idle /\ seeds = Idle /\ typed = Idle /\ steps = Idle
ProfileIdle == log = Idle /\ open = Idle /\ closed = Idle /\ run = Idle

Computed == CopyWaitIdle /\ LaunchInit /\ BlockIdle /\ ProfileIdle

-----------------------------------------------------------------------------
(* Waits put into kernels: every way to fill the skeletons with copies     *)
(* into one of two variables, bare copies, waits and other statements.     *)

Leaves == {<<"copy", "tx">>, <<"copy", "ty">>, <<"bare", "none">>, <<"wait", "tx">>, <<"other", "none">>}
Fill(leaf, in, arm) == Stmt(leaf[1], leaf[2], in, arm)
Compound(kind, in) == Block(kind, in, "body")

Straight == {<<Fill(a, 0, "body"), Fill(b, 0, "body"), Fill(c, 0, "body")>> : a, b, c \in Leaves}
Branches == {<<Compound("if", 0), Fill(a, 1, "body"), Fill(b, 1, "else"), Fill(c, 0, "body")>> : a, b, c \in Leaves}
Loops == {<<Fill(a, 0, "body"), Compound("for", 0), Fill(b, 2, "body"), Fill(c, 2, "body")>> : a, b, c \in Leaves}
Withs == {<<Compound("for", 0), Compound("with", 1), Fill(a, 2, "body"), Fill(b, 1, "body"), Fill(c, 1, "else")>>
            : a, b, c \in Leaves}
Guards == {<<Compound("for", 0), Compound("if", 1), Fill(a, 2, "body"), Fill(b, 1, "body"), Fill(c, 0, "body")>>
             : a, b, c \in Leaves}

(* A kernel that runs itself, a helper it calls by name, or a method.      *)
CallGraph == {<<"reader", "helper", "name">>, <<"reader", "method", "attr">>, <<"helper", "inner", "nested">>}
WaitPrograms ==
  [body : Straight \cup Branches \cup Loops \cup Withs \cup Guards, calls : {CallGraph}, kernel : {"reader"},
   runs : {"inner"}]
    \cup [body : Branches, calls : {CallGraph}, kernel : {"reader"}, runs : {"reader", "method"}]

ASSUME MCWellNested == \A p \in WaitPrograms : WellNested(p.body)

WaitsInit ==
  case = [of |-> "waits"] /\ CopyWaitInit(WaitPrograms) /\ LaunchInit /\ BlockIdle /\ ProfileIdle
WaitsNext ==
  case.of = "waits" /\ CopyWaitNext /\ UNCHANGED <<case, launchVars, blockVars, profileVars>>

-----------------------------------------------------------------------------
(* Nodes and pipes: no net, or one with one pipe, on grids of 1 to 3 axes. *)

NC == INSTANCE NodeCoords

PipeGrids == {<<3>>, <<2, 2>>, <<2, 3>>, <<3, 2>>, <<2, 1, 2>>}
Nodes(grid) ==
  {<<c>> : c \in 0 .. NC!Volume(grid) - 1}
    \cup (IF Len(grid) = 1 THEN {} ELSE {c \in [DOMAIN grid -> 0 .. 2] : \A k \in DOMAIN grid : c[k] < grid[k]})
Along(d) == {NC!At(i) : i \in 0 .. d - 1} \cup {NC!Slice(i, j, 1) : i \in 0 .. d - 1, j \in 1 .. d}
Targets(grid) ==
  {<<i>> : i \in Along(NC!Volume(grid))}
    \cup (IF Len(grid) = 2 THEN Along(grid[1]) \X Along(grid[2])
          ELSE IF Len(grid) = 3 THEN Along(grid[1]) \X Along(grid[2]) \X Along(grid[3]) ELSE {})
PipesOn(grid) ==
  {p \in {NC!Pipe(src, dst) : src \in Nodes(grid), dst \in Targets(grid)} : Len(p.src) = Len(p.dst)}

PipesInit ==
  /\ Computed
  /\ \/ \E grid \in PipeGrids : \E nets \in {<<>>} \cup {<<<<p>>>> : p \in PipesOn(grid)} :
          case = [of |-> "pipes", grid |-> grid, nets |-> nets]
     \/ \E grid \in {<<1, 2, 3>>, <<3, 2, 2>>} : case = [of |-> "pipes", grid |-> grid, nets |-> <<>>]

-----------------------------------------------------------------------------
(* Work split over nodes and cores; the blocks of a matmul.                *)

WS == INSTANCE WorkSplit
ST == INSTANCE SimTensor

WorkGrids == UNION {[1 .. k -> 1 .. 4] : k \in 1 .. 2} \cup {<<1, 3, 2>>, <<1, 2, 3>>}
CoreSets == {ST!GridCores(x, y, rowWise) : x, y \in 1 .. 3, rowWise \in BOOLEAN}
              \cup {ST!RangeCores(<< <<1, 0, 2, 1>>, <<0, 3, 2, 3>> >>)}

WorkInit ==
  /\ Computed
  /\ \/ \E grid \in WorkGrids, units \in 0 .. 34, rowWise \in BOOLEAN :
          case = [of |-> "nodeWork", grid |-> grid, units |-> units, rowWise |-> rowWise]
     \/ \E m \in 1 .. 24, n \in {1, 2, 5, 7, 13, 16, 22, 32, 64, 512}, y, x \in {2, 4}, width \in {1, 8} :
          case = [of |-> "matmulWork", m |-> m, n |-> n, y |-> y, x |-> x, width |-> width]
     \/ \E cores \in CoreSets, units \in 1 .. 20 : case = [of |-> "coreWork", cores |-> cores, units |-> units]

-----------------------------------------------------------------------------
(* Simulated tensors: 4 by 4 elements, sharded in every way, cut once or   *)
(* twice; and on meshes of 2 and 4 devices.                                *)

Cuts(n) == {ST!Sel(lo, hi) : lo \in 0 .. n - 1, hi \in 1 .. n}
Keys(shape, layout) ==
  LET n(i) == IF layout = "tile" THEN shape[i] \div TileSize ELSE shape[i]
  IN  {<<ST!OpenSel, ST!OpenSel>>}
        \cup {key \in (Cuts(n(1)) \X (Cuts(n(2)) \cup {ST!OpenSel})) \cup ({ST!OpenSel} \X Cuts(n(2))) :
                \A i \in 1 .. 2 : key[i].open \/ key[i].lo < key[i].hi}
CoreGrids == {ST!NumCoresToCoreRangeSet(n, 2, 2) : n \in {1, 2, 4}}
Shardings ==
  {[by |-> s, ranges |-> c] : s \in {"height", "width", "block"}, c \in CoreGrids}
    \cup {[by |-> "dims", dims |-> d, ranges |-> ST!NumCoresToCoreRangeSet(n, 2, 4)] : d \in {{1}, {2}, {1, 2}}, n \in {2, 6}}
    \cup {[by |-> "shard", shard |-> s] : s \in {<<2, 2>>, <<1, 4>>}}
MemoryConfigs ==
  {ST!TensorSpec(<<4, 4>>, s) : s \in Shardings}
    \cup {ST!MemoryConfig("height", [x |-> 2, y |-> 2], <<1, 4>>)}
    \cup {ST!NdRoundRobin(<<2, 2>>, <<2, 2>>, n) : n \in {2, 3}} \cup {ST!NdRoundRobin(<<4, 2>>, <<1, 2>>, 3)}
Padded == {ST!TensorSpec(<<3, 4>>, [by |-> "height", ranges |-> c]) : c \in {<< <<0, 0, 2, 0>> >>, << <<1, 1, 1, 2>> >>}}
Mappers(t) ==
  {m \in [mesh : {<<1, 2>>, <<2, 2>>, <<2, 1>>}, dims : {<< <<d>> >> : d \in {0, -1}} \cup [1 .. 2 -> {<<>>} \cup {<<d>> : d \in {0, 1, -1}}]] :
     LET info == ST!MeshShardInfo(m, 2)
     IN  /\ info.dims # <<0, 0>> /\ info.dims[1] # info.dims[2]
         /\ \A k \in 1 .. 2 : info.dims[k] # 0 => t.shape[info.dims[k]] % info.mesh[k] = 0}
Numbered(shape) == ST!Tensor(shape, LAMBDA p : 3 ^ (p[1] * shape[2] + p[2]))

TensorInit ==
  /\ Computed
  /\ \/ \E layout \in {"tile", "row"} :
          \E spec \in {<< <<4, 4>>, mc >> : mc \in MemoryConfigs} \cup (IF layout = "tile" THEN {<< <<3, 4>>, mc >> : mc \in Padded} ELSE {}) :
            \E first \in Keys(<<4, 4>>, layout) :
              \E rest \in {<<>>} \cup {<<key>> : key \in Keys(<<2, 2>>, layout)} :
                /\ ST!KeysOk(ST!FromTorch(spec[1], layout), <<first>> \o rest)
                /\ case = [of |-> "views", root |-> ST!FromTorch(spec[1], layout), mc |-> spec[2], keys |-> <<first>> \o rest]
     \/ \E t \in {Numbered(<<4, 2>>), Numbered(<<4, 4>>)} :
          \E info \in {ST!MeshShardInfo(m, 2) : m \in Mappers(t)}, axis, dim \in 1 .. 2 :
            case = [of |-> "mesh", tensor |-> t, mesh |-> info.mesh, dims |-> info.dims, axis |-> axis, dim |-> dim]

-----------------------------------------------------------------------------
(* Calls of compiled operations: a copy, one with an automatic grid that a *)
(* keyword turns round, one whose body raises half way; on a device, on    *)
(* one like it with fewer cores, on a mesh, on a small device.             *)

Device == [id |-> 1, arch |-> "wormhole", mesh |-> 1, grid |-> <<2, 2>>]
Mesh == [id |-> 2, arch |-> "wormhole", mesh |-> 2, grid |-> <<2, 2>>]
Harvested == [Device EXCEPT !.id = 4, !.grid = <<1, 2>>]
Small == [id |-> 3, arch |-> "blackhole", mesh |-> 1, grid |-> <<1, 1>>]
On(device, name) ==
  [name |-> name, ttnn |-> TRUE, shape |-> 1, space |-> "DRAM", tiled |-> TRUE, device |-> device]
Host == [On([id |-> 0, arch |-> "none", mesh |-> 1, grid |-> <<0, 0>>], "h") EXCEPT !.ttnn = FALSE]

Call(op, args) ==
  [op |-> op, args |-> args, keywords |-> "none", options |-> <<>>, env |-> <<>>, execute |-> TRUE, l1 |-> 8]
Copy == Call("copy", <<On(Device, "x"), On(Device, "y")>>)
LaunchCalls ==
  {Copy, Call("copy", <<On(Device, "y"), On(Device, "x")>>), Call("copy", <<On(Mesh, "m"), On(Mesh, "n")>>),
   Call("copy", <<On(Small, "s"), On(Small, "t")>>), Call("copy", <<On(Device, "x"), Host>>),
   Call("half", <<On(Device, "x")>>), Call("auto", <<On(Device, "x"), On(Device, "y")>>),
   [Call("auto", <<On(Device, "x"), On(Device, "y")>>) EXCEPT !.keywords = "reversed"],
   Call("auto", <<On(Harvested, "x"), On(Harvested, "y")>>),
   Call("auto", <<On(Small, "s"), On(Small, "t")>>), Call("auto", <<On(Device, "x"), On(Mesh, "m")>>),
   [Copy EXCEPT !.options = << [maximize_dst |-> FALSE] >>],
   [Copy EXCEPT !.options = << [maximize_dst |-> FALSE] >>, !.env = [maximize_dst |-> TRUE]],
   [Copy EXCEPT !.options = << [l1_budget |-> 1] >>], [Copy EXCEPT !.options = << [huh |-> 1] >>],
   [Copy EXCEPT !.execute = FALSE], [Copy EXCEPT !.l1 = 2]}

CommandLine == [compiler_dfbs |-> TRUE, other |-> 1]

Threads(params) ==
  <<Thread("compute", {1}, <<>>, TRUE), Thread("datamovement", {1}, params, TRUE),
    Thread("datamovement", {1, 2}, <<Param(1)>>, TRUE)>>
TwoBuffers == <<MakeDfb(2, 2, 1), MakeDfb(2, 1, 1)>>
OneRun(grid, intermediates, opBody) == [grid |-> grid, netsOk |-> TRUE, intermediates |-> intermediates, body |-> opBody]
Operation(auto, options, fp32, runs) == [auto |-> auto, options |-> options, fp32 |-> fp32, runs |-> runs]
LaunchOperations ==
  [copy |-> Operation(FALSE, <<>>, FALSE,
              [none |-> OneRun(<<2, 2>>, <<1>>, TwoBuffers \o Threads(<<Param(1), Param(2)>>))]),
   auto |-> Operation(TRUE, [compiler_dfbs |-> FALSE], TRUE,
              [none |-> OneRun(<<>>, <<1>>, TwoBuffers \o Threads(<<Param(2)>>)),
               reversed |-> OneRun(<<>>, <<>>, TwoBuffers \o Threads(<<Param(1)>>))]),
   half |-> Operation(FALSE, <<>>, FALSE,
              [none |-> OneRun(<<1, 1>>, <<>>,
                               <<MakeDfb(2, 2, 1), Thread("datamovement", {1}, <<>>, TRUE), Raise>>)])]

ASSUME MCLaunchCallsOk == CallsOk

CallsInit == case = [of |-> "launch"] /\ LaunchInit /\ CopyWaitIdle /\ BlockIdle /\ ProfileIdle
CallsNext == case.of = "launch" /\ LaunchNext /\ UNCHANGED <<case, copyWaitVars, blockVars, profileVars>>

-----------------------------------------------------------------------------
(* Kernel bodies: c, x, a call, a compound statement with two of the       *)
(* shapes inside it, and one of the shapes behind it.                      *)

KA == INSTANCE KernelAst WITH Captures <- [p |-> 2], Globals <- [K |-> 3, x |-> 4]

Lit(n) == <<"int", n>>
Name(x) == <<"name", x>>
Bin(op, l, r) == <<"bin", op, l, r>>
Simple(do, name, expr, at) == [do |-> do, name |-> name, op |-> "+", expr |-> expr, line |-> at]
Shapes ==
  {<<"assign", "y", Lit(3)>>, <<"assign", "x", Name("c")>>, <<"assign", "c", Bin("*", Name("c"), Name("x"))>>,
   <<"aug", "c", Name("x")>>, <<"ann", "y", Bin("//", Name("x"), Lit(2))>>,
   <<"call", "-", Bin("+", Name("c"), Name("x"))>>, <<"call", "-", Name("y")>>,
   <<"call", "-", Bin("%", Name("i"), Lit(2))>>, <<"assign", "y", <<"neg", Bin("+", Name("p"), Name("K"))>>>>,
   <<"assign", "x", <<"flag", TRUE>>>>, <<"unpack", <<"y", "c">>, <<0, 1>>>>}
Shaped(s, at) ==
  IF s[1] = "unpack" THEN [do |-> "unpack", names |-> s[2], node |-> s[3], line |-> at] ELSE Simple(s[1], s[2], s[3], at)
If(test, then, else, at) == [do |-> "if", expr |-> test, body |-> then, orelse |-> else, line |-> at]
For(n, inside) == [do |-> "for", name |-> "i", expr |-> n, body |-> inside, line |-> 3]
With(inside) == [do |-> "with", items |-> <<"lhs", "rhs">>, body |-> inside, line |-> 3]
Region(inside) == [do |-> "region", name |-> "work", body |-> inside, line |-> 3]
Callbacks(roles, inside) == [do |-> "callback", roles |-> roles, body |-> inside, line |-> 3]
Tests == {<<"cmp", "<", Name("x"), Bin("+", Name("c"), Lit(1))>>, <<"bool", "or", <<"not", Name("c")>>, Name("x")>>,
          <<"bool", "and", <<"role", TRUE>>, Name("x")>>}
Compounds(a, b) ==
  {If(t, <<Shaped(a, 4)>>, <<Shaped(b, 6)>>, 3) : t \in Tests}
    \cup {For(Lit(2), <<Shaped(a, 4), Shaped(b, 5)>>), With(<<Shaped(a, 4), Shaped(b, 5)>>),
          Callbacks(<<FALSE, TRUE>>, <<Shaped(a, 4), Shaped(b, 5)>>),
          Callbacks(<<TRUE, FALSE, TRUE>>, <<Shaped(a, 4), Shaped(b, 5)>>), Region(<<Shaped(a, 4), Shaped(b, 5)>>),
          For(Bin("+", Name("x"), Lit(1)),
              <<If(<<"cmp", "==", Name("i"), Lit(1)>>, <<Shaped(a, 5)>>, <<>>, 4), Shaped(b, 6)>>)}

KernelInit ==
  /\ Computed
  /\ \E a, b, c \in Shapes : \E compound \in Compounds(a, b) :
       case = [of |-> "kernel",
               kernel |-> <<Simple("ann", "c", Lit(1), 1), Simple("assign", "x", Lit(2), 2),
                            Simple("call", "-", Bin("+", Name("x"), Lit(1)), 2), compound, Shaped(c, 7)>>]

-----------------------------------------------------------------------------
(* Expressions on blocks, over tensors with numbers of both signs.         *)

NumbersOf(dims) == [dims |-> dims, data |-> [n \in 1 .. dims[1] * dims[2] * (IF Len(dims) = 3 THEN dims[3] ELSE 1)
                                               |-> (((n - 1) * 7) % 11) - 5]]
BO == INSTANCE BlockOps WITH Tensors <- {NumbersOf(dims) : dims \in {<<2, 4>>, <<4, 2>>, <<1, 2, 4>>}},
                             DimLists <- {<<0>>, <<-1>>, <<-2>>, <<0, 1>>, <<-1, -2>>}

BlockInit == case = [of |-> "blocks"] /\ BO!BlockInit /\ CopyWaitIdle /\ LaunchInit /\ ProfileIdle
BlockNext == case.of = "blocks" /\ BO!BlockNext /\ UNCHANGED <<case, copyWaitVars, launchVars, profileVars>>

-----------------------------------------------------------------------------
(* Profiles: two cores that open kernel zones and zones of lines and       *)
(* regions, read, write, multicast and raise semaphores.                   *)

Zone(thread, name, kind) == [thread |-> thread, name |-> name, kind |-> kind]
Event(words, mcast, dst, bytes) == [type |-> words, mcast |-> mcast, dst |-> dst, bytes |-> bytes]
PR == INSTANCE Profile WITH
        Cores <- {"c1", "c2"},
        Zones <- {Zone("BRISC", "BRISC-KERNEL", "kernel"), Zone("TRISC_0", "TRISC-KERNEL", "kernel"),
                  Zone("BRISC", "dm_L5", "line"), Zone("BRISC", "ttl_a", "user")},
        Transfers <- {Event({"READ"}, FALSE, "dram", 2), Event({"WRITE"}, TRUE, "c2", 4),
                      Event({"SEMAPHORE", "WRITE"}, FALSE, "c2", 1)}

ProfileInit == case = [of |-> "profile"] /\ PR!ProfileInit /\ CopyWaitIdle /\ LaunchInit /\ BlockIdle
ProfileNext == case.of = "profile" /\ PR!ProfileNext /\ UNCHANGED <<case, copyWaitVars, launchVars, blockVars>>

-----------------------------------------------------------------------------
(* Contexts of nodes: three names bound in every way to tensors, buffers,  *)
(* nets and what holds them.                                               *)

Holder(kind, held) == [kind |-> kind, holds |-> held, nodes |-> {}]
ProgramObjects ==
  [t |-> Holder("tensor", <<>>), b |-> Holder("buffer", <<>>), m |-> Holder("module", <<>>),
   n |-> [Holder("net", <<>>) EXCEPT !.nodes = {0}], v |-> Holder("value", <<>>), lt |-> Holder("list", <<"t">>),
   lb |-> Holder("list", <<"b", "v">>), llt |-> Holder("list", <<"lt", "t">>),
   ft |-> Holder("function", <<"t">>), fl |-> Holder("function", <<"lb", "t">>), ln |-> Holder("list", <<"n">>)]
NX == INSTANCE NodeContext WITH Objects <- ProgramObjects, Names <- <<"a", "b", "c">>

ThreeKernels ==
  {<<NX!Kernel("compute", "f", {"a", "b"}, TRUE), NX!Kernel("dm", "r", {"b", "c"}, TRUE), NX!Kernel("dm", "w", {"a", "c"}, TRUE)>>,
   <<NX!Kernel("dm", "r", {"c"}, TRUE), NX!Kernel("compute", "f", {"a", "b"}, TRUE), NX!Kernel("dm", "w", {"a", "b", "c"}, TRUE)>>,
   <<NX!Kernel("dm", "r", {"a"}, TRUE), NX!Kernel("dm", "r", {"b"}, TRUE), NX!Kernel("compute", "f", {"c"}, TRUE)>>}

ContextInit ==
  /\ Computed
  /\ \E ks \in ThreeKernels, binds \in [{"a", "b", "c"} -> DOMAIN ProgramObjects],
        around \in {<< <<>>, <<>> >>, << <<"n">>, <<"t">> >>, << <<>>, <<"lt", "t">> >>} :
       case = [of |-> "context",
               op |-> [kernels |-> ks, binds |-> binds, globals |-> around[1], args |-> around[2]]]

-----------------------------------------------------------------------------
(* Launches: threads in both orders, buffers with and without a tensor,    *)
(* tensors of several addresses, devices with and without room.            *)

Compiled(type, indices, fp32) ==
  [path |-> <<type, indices>>, type |-> type, indices |-> indices, fp32 |-> fp32, fullSync |-> FALSE, unpack |-> {}]
CompiledThreads ==
  {<<Compiled("compute", <<>>, fp32), Compiled("noc", a, FALSE), Compiled("noc", b, FALSE)>>
     : fp32 \in BOOLEAN, a \in {<<0>>, <<1, 0>>}, b \in {<<>>, <<1>>}}
    \cup {<<Compiled("noc", <<0, 1>>, FALSE), Compiled("noc", <<1>>, FALSE), Compiled("compute", <<>>, FALSE)>>}
Cb(kind, format, blocks) ==
  IF kind = "compiler" THEN [kind |-> kind, format |-> format, tiles |-> 2, blocks |-> blocks]
  ELSE [kind |-> kind, format |-> format, shape |-> <<2, 1>>, blocks |-> blocks]
Cb3D == [kind |-> "bound", format |-> "float32", shape |-> <<1, 2, 2>>, blocks |-> 2]
CbLists ==
  {<<>>, <<Cb("bound", "float32", 2)>>, <<Cb("bound", "bfloat16", 1), Cb("compiler", "float16", 1)>>,
   <<Cb("bound", "uint32", 2), Cb("bound", "int32", 1)>>, <<Cb("bound", "bfloat8_b", 2), Cb("none", "bfloat16", 1)>>,
   <<Cb("bound", "bfloat8_b", 1), Cb3D>>}
Buffered(name, addresses, device) == [address |-> name, accessor |-> addresses, device |-> device]
TensorLists ==
  {<<>>, <<Buffered("A", <<1, 2>>, "dev"), Buffered("B", <<3>>, "dev")>>,
   <<Buffered("A", <<1>>, "none"), Buffered("B", <<3, 4>>, "dev")>>,
   <<Buffered("A", <<1>>, "none"), Buffered("B", <<3, 4>>, "none")>>}
Devices ==
  {[limit |-> 24576, l1 |-> [c \in (0 .. 1) \X (0 .. 1) |-> IF c = full THEN used ELSE 0]]
     : full \in {<<0, 0>>, <<1, 0>>}, used \in {0, 8192, 10000}}

ASSUME MCLaunches ==
  /\ \A threads \in CompiledThreads, fp32 \in {<<>>, <<TRUE>>, <<FALSE>>}, cbs \in CbLists :
       [specs |-> RU!KernelSpecs(threads, [fp32 |-> fp32, fullSync |-> <<>>]), cbs |-> cbs,
        scratch |-> 100, globals |-> 2, syncs |-> 2, grid |-> <<2, 1>>] \in RU!Kernels({t.path : t \in Range(threads)})
  /\ TensorLists \subseteq Seq(RU!Tensors({"A", "B"})) /\ Devices \subseteq RU!Devices((0 .. 1) \X (0 .. 1))

RunnerInit ==
  /\ Computed
  /\ \E threads \in CompiledThreads, fp32 \in {<<>>, <<TRUE>>, <<FALSE>>}, cbs \in CbLists, tensors \in TensorLists,
        device \in Devices, scratch \in {0, 100}, syncs \in {0, 2}, grid \in {<<1, 1>>, <<2, 1>>} :
       case = [of |-> "runner",
               kernel |-> [specs |-> RU!KernelSpecs(threads, [fp32 |-> fp32, fullSync |-> <<>>]), cbs |-> cbs,
                           scratch |-> scratch, globals |-> 2 - syncs, syncs |-> syncs, grid |-> grid],
               tensors |-> tensors, device |-> device]

-----------------------------------------------------------------------------
(* Copies: every pair of a subscripted tensor, a block or a pipe's end.    *)

Items(d) == {CE!Item(i, i + 1, FALSE) : i \in 0 .. d - 1} \cup {CE!Item(i, j, TRUE) : i \in 0 .. d - 1, j \in 1 .. d + 1}
Subscripts ==
  UNION {{CE!Subscript(shape, <<i, j>>) : i \in Items(shape[1]), j \in Items(shape[2])} : shape \in {<<2, 2>>, <<1, 2>>, <<3, 1>>}}
    \cup {CE!Subscript(<<2, 2, 2>>, <<i, j, k>>) : i, j, k \in Items(2)}
OtherEnds ==
  {CE!Block(shape) : shape \in {<<1, 1>>, <<1, 2>>, <<2, 1>>, <<2, 2>>, <<1, 2, 2>>, <<2>>, <<1, 1, 1>>}}
    \cup {CE!SrcPipeIdentity, CE!DstPipeIdentity, CE!Tensor(<<1, 2>>)}

ASSUME MCEnds == OtherEnds \cup Subscripts \subseteq CE!Ends

CopyInit ==
  /\ Computed
  /\ \E x \in OtherEnds \cup Subscripts, y \in OtherEnds : \E ends \in {<<x, y>>, <<y, x>>} :
       case = [of |-> "copy", ends |-> ends]

-----------------------------------------------------------------------------
(* Compute bodies of three operations over two input tiles, and of four    *)
(* with two additions of inputs, each stored from its last operation, with *)
(* 4 registers and 2 tiles.                                                *)

DF == INSTANCE DstAllocation WITH FPU <- TRUE
DS == INSTANCE DstAllocation WITH FPU <- FALSE

X == DF!Arg(1)
Y == DF!Arg(2)
Result(k) == <<k, 0>>
Ones(k, values) == {DF!Op(k, "unary", <<v>>) : v \in values}
Twos(k, values) == {DF!Op(k, kind, <<v, w>>) : kind \in {"add", "max"}, v, w \in values}
FirstOps == {DF!Op(1, "bcast", <<X>>)} \cup Ones(1, {X}) \cup {DF!Op(1, kind, <<X, Y>>) : kind \in {"add", "max"}}
SecondOps == Ones(2, {X, Result(1)}) \cup Twos(2, {X, Y, Result(1)})
ThirdOps == Ones(3, {X, Result(2)}) \cup Twos(3, {X, Y, Result(1), Result(2)})
TwoSums == {DF!Op(1, "add", <<X, Y>>)} \X SecondOps \X {DF!Op(3, "add", <<X, X>>)}
             \X (Ones(4, {Result(3)}) \cup Twos(4, {Result(2), Result(3)}))
Bodies ==
  {[b \in DOMAIN ops \cup {Len(ops) + 1} |->
      IF b \in DOMAIN ops THEN ops[b] ELSE DF!Op(b, "store", <<Result(Len(ops))>>)]
     : ops \in {ops \in (FirstOps \X SecondOps \X ThirdOps) \cup TwoSums :
                  \A k \in 1 .. Len(ops) - 1 : \E j \in k + 1 .. Len(ops) : Result(k) \in Range(ops[j].args)}}
Sums(ops) == \E k \in DOMAIN ops : DF!IsFPU(ops[k])

DstInit ==
  /\ Computed
  /\ \E ops \in Bodies, separate \in BOOLEAN :
       \E codes \in {DS!Compile(ops, 4, 2, separate, 2)} \cup (IF Sums(ops) THEN {DF!Compile(ops, 4, 2, separate, 2)} ELSE {}) :
         case = [of |-> "dst", ops |-> ops, codes |-> codes]

-----------------------------------------------------------------------------
ToolchainInit ==
  WaitsInit \/ PipesInit \/ WorkInit \/ TensorInit \/ CallsInit \/ KernelInit \/ BlockInit \/ ProfileInit
    \/ ContextInit \/ RunnerInit \/ CopyInit \/ DstInit
ToolchainNext == WaitsNext \/ CallsNext \/ BlockNext \/ ProfileNext
ToolchainSpec ==
  ToolchainInit /\ [][ToolchainNext]_<<case, copyWaitVars, launchVars, blockVars, profileVars>>

(* Every node has one place in the grid, the nodes started are those that  *)
(* a pipe names, and a pipe counts as many receivers as it names, however  *)
(* its range is written (sim/nodecontext.py, sim/pipe.py, ttl/pipe.py).    *)
ActiveSetIsWhoTakesPart ==
  case.of = "pipes" =>
    /\ NC!ActiveSetIsWhoTakesPart(case.nets, case.grid)
    /\ NC!NodesFillTheGrid(case.grid)
    /\ NC!EveryReceiverIsCounted(case.nets, case.grid)

(* No unit of work is lost or done twice, whoever splits it                *)
(* (ttl/utils, sim/ttnnsim.py).                                            *)
WorkIsSplitExactly ==
  /\ case.of = "nodeWork" => WS!WorkIsSplitExactly(case.grid, case.units, case.rowWise)
  /\ case.of = "matmulWork" => WS!MatmulBlocksCover(case.m, case.n, case.y, case.x, case.width)
  /\ case.of = "coreWork" => ST!CoresShareTheWork(case.cores, case.units)

(* What is local to a core is the part of a shard it owns, also in a view  *)
(* of a view, unless an indexing lost the origin (sim/ttnnsim.py).         *)
LocalityIsOwnership == case.of = "views" => ST!LocalityIsOwnership(case.root, case.mc, case.keys)

(* Every device of a group ends with what the collective promises, or the  *)
(* gather is along the axis that the other axis of the mesh cuts.          *)
CollectivesReachAll ==
  case.of = "mesh" => ST!CollectivesReachAll(case.tensor, case.mesh, case.dims, case.axis, case.dim)

(* A compiled body computes what Python computes, on both sides of every   *)
(* test, and its profiling zones nest, but for those of callbacks          *)
(* (kernel_ast.py, ttl_ast.py).                                            *)
CompiledMeansPython ==
  case.of = "kernel" =>
    \A profiled \in BOOLEAN : KA!ZonesMatch(case.kernel, profiled) /\ KA!CompiledMeansPython(case.kernel, profiled)

(* A block holds what its expression means, tile by tile (dfb.py).         *)
BlockHoldsItsMeaning == case.of = "blocks" => BO!BlockHoldsItsMeaning

(* The compiler types an expression with the shape the simulator computes. *)
CompiledTypeIsTheBlocks == case.of = "blocks" => BO!CompiledTypeIsTheBlocks

(* Kernel durations and bytes are those of the run however the rows of the *)
(* cores are mixed (perf_summary.py); lines and signposts, whose keys      *)
(* leave out the core, while no two cores are in the same one, and are     *)
(* never more than there was (auto_profile.py, signpost_profile.py).       *)
ReportsAreTheRun ==
  case.of = "profile" => PR!KernelDurationsAreTheCores /\ PR!ZonesAreNotOverstated /\ PR!BytesAreCountedOnce

(* A node reaches its own buffers and lists and the caller's tensors, as   *)
(* far as names and containers let it (sim/program.py).                    *)
NodesKeepToThemselves == case.of = "context" => NX!NodesKeepToThemselves(case.op)

(* What a body stores is what it computes: no register is overwritten      *)
(* while its value is needed, by the allocation, by its copies, by another *)
(* tile of the section or by the scheduled order, and no FPU operation     *)
(* adds to another's result; but it adds to what anything else left there, *)
(* and then the sum is wrong (TTLAssignDST.cpp,                            *)
(* ConvertTTLComputeToSCF.cpp, TTLScheduleOperations.cpp).                 *)
RegistersKeepValues ==
  case.of = "dst" =>
    \A code \in case.codes : DF!StoresWhatItComputes(case.ops, code, 4) <=> DF!FPUFollowsOnlyFPU(code)
=============================================================================
