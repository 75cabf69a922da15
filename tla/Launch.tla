-------------------------------- MODULE Launch --------------------------------
(***************************************************************************)
(* Calling a compiled operation (python/ttl/ttl_api.py, kernel_runner.py,  *)
(* compiler_options.py, dataflow_buffer.py, _src/tensor_registry.py).      *)
(*                                                                         *)
(* A call looks its kernel up in the operation's cache; on a miss it runs  *)
(* the operation's body, which creates dataflow buffers and decorates      *)
(* threads, compiles the threads it finds in a global list and keeps the   *)
(* kernel; then it launches the kernel with the call's tensors.  The list  *)
(* of threads, the buffer counter and the tensor registry are globals of   *)
(* the process and survive a body that raises.                             *)
(***************************************************************************)
EXTENDS Integers, Sequences, FiniteSets, SequencesExt, FiniteSetsExt, Functions

CONSTANTS Operations,    \* name -> [auto, options, fp32, runs]; keywords -> [grid, netsOk, intermediates, body]
          Calls,         \* the calls that may be made
          Argv,          \* the compiler options on the command line
          MaxCalls,      \* bound on the calls of a behaviour
          MaxCBs,        \* kMaxCircularBuffers
          DefaultBudget  \* the L1 budget of the architecture, in tiles

VARIABLES threadRegistry, cbCount, tensorIndex, cache, phase, call, build, launched, calls
launchVars == <<threadRegistry, cbCount, tensorIndex, cache, phase, call, build, launched, calls>>

(* What a body does, in order, depends on the keyword arguments it is run  *)
(* with, as the grid does that a callable returns.  A thread captures      *)
(* buffers by their place in the body, and tensors: the i-th parameter or  *)
(* a tensor of the scope around the operation.                             *)
Run(c) == Operations[c.op].runs[c.keywords]
MakeDfb(rank, blocks, tiles) == [do |-> "dfb", rank |-> rank, blocks |-> blocks, tiles |-> tiles]
Thread(kind, dfbs, tensors, compiles) ==
  [do |-> "thread", kind |-> kind, dfbs |-> dfbs, tensors |-> tensors, compiles |-> compiles]
Raise == [do |-> "raise"]
Param(i) == <<"param", i>>
Outer(t) == <<"outer", t>>

NoDevice == [id |-> 0, arch |-> "none", mesh |-> 1, grid |-> <<0, 0>>]
Options == {"maximize_dst", "compiler_dfbs", "l1_budget"}
Defaults == [o \in Options |-> IF o = "l1_budget" THEN 0 ELSE TRUE]

(* ---- the call: grid, options, key ------------------------------------- *)

Placed(args) == {i \in DOMAIN args : args[i].ttnn /\ args[i].device # NoDevice}
HasDevice(args) ==
  Placed(args) # {} /\ \A i, j \in Placed(args) : args[i].device.id = args[j].device.id
DeviceOf(args) == args[Min(Placed(args))].device

GridResolves(c) == Operations[c.op].auto => HasDevice(c.args)
ResolveGrid(c) == IF Operations[c.op].auto THEN DeviceOf(c.args).grid ELSE Run(c).grid

(* merge: what the second one sets explicitly wins.                        *)
Merge(base, overrides) ==
  [o \in DOMAIN base \cup DOMAIN overrides |-> IF o \in DOMAIN overrides THEN overrides[o] ELSE base[o]]

(* options= of the call replaces the decorator's; the environment's tokens *)
(* come after it.                                                          *)
GivenOptions(c) == Merge(IF c.options = <<>> THEN Operations[c.op].options ELSE c.options[1], c.env)
OptionsAreKnown(c) == DOMAIN GivenOptions(c) \subseteq Options
CompilerOptions(c) == Merge(Merge(Defaults, GivenOptions(c)), Restrict(Argv, DOMAIN Argv \cap Options))
Compared(options) == Restrict(options, Options \ {"l1_budget"})

TensorInfo(t) == <<t.shape, t.space, t.tiled>>
MeshShape(args) ==
  LET meshes == SelectSeq(args, LAMBDA t : t.ttnn /\ t.device.mesh > 1)
  IN  IF meshes = <<>> THEN 1 ELSE meshes[1].device.mesh
TargetArch(args) == IF Placed(args) = {} THEN "none" ELSE DeviceOf(args).arch
(* The k-th of a set of numbers.                                           *)
Nth(S, k) == CHOOSE i \in S : Cardinality({j \in S : j <= i}) = k
TtnnPlaces(args) == {i \in DOMAIN args : args[i].ttnn}
TensorKey(args) ==
  [k \in 1 .. Cardinality(TtnnPlaces(args)) |-> TensorInfo(args[Nth(TtnnPlaces(args), k)])]

(* Mutant of CacheKey: the mesh is forgotten.                              *)
CacheKeyNoMesh(c) ==
  << c.op, TensorKey(c.args), 1, Operations[c.op].fp32, TargetArch(c.args), Compared(CompilerOptions(c)) >>
CacheKey(c) ==
  << c.op, TensorKey(c.args), MeshShape(c.args), Operations[c.op].fp32, TargetArch(c.args),
     Compared(CompilerOptions(c)) >>

NoCall == [op |-> "none"]
NoBuild == [at |-> 0, dfbs |-> <<>>, threads |-> <<>>, configs |-> <<>>, compiled |-> <<>>, base |-> 0]
NoKernel == [call |-> NoCall, kernel |-> NoBuild, addresses |-> <<>>]
None == [made |-> 0, index |-> -1, tiles |-> 0, blocks |-> 0]

LaunchInit ==
  /\ threadRegistry = <<>> /\ cbCount = 0 /\ tensorIndex = <<>> /\ cache = <<>>
  /\ phase = "idle" /\ call = NoCall /\ build = NoBuild /\ launched = NoKernel /\ calls = 0

Fail == phase' = "failed" /\ build' = NoBuild
Ready == phase \in {"idle", "failed"}
Body == Run(call).body

(* A thread decorated outside an operation's body stays in the list.       *)
Decorate ==
  /\ Ready /\ threadRegistry = <<>>
  /\ threadRegistry' = << [made |-> 0, kind |-> "compute", dfbs |-> {}, tensors |-> <<>>, compiles |-> TRUE] >>
  /\ UNCHANGED <<cbCount, tensorIndex, cache, phase, call, build, launched, calls>>

Begin(c) == Ready /\ calls < MaxCalls /\ calls' = calls + 1 /\ call' = c /\ launched' = NoKernel

CallFails(c) ==
  /\ Begin(c) /\ ~(GridResolves(c) /\ OptionsAreKnown(c)) /\ Fail
  /\ UNCHANGED <<threadRegistry, cbCount, tensorIndex, cache>>

CallHits(c) ==
  /\ Begin(c) /\ GridResolves(c) /\ OptionsAreKnown(c) /\ CacheKey(c) \in DOMAIN cache
  /\ phase' = IF c.execute THEN "launch" ELSE "idle"
  /\ build' = cache[CacheKey(c)]
  /\ UNCHANGED <<threadRegistry, cbCount, tensorIndex, cache>>

(* register_tensor_name: by identity, the later parameter overwrites.      *)
RegisteredIndex(args, t) == Max({i \in DOMAIN args : args[i] = t})
Register(args) == Merge(tensorIndex, [t \in ToSet(args) |-> RegisteredIndex(args, t)])

(* Mutant of FreshRegistry: the list is not cleared before the body runs.  *)
FreshRegistryStale == threadRegistry
FreshRegistry == <<>>

CallCompiles(c) ==
  /\ Begin(c) /\ GridResolves(c) /\ OptionsAreKnown(c) /\ CacheKey(c) \notin DOMAIN cache
  /\ tensorIndex' = Register(c.args)
  /\ cbCount' = 0 /\ threadRegistry' = FreshRegistry
  /\ phase' = "body" /\ build' = [NoBuild EXCEPT !.at = 1]
  /\ UNCHANGED cache

(* ---- the body, and the threads it leaves in the list ------------------ *)

Item == Body[build.at]
AtItem(do) == phase = "body" /\ build.at <= Len(Body) /\ Item.do = do
DfbOk(item) == item.rank >= 2 /\ item.blocks \in 1 .. 32

BodyDfb ==
  /\ AtItem("dfb") /\ DfbOk(Item)
  /\ cbCount' = cbCount + 1
  /\ build' = [build EXCEPT !.at = @ + 1,
                            !.dfbs = Append(@, [made |-> calls, index |-> cbCount,
                                                tiles |-> Item.tiles, blocks |-> Item.blocks])]
  /\ UNCHANGED <<threadRegistry, tensorIndex, cache, phase, call, launched, calls>>

BodyThread ==
  /\ AtItem("thread")
  /\ threadRegistry' =
       Append(threadRegistry, [made |-> calls, kind |-> Item.kind, dfbs |-> {build.dfbs[i] : i \in Item.dfbs},
                               tensors |-> Item.tensors, compiles |-> Item.compiles])
  /\ build' = [build EXCEPT !.at = @ + 1]
  /\ UNCHANGED <<cbCount, tensorIndex, cache, phase, call, launched, calls>>

BodyFails ==
  /\ AtItem("raise") \/ (AtItem("dfb") /\ ~DfbOk(Item))
  /\ Fail
  /\ UNCHANGED <<threadRegistry, cbCount, tensorIndex, cache, call, launched, calls>>

(* _collect_cb_configs: by index, up to the largest one that is captured.  *)
Configs(dfbs) ==
  [i \in 1 .. Max({0} \cup {d.index + 1 : d \in dfbs}) |->
     IF \E d \in dfbs : d.index = i - 1 THEN CHOOSE d \in dfbs : d.index = i - 1 ELSE None]
Captured(threads) == UNION {t.dfbs : t \in ToSet(threads)}

CollectThreads ==
  /\ phase = "body" /\ build.at > Len(Body)
  /\ threadRegistry' = <<>>
  /\ IF threadRegistry = <<>> \/ ~Run(call).netsOk
     THEN Fail
     ELSE /\ phase' = "threads"
          /\ build' = [build EXCEPT !.threads = threadRegistry, !.configs = Configs(Captured(threadRegistry))]
  /\ UNCHANGED <<cbCount, tensorIndex, cache, call, launched, calls>>

(* ---- compiling -------------------------------------------------------- *)

Resolve(tensor) == IF tensor[1] = "param" THEN call.args[tensor[2]] ELSE tensor[2]
CompilesHere(t) == t.compiles /\ \A i \in DOMAIN t.tensors : Resolve(t.tensors[i]) \in DOMAIN tensorIndex

CompileThread ==
  LET next == Len(build.compiled) + 1 IN
  /\ phase = "threads" /\ next <= Len(build.threads)
  /\ IF CompilesHere(build.threads[next])
     THEN LET t == build.threads[next]
          IN  /\ build' = [build EXCEPT !.compiled =
                             Append(@, [kind |-> t.kind, tensors |-> t.tensors,
                                        indices |-> [i \in DOMAIN t.tensors |-> tensorIndex[Resolve(t.tensors[i])]]]),
                             !.base = cbCount]
              /\ UNCHANGED phase
     ELSE Fail
  /\ UNCHANGED <<threadRegistry, cbCount, tensorIndex, cache, call, launched, calls>>

Total(sizes) == FoldSeq(LAMBDA size, n : size + n, 0, sizes)
Tiles(configs) == Total([i \in 1 .. Len(configs) |-> configs[i].tiles * configs[i].blocks])

(* The budget the pass validates: the option, else what the device has     *)
(* left; 0 means the default.                                              *)
Budget(c) ==
  LET option == CompilerOptions(c)["l1_budget"]
      given == IF option = 0 /\ HasDevice(c.args) THEN c.l1 ELSE option
  IN  IF given > 0 THEN given ELSE DefaultBudget

(* The passes: the buffers the compiler adds come behind the bound ones;   *)
(* base_cta_index becomes the number of indices; then the limit and the    *)
(* budget.                                                                 *)
Intermediates(c) == IF CompilerOptions(c)["compiler_dfbs"] THEN Run(c).intermediates ELSE <<>>
Merged(c, configs) ==
  configs \o [i \in DOMAIN Intermediates(c) |->
                [made |-> -1, index |-> Len(configs) + i - 1, tiles |-> Intermediates(c)[i], blocks |-> 1]]
CBArgsBase(configs) == IF configs = <<>> THEN build.base ELSE Len(configs)

Lower ==
  /\ phase = "threads" /\ Len(build.compiled) = Len(build.threads)
  /\ LET configs == Merged(call, build.configs)
     IN  IF Len(configs) <= MaxCBs /\ Tiles(configs) <= Budget(call)
         THEN phase' = "lowered" /\ build' = [build EXCEPT !.configs = configs, !.base = CBArgsBase(configs)]
         ELSE Fail
  /\ UNCHANGED <<threadRegistry, cbCount, tensorIndex, cache, call, launched, calls>>

(* _compile_ttnn_kernel: all tensors or none from ttnn, in L1 or DRAM, in  *)
(* tiles; three kernels, the first data-movement one is the reader.        *)
TensorsOk(args) ==
  /\ Cardinality(TtnnPlaces(args)) \in {0, Len(args)}
  /\ \A t \in ToSet(args) : t.ttnn => t.space \in {"L1", "DRAM"} /\ t.tiled
Role(compiled, i) ==
  IF compiled[i].kind = "compute" THEN "compute"
  ELSE IF \E j \in 1 .. i - 1 : compiled[j].kind # "compute" THEN "writer" ELSE "reader"

BuildKernel ==
  /\ phase = "lowered"
  /\ IF TensorsOk(call.args) /\ Len(build.compiled) = 3
     THEN LET kernel ==
                [threads |-> build.threads, compiled |-> build.compiled, configs |-> build.configs, base |-> build.base,
                 roles |-> [i \in 1 .. 3 |-> Role(build.compiled, i)], grid |-> ResolveGrid(call),
                 tensors |-> TensorKey(call.args), count |-> Len(call.args), mesh |-> MeshShape(call.args),
                 arch |-> TargetArch(call.args), options |-> Compared(CompilerOptions(call))]
          IN  /\ cache' = Merge(cache, [k \in {CacheKey(call)} |-> kernel])
              /\ build' = kernel
              /\ phase' = IF call.execute THEN "launch" ELSE "idle"
     ELSE Fail /\ UNCHANGED cache
  /\ UNCHANGED <<threadRegistry, cbCount, tensorIndex, call, launched, calls>>

(* ---- launching -------------------------------------------------------- *)

LaunchOk(c, kernel) ==
  /\ Len(c.args) = kernel.count /\ HasDevice(c.args)
  /\ \A axis \in 1 .. 2 : kernel.grid[axis] <= DeviceOf(c.args).grid[axis]
  /\ \A i \in DOMAIN kernel.configs : kernel.configs[i] # None
  /\ Tiles(kernel.configs) <= c.l1

Addresses(c, kernel) ==
  [i \in DOMAIN kernel.compiled |->
     [j \in DOMAIN kernel.compiled[i].indices |-> c.args[kernel.compiled[i].indices[j]].name]]

LaunchKernel ==
  /\ phase = "launch"
  /\ IF LaunchOk(call, build)
     THEN launched' = [call |-> call, kernel |-> build, addresses |-> Addresses(call, build)] /\ phase' = "idle"
     ELSE phase' = "failed" /\ UNCHANGED launched
  /\ build' = NoBuild
  /\ UNCHANGED <<threadRegistry, cbCount, tensorIndex, cache, call, calls>>

MakeCall == \E c \in Calls : CallFails(c) \/ CallHits(c) \/ CallCompiles(c)

LaunchNext ==
  \/ Decorate \/ MakeCall
  \/ BodyDfb \/ BodyThread \/ BodyFails \/ CollectThreads
  \/ CompileThread \/ Lower \/ BuildKernel \/ LaunchKernel

LaunchSpec == LaunchInit /\ [][LaunchNext]_launchVars

-----------------------------------------------------------------------------
(* The places among the first n of a body where it does this.              *)
Places(body, n, do) == {j \in 1 .. n : body[j].do = do}
ThreadPlaces(body) == Places(body, Len(body), "thread")
DfbPlaces(body) == Places(body, Len(body), "dfb")

(* Kernel k was compiled from one execution of the body of c's operation   *)
(* with c's keywords: its threads are the ones that body decorated, in     *)
(* their order, every buffer they use is configured at its own index; and  *)
(* for c's tensors, mesh, architecture, grid and options.                  *)
IsKernelOf(k, c) ==
  LET body == Run(c).body
  IN  /\ Len(k.threads) = Cardinality(ThreadPlaces(body))
      /\ \A i, j \in DOMAIN k.threads : k.threads[i].made = k.threads[j].made
      /\ \A j \in ThreadPlaces(body) :
           LET t == k.threads[Cardinality(Places(body, j, "thread"))]
           IN  t.kind = body[j].kind /\ t.tensors = body[j].tensors
      /\ \A d \in Captured(k.threads) : k.configs[d.index + 1] = d
      /\ k.base = Len(k.configs)
      /\ k.grid = ResolveGrid(c) /\ k.tensors = TensorKey(c.args) /\ k.mesh = MeshShape(c.args)
      /\ k.arch = TargetArch(c.args) /\ k.options = Compared(CompilerOptions(c))

(* Calls that the cache cannot tell apart: of one operation, with tensors, *)
(* mesh, architecture and options alike.  Keywords and the resolved grid   *)
(* are not compared.                                                       *)
Alike(c, d) ==
  /\ c.op = d.op /\ TensorKey(c.args) = TensorKey(d.args) /\ MeshShape(c.args) = MeshShape(d.args)
  /\ TargetArch(c.args) = TargetArch(d.args) /\ Compared(CompilerOptions(c)) = Compared(CompilerOptions(d))
Serves(k, c) == \E d \in Calls : GridResolves(d) /\ Alike(d, c) /\ IsKernelOf(k, d)

(* The kernel that runs was compiled, whole, for one of the calls that are *)
(* like this one (_make_cache_key, _compile_kernel).                       *)
KernelIsThisCalls == launched # NoKernel => Serves(launched.kernel, launched.call)

(* A call that is in order: nothing in it asks for an error, and no other  *)
(* call that the cache takes for it runs another body or on another grid.  *)
DfbItem(body, i) == body[Nth(DfbPlaces(body), i)]
UsedDfbs(body) == UNION {body[j].dfbs : j \in ThreadPlaces(body)}
OwnDfbs(body) == [i \in 1 .. Cardinality(UsedDfbs(body)) |-> DfbItem(body, i)]
KeyDecides(c) ==
  \A d \in Calls : Alike(d, c) /\ GridResolves(d) => d.keywords = c.keywords /\ ResolveGrid(d) = ResolveGrid(c)
InOrder(c) ==
  LET body == Run(c).body
      needs == Tiles(Merged(c, OwnDfbs(body)))
  IN  /\ HasDevice(c.args) /\ OptionsAreKnown(c) /\ Run(c).netsOk
      /\ TensorsOk(c.args) /\ \A t \in ToSet(c.args) : t.ttnn
      /\ Cardinality(ThreadPlaces(body)) = 3
      /\ \A j \in ThreadPlaces(body) :
           /\ body[j].compiles
           /\ \A i \in DOMAIN body[j].tensors :
                body[j].tensors[i][1] = "param" /\ body[j].tensors[i][2] \in DOMAIN c.args
      /\ \A item \in ToSet(body) : item.do # "raise" /\ (item.do = "dfb" => DfbOk(item))
      /\ UsedDfbs(body) = 1 .. Cardinality(UsedDfbs(body))
      /\ Cardinality(UsedDfbs(body)) + Len(Intermediates(c)) <= MaxCBs
      /\ \A axis \in 1 .. 2 : ResolveGrid(c)[axis] <= DeviceOf(c.args).grid[axis]
      /\ needs <= c.l1 /\ needs <= Budget(c)
      /\ KeyDecides(c)

(* Whether a call succeeds does not depend on the calls before it: after   *)
(* bodies that raised half way, threads decorated elsewhere and calls that *)
(* were refused, a call that is in order does not fail.                    *)
GoodCallsSucceed == phase = "failed" => ~InOrder(call)

(* A kernel "can be executed multiple times with different tensors without *)
(* recompiling" (CompiledTTNNKernel): every tensor a thread captured       *)
(* reaches it as this call's argument of that place, or as itself.         *)
ArgumentsReachTheirParameters ==
  launched # NoKernel =>
    \A i \in DOMAIN launched.kernel.compiled : \A j \in DOMAIN launched.kernel.compiled[i].tensors :
      LET tensor == launched.kernel.compiled[i].tensors[j]
      IN  launched.addresses[i][j] =
            (IF tensor[1] = "param" THEN launched.call.args[tensor[2]] ELSE tensor[2]).name

-----------------------------------------------------------------------------
(* What the calls may be.  A thread captures buffers that were made before *)
(* it, and a body that makes buffers has a thread that captures one (the   *)
(* launcher counts only what is captured).                                 *)
CallsOk ==
  \A c \in Calls :
    LET body == Run(c).body
    IN  /\ Len(body) \in Nat /\ DOMAIN body = 1 .. Len(body)
        /\ \A j \in Places(body, Len(body), "thread") :
             body[j].dfbs \subseteq 1 .. Cardinality(Places(body, j, "dfb"))
        /\ Places(body, Len(body), "dfb") # {} =>
             \E j \in Places(body, Len(body), "thread") : body[j].dfbs # {}
        /\ Run(c).intermediates \in Seq(Nat)
        /\ Len(c.args) \in Nat /\ DOMAIN c.args = 1 .. Len(c.args)
=============================================================================
