-------------------------------- MODULE Runner --------------------------------
(***************************************************************************)
(* From a compiled kernel to the program ttnn.generic_op runs              *)
(* (ttl/kernel_runner.py and the end of ttl_api.py): the L1 the pipes      *)
(* need, the arguments of each thread, the circular buffers and their      *)
(* budget; and the standalone runner that TTLANG_EMIT_RUNNER writes.       *)
(*                                                                         *)
(* A kernel is [specs, cbs, grid, scratch, globals, syncs], a spec [path,  *)
(* type, indices, config]; a tensor has its address, the compile-time      *)
(* arguments of its accessor and its device ("none" off device); a device  *)
(* has the L1 limit for buffers and what is allocated on each core.  What  *)
(* ttnn returns for an allocation is a name for it.                        *)
(***************************************************************************)
EXTENDS Integers, Sequences, FiniteSets, SequencesExt, FiniteSetsExt, Functions

CONSTANTS DefaultBudget,     \* DEFAULT_L1_CB_BUDGET_BYTES
          SemaphoreBytes     \* the L1 of a GlobalSemaphore on a core

(* The sums, and the concatenations, of what a sequence begins with.       *)
Sums(seq) == LET sum[n \in 0 .. Len(seq)] == IF n = 0 THEN 0 ELSE sum[n - 1] + seq[n] IN sum
Joins(seqs) == LET join[n \in 0 .. Len(seqs)] == IF n = 0 THEN <<>> ELSE join[n - 1] \o seqs[n] IN join
Bytes(seq) == Sums(seq)[Len(seq)]
Concat(seqs) == Joins(seqs)[Len(seqs)]

(* ---- formats ---------------------------------------------------------- *)

TileBytesOf(format) ==
  CASE format \in {"bfloat16", "uint16"}        -> 2048
    [] format \in {"float32", "int32", "uint32"} -> 4096
    [] format = "bfloat8_b"                     -> 1088
    [] format = "uint8"                         -> 1024
    [] format = "bfloat4_b"                     -> 576

(* The formats of compiler-allocated buffers; f16 is carried as bf16.      *)
FormatOfName(name) == IF name = "float16" THEN "bfloat16" ELSE name
FormatNames == {"bfloat16", "float16", "float32", "int32", "uint32", "uint16"}

(* _dtype_to_ttnn_str asks for these in turn; a name is part of those it   *)
(* maps to.                                                                *)
StrOrder == <<"bfloat16", "float32", "float16", "uint32", "uint16", "int32">>
PartOf(name) ==
  CASE name = "float16" -> {"float16", "bfloat16"}
    [] name = "int32"   -> {"int32", "uint32"}
    [] OTHER            -> {name}
DtypeToStr(format) ==
  LET found == {i \in DOMAIN StrOrder : format \in PartOf(StrOrder[i])}
  IN  IF found = {} THEN "bfloat16" ELSE StrOrder[Min(found)]

(* ---- kernels and their configuration ---------------------------------- *)

ComputeConfig(fp32, fullSync, unpack) ==
  [role |-> "compute", fp32 |-> fp32, fullSync |-> fullSync, unpack |-> unpack]
DmConfig(role) == [ComputeConfig(FALSE, FALSE, {}) EXCEPT !.role = role]
DefaultCompute == ComputeConfig(FALSE, FALSE, {})

(* What the operation says wins over what the compiler found.              *)
Setting(option, attr) == IF option # <<>> THEN option[1] ELSE attr
NocBefore(threads, i) == Cardinality({j \in 1 .. i - 1 : threads[j].type = "noc"})
KernelConfig(threads, i, options) ==
  CASE threads[i].type = "compute" ->
         ComputeConfig(Setting(options.fp32, threads[i].fp32), Setting(options.fullSync, threads[i].fullSync),
                       threads[i].unpack)
    [] threads[i].type = "noc" -> DmConfig(IF NocBefore(threads, i) = 0 THEN "reader" ELSE "writer")
    [] OTHER -> DmConfig("reader")

KernelSpecs(threads, options) ==
  [i \in DOMAIN threads |->
     [path |-> threads[i].path, type |-> threads[i].type, indices |-> threads[i].indices,
      config |-> KernelConfig(threads, i, options)]]

(* ---- pipe resources --------------------------------------------------- *)

AlignUp(value, alignment) == ((value + alignment - 1) \div alignment) * alignment
ScratchPerCore(bytes) == 4 * Max({1, AlignUp(bytes, 32) \div 4})
Cores(grid) == (0 .. grid[1] - 1) \X (0 .. grid[2] - 1)

ScratchTensors(k) == IF k.scratch <= 0 THEN <<>> ELSE <<"scratch">>
GlobalSemaphores(k) == [i \in 1 .. k.globals |-> <<"semaphore", i - 1>>]
SyncSemaphores(k) == [i \in 1 .. k.syncs |-> i - 1]

(* Both are allocated in L1, on the cores of the kernel, before anything   *)
(* is measured.                                                            *)
Allocate(device, k) ==
  LET more == (IF k.scratch <= 0 THEN 0 ELSE ScratchPerCore(k.scratch)) + k.globals * SemaphoreBytes
  IN  [device EXCEPT !.l1 = [c \in DOMAIN @ |-> IF c \in Cores(k.grid) THEN @[c] + more ELSE @[c]]]

(* ttnn raises for what the L1 of a core does not hold.                    *)
AllocationOk(device, k) == \A c \in DOMAIN device.l1 : Allocate(device, k).l1[c] <= device.limit

(* Mutant of ExtraArgs: the semaphores first.                              *)
ExtraArgsSemaphoresFirst(k) == GlobalSemaphores(k) \o ScratchTensors(k)
ExtraArgs(k) == ScratchTensors(k) \o GlobalSemaphores(k)

OnDevice(tensors) == \E i \in DOMAIN tensors : tensors[i].device # "none"
ResourcesOk(tensors, k) == k.scratch > 0 \/ k.globals > 0 => OnDevice(tensors)

(* ---- kernel and buffer descriptors ------------------------------------ *)

AccessorArgs(tensors) == Concat([i \in DOMAIN tensors |-> tensors[i].accessor])

KernelDescriptor(spec, tensors, k) ==
  LET cbIndices == [i \in 1 .. Len(k.cbs) |-> i - 1]
  IN  [path |-> spec.path, config |-> spec.config,
       compileTime |-> IF spec.type = "compute" THEN cbIndices ELSE cbIndices \o AccessorArgs(tensors),
       commonRuntime |-> [i \in DOMAIN spec.indices |-> tensors[spec.indices[i] + 1].address] \o ExtraArgs(k)]

FormatOf(cb) == IF cb.kind = "compiler" THEN FormatOfName(cb.format) ELSE cb.format
CbOk(cb) == cb.kind # "none" /\ (cb.kind = "compiler" => cb.format \in FormatNames)
(* The tiles of a block: its first two dimensions, whatever its rank.      *)
CbTiles(cb) == IF cb.kind = "compiler" THEN cb.tiles ELSE cb.shape[1] * cb.shape[2]
CbDescriptor(cbs, i) ==
  LET page == TileBytesOf(FormatOf(cbs[i]))
  IN  [index |-> i - 1, format |-> FormatOf(cbs[i]), page |-> page, total |-> CbTiles(cbs[i]) * cbs[i].blocks * page]
CbDescriptors(cbs) == [i \in DOMAIN cbs |-> CbDescriptor(cbs, i)]
TotalBytes(cbs) == Bytes([i \in DOMAIN cbs |-> CbDescriptor(cbs, i).total])

(* get_min_remaining_l1_for_device: of the core that has least left.       *)
MinRemainingL1(device) == Max({0, device.limit - Max(Range(device.l1))})
Remaining(tensors, device) == IF OnDevice(tensors) THEN MinRemainingL1(device) ELSE DefaultBudget

IoTensors(tensors, k) ==
  LET io == [i \in DOMAIN tensors |-> tensors[i].address] \o ScratchTensors(k)
  IN  IF Len(io) < 2 THEN <<Last(io)>> \o io ELSE io

(* ---- run_kernel_on_device --------------------------------------------- *)

NoProgram == [kernels |-> <<>>, cbs |-> <<>>, semaphores |-> <<>>, io |-> <<>>]
IndicesOk(k, tensors) == \A s \in Range(k.specs) : \A i \in DOMAIN s.indices : s.indices[i] < Len(tensors)
Runs(k, tensors, device) ==
  /\ ResourcesOk(tensors, k) /\ AllocationOk(device, k) /\ IndicesOk(k, tensors)
  /\ \A i \in DOMAIN k.cbs : CbOk(k.cbs[i])
  /\ TotalBytes(k.cbs) <= Remaining(tensors, Allocate(device, k))
  /\ tensors # <<>> \/ k.scratch > 0

ProgramOf(k, cbs, tensors) ==
  [kernels |-> [i \in DOMAIN k.specs |-> KernelDescriptor(k.specs[i], tensors, k)],
   cbs |-> cbs, semaphores |-> SyncSemaphores(k), io |-> IoTensors(tensors, k)]

RunKernelOnDevice(k, tensors, device) ==
  IF Runs(k, tensors, device) THEN ProgramOf(k, CbDescriptors(k.cbs), tensors) ELSE NoProgram

(* ---- the emitted runner ----------------------------------------------- *)

(* It keeps the sizes as numbers and the formats as names.                 *)
EmitRunner(k, numTensors) ==
  [specs |-> k.specs, grid |-> k.grid, scratch |-> k.scratch, globals |-> k.globals, syncs |-> k.syncs,
   count |-> numTensors,
   cbs |-> [i \in DOMAIN k.cbs |-> [CbDescriptor(k.cbs, i) EXCEPT !.format = DtypeToStr(@)]]]
Emits(k) == \A i \in DOMAIN k.cbs : k.cbs[i].kind # "compiler"

OtherBefore(specs, i) == Cardinality({j \in 1 .. i - 1 : specs[j].type # "compute"})
EmittedConfig(specs, i) ==
  IF specs[i].type = "compute" THEN DefaultCompute
  ELSE DmConfig(IF OtherBefore(specs, i) = 0 THEN "reader" ELSE "writer")

RunEmitted(runner, tensors) ==
  LET k == [runner EXCEPT !.specs = [i \in DOMAIN @ |-> [@[i] EXCEPT !.config = EmittedConfig(runner.specs, i)]]]
  IN  IF Len(tensors) = runner.count THEN ProgramOf(k, runner.cbs, tensors) ELSE NoProgram

-----------------------------------------------------------------------------
(* What can be launched: the compiler makes threads of two types, of which *)
(* those that move data read or write by their order; buffers have formats *)
(* with a tile size; the L1 of no core is over its limit.                  *)
Formats == {"bfloat16", "uint16", "float32", "int32", "uint32", "bfloat8_b", "uint8", "bfloat4_b"}
Configs == [role : {"compute", "reader", "writer"}, fp32 : BOOLEAN, fullSync : BOOLEAN, unpack : SUBSET Nat]
Specs(paths) == [path : paths, type : {"compute", "noc"}, indices : Seq(Nat), config : Configs]
Cbs ==
  [kind : {"bound", "none"}, format : Formats, shape : {s \in Seq(Nat) : Len(s) >= 2}, blocks : Nat]
    \cup [kind : {"compiler"}, format : FormatNames, tiles : Nat, blocks : Nat]
ByOrder(specs) ==
  \A i \in DOMAIN specs :
    specs[i].type = "noc" => specs[i].config = DmConfig(IF NocBefore(specs, i) = 0 THEN "reader" ELSE "writer")
Kernels(paths) ==
  {k \in [specs : Seq(Specs(paths)), cbs : Seq(Cbs), scratch : Nat, globals : Nat, syncs : Nat, grid : Seq(Nat)] :
     ByOrder(k.specs)}
Tensors(addresses) == [address : addresses, accessor : Seq(Nat), device : STRING]
Devices(cores) == {d \in [limit : Nat, l1 : [cores -> Nat]] : \A c \in cores : d.l1[c] <= d.limit}

-----------------------------------------------------------------------------
(* Where the generated code looks (ConvertTTLToTTKernel.cpp 147-180,       *)
(* PipeLowering.cpp 164-190): the address of its i-th tensor is common     *)
(* argument i, the scratch base and the semaphores come after its own      *)
(* tensors, and the accessor of a tensor starts behind the buffers and the *)
(* accessors of the tensors before it.                                     *)
LooksUpRuntime(k, spec, what, i) ==
  CASE what = "tensor"    -> i
    [] what = "scratch"   -> Len(spec.indices)
    [] what = "semaphore" -> Len(spec.indices) + (IF k.scratch > 0 THEN 1 ELSE 0) + i
LooksUpAccessor(k, tensors, index) ==
  Len(k.cbs) + Sums([j \in DOMAIN tensors |-> Len(tensors[j].accessor)])[index]

(* Every thread of a program finds, where its code looks, its own tensors, *)
(* the scratch memory and each semaphore of the pipes; and on every core   *)
(* the circular buffers fit beside what is allocated there, the pipes' own *)
(* memory included.                                                        *)
ProgramHoldsTogether(k, tensors, device) ==
  LET program == RunKernelOnDevice(k, tensors, device)
  IN  program # NoProgram =>
        /\ \A n \in DOMAIN k.specs :
             LET spec == k.specs[n]
                 args == program.kernels[n].commonRuntime
                 Arg(what, i) == args[LooksUpRuntime(k, spec, what, i) + 1]
             IN  /\ \A i \in DOMAIN spec.indices : Arg("tensor", i - 1) = tensors[spec.indices[i] + 1].address
                 /\ k.scratch > 0 => Arg("scratch", 0) = "scratch"
                 /\ \A i \in 0 .. k.globals - 1 : Arg("semaphore", i) = <<"semaphore", i>>
                 /\ spec.type # "compute" =>
                      \A t \in DOMAIN tensors :
                        LET from == LooksUpAccessor(k, tensors, t - 1)
                        IN  SubSeq(program.kernels[n].compileTime, from + 1, from + Len(tensors[t].accessor))
                              = tensors[t].accessor
        /\ OnDevice(tensors) =>
             \A core \in DOMAIN device.l1 : Allocate(device, k).l1[core] + TotalBytes(k.cbs) <= device.limit
        /\ Len(program.io) >= 2

(* Of the program it is written for, the emitted runner keeps everything   *)
(* but two things: a compute thread gets the default configuration, and a  *)
(* format the name that ttnn has for it, or bfloat16's.                    *)
AsWritten(k, program) ==
  LET Thread(i) == IF k.specs[i].type = "compute"
                   THEN [program.kernels[i] EXCEPT !.config = DefaultCompute] ELSE program.kernels[i]
      Buffer(i) == [program.cbs[i] EXCEPT !.format = DtypeToStr(@)]
  IN  [program EXCEPT !.kernels = [i \in DOMAIN program.kernels |-> Thread(i)],
                      !.cbs = [i \in DOMAIN program.cbs |-> Buffer(i)]]

(* A runner is written for every kernel without buffers of the compiler.   *)
RunnerKeepsTheRest(k, tensors, device) ==
  Runs(k, tensors, device) /\ Emits(k) =>
    RunEmitted(EmitRunner(k, Len(tensors)), tensors) = AsWritten(k, RunKernelOnDevice(k, tensors, device))
=============================================================================
