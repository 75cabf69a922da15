------------------------------ MODULE NodeContext ------------------------------
(***************************************************************************)
(* One call of a simulated operation, up to the kernels it starts and back *)
(* (sim/operation.py, sim/program.py, sim/decorators.py): the three        *)
(* kernels are put in order, the PipeNets in reach are found, and every    *)
(* node that takes part gets a context of its own, in which tensors are    *)
(* shared, buffers are fresh and everything else is deep-copied; the       *)
(* kernels are rebuilt over it.                                            *)
(*                                                                         *)
(* An object of the program is a member of Objects, with what it holds: a  *)
(* list its elements, a function its closure.  A reference a kernel        *)
(* follows at run time is to the original of an object, <<-1, o>>, to a    *)
(* copy node n made, <<n, o>>, or to a fresh buffer node n made under a    *)
(* name, <<n, o, name>>.                                                   *)
(***************************************************************************)
EXTENDS Integers, Sequences, FiniteSets, SequencesExt, FiniteSetsExt, Functions, TLC

CONSTANTS Objects,   \* object -> [kind, holds, nodes]; kinds below; nodes: a PipeNet's pipe ends
          Names,     \* the names kernels use, in alphabetical order
          NodeIds    \* 0 .. total_nodes - 1

(* An operation, as its body leaves it: the kernels it registered, in      *)
(* order, each [kind, name, free, copiesOk] (whether every copy in it is of *)
(* a supported pattern, CopyWait); what each name is bound to in the scope *)
(* around the kernels; the module's names; the arguments of the call.      *)
Kernel(kind, name, free, copiesOk) == [kind |-> kind, name |-> name, free |-> free, copiesOk |-> copiesOk]

(* The wrapper's own variables; its call of the program adds them to the   *)
(* context, the grid first, before the names of the kernels.               *)
WrapperVars == <<"grid", "args", "kwargs", "clear_kernel_registry", "get_registered_kernels", "Program",
                 "build_pipenets", "discover_pipe_nets_from_closures", "kernels", "compute_kernels", "dm_kernels",
                 "ordered_kernels", "kernel_funcs", "pipe_nets", "pipenets", "program", "modified_func", "actual_grid">>
Overwritten == {"_node", "grid", "print"}

ObjectOf(op, o) ==
  CASE o = "args"    -> [kind |-> "list", holds |-> op.args, nodes |-> {}]
    [] o = "wrapper" -> [kind |-> "value", holds |-> <<>>, nodes |-> {}]
    [] OTHER         -> Objects[o]
Kind(op, o) == ObjectOf(op, o).kind

(* ---- the kernels, in order -------------------------------------------- *)

OfKind(op, kind) == SelectSeq(op.kernels, LAMBDA k : k.kind = kind)
OrderedKernels(op) == OfKind(op, "compute") \o OfKind(op, "dm")
KernelsOk(op) ==
  /\ Len(op.kernels) = 3 /\ Len(OfKind(op, "compute")) = 1 /\ Len(OfKind(op, "dm")) = 2

(* co_freevars and their cells.                                            *)
FreeVars(op, kernel) == SelectSeq(Names, LAMBDA n : n \in kernel.free /\ n \in DOMAIN op.binds)

(* ---- the PipeNets in reach -------------------------------------------- *)

(* Closure cells and globals; only the values themselves are looked at.    *)
NetsInFunc(op, kernel) ==
  {o \in {op.binds[FreeVars(op, kernel)[i]] : i \in DOMAIN FreeVars(op, kernel)} \cup Range(op.globals) :
     Kind(op, o) = "net"}
DiscoverPipeNets(op) == UNION {NetsInFunc(op, k) : k \in Range(op.kernels)}

(* None, every node takes part, when there is no PipeNet.                  *)
ActiveNodes(op) ==
  IF DiscoverPipeNets(op) = {} THEN NodeIds
  ELSE UNION {Objects[o].nodes : o \in DiscoverPipeNets(op)} \cap NodeIds

(* ---- the context of the program --------------------------------------- *)

Has(context, name) == \E i \in DOMAIN context : context[i][1] = name

(* ProgramImpl.__call__: the wrapper's variables, then the kernels' free   *)
(* ones that are not there yet.                                            *)
ProgramContext(op) ==
  LET wrappers == [i \in DOMAIN WrapperVars |->
                     <<WrapperVars[i], IF WrapperVars[i] = "args" THEN "args" ELSE "wrapper">>]
      frees == FoldLeft(LAMBDA s, k : s \o FreeVars(op, k), <<>>, OrderedKernels(op))
  IN  FoldLeft(LAMBDA c, n : IF Has(c, n) THEN c ELSE Append(c, <<n, op.binds[n]>>), wrappers, frees)

(* ---- the context of a node -------------------------------------------- *)

Original(o) == <<-1, o>>

(* copy.deepcopy with its memo: what it copied is not copied again.        *)
(* Functions, modules and values are their own copies; a list is a new     *)
(* list of the copies of its elements, which a later change of the memo    *)
(* no longer reaches.                                                      *)
(* A buffer is copied as an empty one.                                     *)
FreshCopy(node, o, made) == [made EXCEPT !.memo = (o :> <<node, o>>) @@ @]

RECURSIVE DeepCopy(_, _, _, _)
DeepCopy(op, node, o, made) ==
  IF o \in DOMAIN made.memo THEN made
  ELSE IF Kind(op, o) = "buffer" THEN FreshCopy(node, o, made)
  ELSE IF Kind(op, o) \in {"function", "module", "value"}
       THEN [made EXCEPT !.memo = (o :> Original(o)) @@ @]
       ELSE LET holds == ObjectOf(op, o).holds
                inside == FoldLeft(LAMBDA m, e : DeepCopy(op, node, e, m), made, holds)
            IN  [inside EXCEPT !.memo = (o :> <<node, o>>) @@ @,
                               !.held = (<<node, o>> :> [i \in DOMAIN holds |-> inside.memo[holds[i]]]) @@ @]

Put(made, name, ref) == [made EXCEPT !.context = (name :> ref) @@ @]

(* Mutant of Bind: the tensors of a node are copies.                       *)
BindCopy(op, node, made, name, o) ==
  CASE Kind(op, o) = "buffer" -> Put(made, name, <<node, o, name>>)
    [] OTHER -> LET copied == DeepCopy(op, node, o, made) IN Put(copied, name, copied.memo[o])
Bind(op, node, made, name, o) ==
  CASE Kind(op, o) = "module" -> Put(made, name, Original(o))
    [] Kind(op, o) = "tensor" -> Put([made EXCEPT !.memo = (o :> Original(o)) @@ @], name, Original(o))
    [] Kind(op, o) = "buffer" -> Put(made, name, <<node, o, name>>)
    [] OTHER -> LET copied == DeepCopy(op, node, o, made) IN Put(copied, name, copied.memo[o])

BuildNodeContext(op, node) ==
  LET made == FoldLeft(LAMBDA m, entry : Bind(op, node, m, entry[1], entry[2]),
                       [memo |-> <<>>, held |-> <<>>, context |-> <<>>], ProgramContext(op))
  IN  [held |-> made.held, context |-> [n \in Overwritten |-> <<node, n>>] @@ made.context]

(* The whole call: no context when it raises before the first kernel       *)
(* starts; the scheduler takes two kernels of a kind under two names only. *)
RunCooperative(op) ==
  IF /\ KernelsOk(op) /\ \A k \in Range(op.kernels) : k.copiesOk
     /\ OfKind(op, "dm")[1].name # OfKind(op, "dm")[2].name
  THEN [n \in ActiveNodes(op) |-> BuildNodeContext(op, n)] ELSE <<>>

(* ---- what the kernels of a node reach --------------------------------- *)

(* rebind_func_with_ctx: a free variable comes from the context, if it is  *)
(* there, else from its own cell.                                          *)
CellOf(op, built, name) ==
  IF name \in DOMAIN built.context THEN built.context[name] ELSE Original(op.binds[name])

HeldBy(op, built, o, ref) ==
  IF ref \in DOMAIN built.held THEN built.held[ref]
  ELSE [i \in DOMAIN ObjectOf(op, o).holds |-> Original(ObjectOf(op, o).holds[i])]

(* Pairs of an object and the reference the kernel has for it.             *)
RECURSIVE Through(_, _, _, _)
Through(op, built, o, ref) ==
  {<<o, ref>>} \cup
  UNION {Through(op, built, ObjectOf(op, o).holds[i], HeldBy(op, built, o, ref)[i]) : i \in DOMAIN ObjectOf(op, o).holds}

Reached(op, built) ==
  UNION {UNION {Through(op, built, op.binds[n], CellOf(op, built, n)) : n \in Range(FreeVars(op, k))} :
           k \in Range(op.kernels)}

(* The end of a kernel pushes and pops, and the end of the run checks, the *)
(* buffers that are values of the context.                                 *)
Finished(op, built) ==
  {built.context[n] : n \in {m \in DOMAIN op.binds \cap DOMAIN built.context :
                               m \notin Range(WrapperVars) /\ Kind(op, op.binds[m]) = "buffer"}}
ValidateDataflowBuffers(op, run) == UNION {Finished(op, run[n]) : n \in DOMAIN run}

-----------------------------------------------------------------------------
(* Inside a container: reached through a list or a helper's closure.       *)
RECURSIVE Inside(_)
Inside(o) == Range(Objects[o].holds) \cup UNION {Inside(e) : e \in Range(Objects[o].holds)}

Used(op) == UNION {Range(FreeVars(op, k)) : k \in Range(op.kernels)}
Hidden(op) == UNION {Inside(op.binds[n]) : n \in Used(op)}
At(op, name) == CHOOSE i \in DOMAIN ProgramContext(op) : ProgramContext(op)[i][1] = name

NamesOf(op, o) == {n \in Used(op) : op.binds[n] = o}
ClosedOver(op) == UNION {Inside(op.binds[n]) : n \in {m \in Used(op) : Objects[op.binds[m]].kind = "function"}}

(* A buffer of the node's own: under one name, and in no list or closure.  *)
OwnBuffer(op, o) == o \notin Hidden(op) /\ Cardinality(NamesOf(op, o)) = 1

(* A tensor that the context has under its name before any list with it;   *)
(* the lists among the arguments have been copied before that.             *)
ArgumentLists(op) ==
  {o \in Range(op.args) \cup UNION {Inside(a) : a \in Range(op.args)} : Objects[o].kind = "list"}
NamedBeforeLists(op, o) ==
  \A n \in Used(op) : Objects[op.binds[n]].kind = "list" /\ o \in Inside(op.binds[n]) =>
    /\ \E m \in NamesOf(op, o) : At(op, m) < At(op, n)
    /\ ({op.binds[n]} \cup Inside(op.binds[n])) \cap ArgumentLists(op) = {}

(* A kernel gets "per-node context with fresh DataflowBuffers and          *)
(* deep-copied state": it reaches one buffer where the program has one,    *)
(* and that is finished and checked at the end, exactly when the buffer    *)
(* has one name and nothing holds it; no other node reaches a buffer or a  *)
(* list of this one unless a helper closed over it; what is written to a   *)
(* tensor is in the caller's tensor; and no node that a PipeNet bound to a *)
(* name names is left out.  No name of the wrapper's is used.              *)
NodesKeepToThemselves(op) ==
  Used(op) \cap (Range(WrapperVars) \cup Overwritten) = {} =>
    LET run == RunCooperative(op)
        reached == [n \in DOMAIN run |-> Reached(op, run[n])]
        Refs(n, o) == {p[2] : p \in {q \in reached[n] : q[1] = o}}
        Kinds(n, kinds) == {p[1] : p \in {q \in reached[n] : Objects[q[1]].kind \in kinds}}
    IN  \A n \in DOMAIN run :
          /\ \A o \in Kinds(n, {"buffer"}) :
               OwnBuffer(op, o)
                 <=> Cardinality(Refs(n, o)) = 1 /\ Refs(n, o) \subseteq Finished(op, run[n]) \cap ValidateDataflowBuffers(op, run)
          /\ \A o \in Kinds(n, {"buffer", "list"}) \ ClosedOver(op), m \in DOMAIN run \ {n} : Refs(n, o) \cap Refs(m, o) = {}
          /\ \A o \in Kinds(n, {"tensor"}) : NamedBeforeLists(op, o) => Refs(n, o) = {Original(o)}
          /\ \A o \in Kinds(n, {"net"}) \ Hidden(op) : Objects[o].nodes \cap NodeIds \subseteq DOMAIN run
=============================================================================
