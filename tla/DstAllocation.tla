--------------------------- MODULE DstAllocation ---------------------------
(***************************************************************************)
(* The destination registers of a compute body without matmuls             *)
(* (TTLAssignDST.cpp), the unrolling that gives each tile registers of its *)
(* own (ConvertTTLComputeToSCF.cpp), the reordering inside a section       *)
(* (TTLScheduleOperations.cpp), and what the lowered operations do to the  *)
(* registers (ConvertTTLTileOpsToTTKernel.cpp).                            *)
(*                                                                         *)
(* A value is <<0, n>>, an input tile; <<k, 0>>, the result of operation   *)
(* k; or <<k, n, v>>, the n-th copy of v made for operation k.             *)
(***************************************************************************)
EXTENDS Integers, Sequences, FiniteSets, SequencesExt, FiniteSetsExt, Functions, TLC

CONSTANT FPU     \* ttl.enable_fpu_binary_ops

Arg(n) == <<0, n>>
IsArg(v) == v[1] = 0
Op(k, kind, args) == [kind |-> kind, args |-> args, result |-> <<k, 0>>]
Fresh(op) == op.kind # "store"

(* Which operations read tiles from buffers, overwrite their operand, and  *)
(* add to what is in their register.                                       *)
IsFPU(op) == op.kind = "add" /\ FPU /\ \A v \in Range(op.args) : IsArg(v)
IsCBInput(op) == op.kind \in {"bcast", "copyTile"} \/ IsFPU(op)
InPlace(op) == op.kind \in {"unary", "max"}

-----------------------------------------------------------------------------
(* Phase 1: a value with several uses, one of them in place, is copied for *)
(* all uses but the last.                                                  *)
Consumers(body, v) ==
  FlattenSeq([k \in DOMAIN body |->
    IF IsCBInput(body[k]) THEN <<>> ELSE [i \in 1 .. Len(SelectSeq(body[k].args, LAMBDA w : w = v)) |-> k]])
CopiesFor(body, k, v) ==
  LET c == Consumers(body, v)
  IN  IF Len(c) > 1 /\ \E i \in DOMAIN c : InPlace(body[c[i]])
      THEN Cardinality({i \in 1 .. Len(c) - 1 : c[i] = k}) ELSE 0

Precedes(v, w) == IF IsArg(v) = IsArg(w) THEN v[1] < w[1] \/ (v[1] = w[1] /\ v[2] < w[2]) ELSE IsArg(v)
CopiesBefore(body, k) ==
  LET values == SetToSortSeq(Range(body[k].args), Precedes)
      Copy(v, n) == [kind |-> IF IsArg(v) THEN "copyTile" ELSE "copyDst", args |-> <<v>>, result |-> <<k, n, v>>]
  IN  FlattenSeq([i \in DOMAIN values |-> [n \in 1 .. CopiesFor(body, k, values[i]) |-> Copy(values[i], n)]])
Rewired(body, k) ==
  [body[k] EXCEPT !.args = [i \in DOMAIN @ |-> IF CopiesFor(body, k, @[i]) > 0 THEN <<k, 1, @[i]>> ELSE @[i]]]
InsertCopies(body) ==
  FlattenSeq([k \in DOMAIN body |->
    IF IsCBInput(body[k]) THEN <<body[k]>> ELSE Append(CopiesBefore(body, k), Rewired(body, k))])

-----------------------------------------------------------------------------
(* Phase 2: live intervals.  Operations are gap positions apart.           *)
Touch(ivs, v, at) ==
  IF \E i \in DOMAIN ivs : ivs[i].value = v
  THEN [i \in DOMAIN ivs |-> IF ivs[i].value = v THEN [ivs[i] EXCEPT !.end = at] ELSE ivs[i]]
  ELSE Append(ivs, [value |-> v, start |-> at - 1, end |-> at])
LiveIntervals(ops, gap) ==
  LET Visit(ivs, k) ==
        LET used == IF IsCBInput(ops[k]) THEN ivs ELSE FoldLeft(LAMBDA s, v : Touch(s, v, gap * k), ivs, ops[k].args)
        IN  IF Fresh(ops[k]) THEN Append(used, [value |-> ops[k].result, start |-> gap * k, end |-> gap * k]) ELSE used
  IN  FoldLeft(Visit, <<>>, [k \in DOMAIN ops |-> k])

(* An operation in place shares a register with its first operand.         *)
MergedClasses(ops, ivs) ==
  LET Union(p, op) ==
        LET both == {c \in p : op.args[1] \in c \/ op.result \in c} IN (p \ both) \cup {UNION both}
  IN  FoldLeft(Union, {{ivs[i].value} : i \in DOMAIN ivs}, SelectSeq(ops, InPlace))
ClassOf(classes, v) == CHOOSE c \in classes : v \in c
Merge(ivs, classes) ==
  LET Joined(iv) ==
        LET mates == {j \in DOMAIN ivs : ivs[j].value \in ClassOf(classes, iv.value)}
        IN  [iv EXCEPT !.start = Min({ivs[j].start : j \in mates}), !.end = Max({ivs[j].end : j \in mates})]
  IN  FoldLeft(LAMBDA s, iv : Append(s, Joined(iv)), <<>>, ivs)

(* Results of the FPU keep their registers until the last of them starts.  *)
ExtendFPU(ivs, ops, gap) ==
  LET at == {k \in DOMAIN ops : IsFPU(ops[k])}
      last == gap * Max(at)
      results == {ops[k].result : k \in at}
  IN  IF Cardinality(at) <= 1 THEN ivs
      ELSE [i \in DOMAIN ivs |->
              IF ivs[i].value \in results /\ ivs[i].end <= last THEN [ivs[i] EXCEPT !.end = last + 1] ELSE ivs[i]]

-----------------------------------------------------------------------------
(* Phases 3 and 4: the first free register for each class, in order of the *)
(* starts; a separate scan, above the first, for what is stored.           *)
LinearScan(ivs, classes, wanted, state) ==
  LET Allocate(s, i) ==
        LET iv == ivs[i]
            expired == {a \in s.active : a.end <= iv.start}
            free == s.free \cup {s.assign[a.value] : a \in expired}
            class == ClassOf(classes, iv.value)
        IN  IF ~s.ok \/ iv.value \notin wanted \/ iv.value \in DOMAIN s.assign THEN s
            ELSE IF free = {} THEN [s EXCEPT !.ok = FALSE]
            ELSE [s EXCEPT !.free = free \ {Min(free)}, !.active = (@ \ expired) \cup {iv},
                           !.assign = @ @@ [v \in class |-> Min(free)]]
  IN  FoldLeft(Allocate, [state EXCEPT !.active = {}],
               SortSeq([i \in DOMAIN ivs |-> i], LAMBDA i, j : ivs[i].start < ivs[j].start \/ (ivs[i].start = ivs[j].start /\ i < j)))

Footprint(assign) == IF DOMAIN assign = {} THEN 0 ELSE Max(Range(assign)) + 1
AssignDST(ops, capacity, gap, separate) ==
  LET found == LiveIntervals(ops, gap)
      classes == MergedClasses(ops, found)
      ivs == ExtendFPU(Merge(found, classes), ops, gap)
      values == {ivs[i].value : i \in DOMAIN ivs}
      stored == {v \in values : \E k \in DOMAIN ops : ops[k].kind = "store" /\ ops[k].args[1] = v}
      empty == [ok |-> TRUE, free |-> 0 .. capacity - 1, active |-> {}, assign |-> <<>>]
      inputs == LinearScan(ivs, classes, {v \in values : ClassOf(classes, v) \cap stored = {}}, empty)
  IN  IF ~separate THEN LinearScan(ivs, classes, values, empty)
      ELSE LinearScan(ivs, classes, stored, [inputs EXCEPT !.free = Footprint(inputs.assign) .. capacity - 1])

-----------------------------------------------------------------------------
(* The body with its loads, just before the first use that needs them, and *)
(* its registers; once for each tile of the section, the stores last.      *)
Instr(op, assign) ==
  [kind |-> IF IsFPU(op) THEN "fpu" ELSE op.kind, args |-> op.args, result |-> op.result, tile |-> 0,
   dst |-> assign[IF Fresh(op) THEN op.result ELSE op.args[1]],
   srcs |-> IF IsCBInput(op) THEN <<>> ELSE [i \in DOMAIN op.args |-> assign[op.args[i]]]]
Load(v, assign) == [kind |-> "copyTile", args |-> <<v>>, result |-> v, tile |-> 0, dst |-> assign[v], srcs |-> <<>>]
WithLoads(ops, assign) ==
  LET First(k) ==
        SelectSeq(IF IsCBInput(ops[k]) THEN <<>> ELSE [i \in DOMAIN ops[k].args |-> i],
                  LAMBDA i : LET v == ops[k].args[i]
                             IN  /\ IsArg(v) /\ \A j \in 1 .. i - 1 : ops[k].args[j] # v
                                 /\ \A j \in 1 .. k - 1 : IsCBInput(ops[j]) \/ v \notin Range(ops[j].args))
  IN  FlattenSeq([k \in DOMAIN ops |->
        Append([i \in DOMAIN First(k) |-> Load(ops[k].args[First(k)[i]], assign)], Instr(ops[k], assign))])

UnrollFactor(assign, capacity, tiles) == Min({capacity \div Footprint(assign), tiles})
Unroll(code, tiles) ==
  LET perTile == Max({code[i].dst : i \in DOMAIN code}) + 1
      Of(t) == [i \in DOMAIN code |-> [code[i] EXCEPT !.tile = t, !.dst = @ + t * perTile,
                                                      !.srcs = [s \in DOMAIN @ |-> @[s] + t * perTile]]]
      all == FlattenSeq([t \in 1 .. tiles |-> Of(t - 1)])
  IN  SelectSeq(all, LAMBDA i : i.kind # "store") \o SelectSeq(all, LAMBDA i : i.kind = "store")

-----------------------------------------------------------------------------
(* The operations of a section before its stores, by depth in the graph of *)
(* uses and register hazards, then by kind.                                *)
LastWriter(code, i, r) == {j \in 1 .. i - 1 : code[j].dst = r /\ \A k \in j + 1 .. i - 1 : code[k].dst # r}
PendingReaders(code, i, r) ==
  {j \in 1 .. i - 1 : r \in Range(code[j].srcs) /\ \A k \in j .. i - 1 : code[k].dst # r}

(* Mutant of Predecessors: a write may overtake the reads before it.       *)
PredecessorsOfReads(code, i) ==
  {j \in 1 .. i - 1 : code[j].tile = code[i].tile /\ code[j].result \in Range(code[i].args)}
    \cup UNION {LastWriter(code, i, r) : r \in Range(code[i].srcs) \cup {code[i].dst}}
Predecessors(code, i) ==
  {j \in 1 .. i - 1 : code[j].tile = code[i].tile /\ code[j].result \in Range(code[i].args)}
    \cup UNION {LastWriter(code, i, r) : r \in Range(code[i].srcs) \cup {code[i].dst}}
    \cup PendingReaders(code, i, code[i].dst)
DepthLevels(code) ==
  FoldLeft(LAMBDA level, i : Append(level, Max({0} \cup {level[j] + 1 : j \in Predecessors(code, i)})),
           <<>>, [i \in DOMAIN code |-> i])

Category == [bcast |-> 0, copyTile |-> 2, fpu |-> 3, unary |-> 4, add |-> 5, max |-> 5, copyDst |-> 6]
SortKey(code, level, i) ==
  <<level[i], Category[code[i].kind], IF code[i].kind = "max" THEN 1 ELSE 0,
    IF code[i].kind = "copyTile" THEN code[i].args[1][2] ELSE 0, code[i].dst, i>>
Schedule(code) ==
  LET math == SelectSeq(code, Fresh)
      level == DepthLevels(math)
      Before(i, j) ==
        LET a == SortKey(math, level, i)  b == SortKey(math, level, j)
        IN  \E n \in DOMAIN a : a[n] < b[n] /\ \A m \in 1 .. n - 1 : a[m] = b[m]
      order == SortSeq([i \in DOMAIN math |-> i], Before)
  IN  [i \in DOMAIN order |-> math[order[i]]] \o SelectSeq(code, LAMBDA i : ~Fresh(i))

-----------------------------------------------------------------------------
(* What the lowered code does.  The FPU adds to the old value of its       *)
(* register, whoever wrote it; a section begins with registers of zeros.   *)
Zero == <<"zero">>
Execute(code, registers) ==
  LET Tiles(i) == [n \in DOMAIN i.args |-> <<"tile", i.args[n], i.tile>>]
      Read(regs, i) == [s \in DOMAIN i.srcs |-> regs[i.srcs[s]]]
      Step(regs, i) ==
        CASE i.kind = "copyTile" -> [regs EXCEPT ![i.dst] = Tiles(i)[1]]
          [] i.kind = "bcast" -> [regs EXCEPT ![i.dst] = <<"bcast">> \o Tiles(i)]
          [] i.kind = "fpu" -> [regs EXCEPT ![i.dst] = (IF @ = Zero THEN <<"add">> ELSE <<"accumulate", @>>) \o Tiles(i)]
          [] i.kind = "unary" -> [regs EXCEPT ![i.dst] = <<"unary", @>>]
          [] i.kind = "max" -> [regs EXCEPT ![i.srcs[1]] = <<"max">> \o Read(regs, i)]
          [] i.kind = "add" -> [regs EXCEPT ![i.dst] = <<"add">> \o Read(regs, i)]
          [] i.kind = "copyDst" -> [regs EXCEPT ![i.dst] = Read(regs, i)[1]]
          [] OTHER -> regs
  IN  FoldLeft(Step, [r \in 0 .. registers - 1 |-> Zero], code)

(* What the body means, tile by tile.                                      *)
Meaning(body, t) ==
  LET Tile(v) == <<"tile", v, t>>
      means[k \in DOMAIN body] ==
        <<body[k].kind>> \o [n \in DOMAIN body[k].args |->
          IF IsArg(body[k].args[n]) THEN Tile(body[k].args[n]) ELSE means[body[k].args[n][1]]]
  IN  means

(* The code of a body: of one tile, and of a section of tiles in the order *)
(* it is scheduled in.                                                     *)
Compile(body, capacity, gap, separate, tiles) ==
  LET ops == InsertCopies(body)
      Emitted(dst) == IF dst.ok THEN {WithLoads(ops, dst.assign)} ELSE {}
      Section(dst, code) == Unroll(code, UnrollFactor(dst.assign, capacity, tiles))
  IN  UNION {UNION {{code, Schedule(Section(dst, code))} : code \in Emitted(dst)}
               : dst \in {AssignDST(ops, capacity, gap, separate)}}

(* What a body stores is what it computes: no register is overwritten      *)
(* while its value is needed, by the allocation, by the copies, by another *)
(* tile of the section or by the new order, and no value is left where an  *)
(* accumulating operation writes ("We prevent this by extending FPU binary *)
(* result intervals", TTLAssignDST.cpp 379-425).                           *)
StoresWhatItComputes(body, code, capacity) ==
  LET regs == Execute(code, capacity)
  IN  \A i \in DOMAIN code :
        /\ code[i].dst < capacity
        /\ code[i].kind = "store" =>
             \E k \in DOMAIN body :
               /\ body[k].result = code[i].args[1]
               /\ regs[code[i].srcs[1]] = Meaning(body, code[i].tile)[k]

(* The intervals keep the FPU off what another FPU operation leaves; that  *)
(* nothing else was in its register is more than the allocation sees to.   *)
FPUFollowsOnlyFPU(code) ==
  \A i \in DOMAIN code : code[i].kind = "fpu" =>
    \A j \in 1 .. i - 1 : code[j].dst = code[i].dst => code[j].kind = "fpu"
=============================================================================
