----------------------------- MODULE PipeProgram -----------------------------
(***************************************************************************)
(* The part of a TTL module that the pipe passes read: the launch grid,    *)
(* the declared pipes, and the kernel functions, each a sequence of        *)
(* operations in walk order.  An operation lies in nested regions: its     *)
(* path names, from the outside in, every if it is under, with the         *)
(* condition and the arm taken.  Two operations are in one block when they *)
(* are in one function and have one path.                                  *)
(*                                                                         *)
(* A loop is around the whole body of a function (its trip count is the    *)
(* parameter of the device, not of the passes, which do not read it).      *)
(***************************************************************************)
EXTENDS Integers, Sequences, FiniteSets, SequencesExt

(* A pipe of PipeNet net from node src to the rectangle dst (inclusive).   *)
(* declared is the isCollective attribute: "yes", "no" or "unset".         *)
Pipe(net, src, start, end, declared) ==
  [net |-> net, src |-> src, start |-> start, end |-> end, declared |-> declared]

HasSingleReceiver(p) == p.start = p.end

(* What the frontend emits for a ttl.Pipe: a range is declared collective, *)
(* a coordinate is not declared anything.                                  *)
EmitPipe(net, src, start, end, collective) ==
  Pipe(net, src, start, end, IF collective THEN "yes" ELSE "unset")

(* The nodes of the destination rectangle.                                 *)
Destinations(p) == {<<x, y>> : x \in p.start[1] .. p.end[1], y \in p.start[2] .. p.end[2]}

NumDests(p) == (p.end[1] - p.start[1] + 1) * (p.end[2] - p.start[2] + 1)

SrcInDstRange(p) == p.src \in Destinations(p)

(* CreatePipeOp::verify: the destination is not empty and a pipe with      *)
(* several receivers is not declared point-to-point.                       *)
CreatePipeOk(p) ==
  /\ \A axis \in 1 .. 2 : p.src[axis] >= 0 /\ p.start[axis] >= 0
  /\ \A axis \in 1 .. 2 : p.start[axis] <= p.end[axis]
  /\ ~HasSingleReceiver(p) => p.declared # "no"

(* The attribute decides when there is one: a collective with a single     *)
(* receiver still follows the collective protocol.                         *)
IsCollective(p) == IF p.declared = "unset" THEN ~HasSingleReceiver(p) ELSE p.declared = "yes"

-----------------------------------------------------------------------------
(* Operations.  A receive copy posts its destination; the wait of its      *)
(* handle names it by its id.  The other kinds are the calls on the        *)
(* dataflow buffer that holds the received block.                          *)

NoPipe == [net |-> -1]
Op(id, kind, path, pipe, buf, of) ==
  [id |-> id, kind |-> kind, path |-> path, pipe |-> pipe, buf |-> buf, tile |-> 0, of |-> of]

(* The destination of a receive is the reserved block, or its slice at a   *)
(* static tile offset.                                                     *)
PostOp(id, path, pipe, buf, tile) ==
  [Op(id, "post", path, pipe, buf, id) EXCEPT !.tile = tile]
SendOp(id, path, pipe) == Op(id, "send", path, pipe, "none", id)
WaitOp(id, path, pipe, of) == Op(id, "wait", path, pipe, "none", of)
BufOp(id, kind, path, buf) == Op(id, kind, path, NoPipe, buf, id)

(* One region entered: the if, its condition and the arm, "then" or        *)
(* "else".  A condition is the sequence of the values it is computed from: *)
(* each is a leaf, or the conjunction or disjunction of two earlier ones,  *)
(* l and r; the last value is the condition itself.                        *)
Under(if, cond, arm) == [if |-> if, cond |-> cond, arm |-> arm]
Root(cond) == cond[Len(cond)]

(* Positions of a module's operations, in the order a walk meets them.     *)
Positions(prog) == UNION {{f} \X DOMAIN prog.funcs[f] : f \in DOMAIN prog.funcs}
At(prog, pos) == prog.funcs[pos[1]][pos[2]]
WalkBefore(a, b) == a[1] < b[1] \/ (a[1] = b[1] /\ a[2] < b[2])
OpsOf(prog, kinds) == {pos \in Positions(prog) : At(prog, pos).kind \in kinds}
InWalkOrder(S) == SetToSortSeq(S, WalkBefore)

SameBlock(prog, a, b) == a[1] = b[1] /\ At(prog, a).path = At(prog, b).path

(* a is before b in one function, and b is in a's block or nested in it.   *)
ProperlyDominates(prog, a, b) ==
  /\ a[1] = b[1] /\ a[2] < b[2]
  /\ IsPrefix(At(prog, a).path, At(prog, b).path)

(* Every path from a to the end of the function meets b after it.          *)
PostDominates(prog, b, a) ==
  /\ a[1] = b[1] /\ a[2] < b[2]
  /\ IsPrefix(At(prog, b).path, At(prog, a).path)

(* The two are in different arms of one scf.if.                            *)
InExclusiveArms(prog, a, b) ==
  LET pa == At(prog, a).path pb == At(prog, b).path IN
  \E i \in DOMAIN pa, j \in DOMAIN pb : pa[i].if = pb[j].if /\ pa[i].arm # pb[j].arm

-----------------------------------------------------------------------------
(* What the IR guarantees of a module: a value is computed from earlier    *)
(* ones, the bodies of ttl.if_src, ttl.if_dst and ttl.pipenet_scope have   *)
(* no other arm, and the pipes in use are created, those of a scope        *)
(* included (_emit_pipe_from_capture), and verified.                       *)
IsSeq(s) == Len(s) \in Nat /\ DOMAIN s = 1 .. Len(s)
Regions == {"if_src", "if_dst", "scope"}

ConditionOk(cond) ==
  /\ IsSeq(cond) /\ Len(cond) >= 1
  /\ \A i \in DOMAIN cond :
       \/ cond[i].c \in {"role", "at", "flag"}
       \/ cond[i].c \in {"and", "or"} /\ cond[i].l \in 1 .. i - 1 /\ cond[i].r \in 1 .. i - 1
       \/ cond[i].c \in Regions /\ Len(cond) = 1

PathOk(path) ==
  /\ IsSeq(path)
  /\ \A i \in DOMAIN path :
       /\ ConditionOk(path[i].cond)
       /\ path[i].arm \in {"then", "else"}
       /\ Root(path[i].cond).c \in Regions => path[i].arm = "then"

OpOk(prog, op) ==
  /\ PathOk(op.path)
  /\ op.kind \in {"post", "send", "wait"} => op.pipe \in prog.pipes
  /\ op.kind \notin {"send", "wait"} => op.buf # "none"
  /\ prog.pipes = {} => \A i \in DOMAIN op.path : Root(op.path[i].cond).c # "scope"

PipeOk(p) ==
  /\ p.start \in Nat \X Nat /\ p.end \in Nat \X Nat /\ p.declared \in {"yes", "no", "unset"}
  /\ CreatePipeOk(p)

ModuleOk(prog) ==
  /\ prog = [grid |-> prog.grid, pipes |-> prog.pipes, flag |-> prog.flag, funcs |-> prog.funcs]
  /\ \A f \in DOMAIN prog.funcs : IsSeq(prog.funcs[f])
  /\ \A p \in prog.pipes : PipeOk(p)
  /\ \A pos \in Positions(prog) : OpOk(prog, At(prog, pos))
=============================================================================
