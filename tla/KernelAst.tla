------------------------------ MODULE KernelAst ------------------------------
(***************************************************************************)
(* What a thread's Python means once compiled: the visitors of             *)
(* python/pykernel/_src/kernel_ast.py and python/ttl/_src/ttl_ast.py walk  *)
(* the body once, keep a stack of symbol tables and emit operations; the   *)
(* operations run on the node.  A plain name stands for the value of the   *)
(* operation bound last, an annotated one for a memory cell.               *)
(*                                                                         *)
(* A statement is a record; an expression a tuple.  `mode' is "compile",   *)
(* where every arm is walked and every loop body once, or "run".           *)
(***************************************************************************)
EXTENDS Integers, Sequences, FiniteSets, SequencesExt, FiniteSetsExt, Functions

CONSTANTS Captures, Globals     \* the integers the body finds in its closure, and in its module

V(type, val) == [type |-> type, val |-> val]
NoValue == V("none", 0)
Error == V("error", 0)
Usable(v) == v.type \notin {"none", "error", "block"}
Truth(b) == IF b THEN 1 ELSE 0
Bind(f, x, v) == [y \in DOMAIN f \cup {x} |-> IF y = x THEN v ELSE f[y]]

Lookup(env, x) ==
  LET tables == {i \in DOMAIN env : x \in DOMAIN env[i]}
  IN  IF tables = {} THEN NoValue ELSE env[Max(tables)][x]

Load(s, v) == IF v.type = "cell" THEN s.mem[v.val] ELSE v

(* _cast: between index and i64 only.                                      *)
Cast(v, type) == IF v.type = type THEN v ELSE IF "i1" \in {v.type, type} THEN Error ELSE V(type, v.val)

(* visit_Name of ttl_ast.py: the symbol tables, then the module's numbers. *)
NameValue(s, x) ==
  LET v == Lookup(s.env, x)
  IN  IF v # NoValue THEN v ELSE IF x \in DOMAIN Globals THEN V("i64", Globals[x]) ELSE NoValue

(* Integers take 64 bits, booleans one.                                    *)
Constant(e) == IF e[1] = "int" THEN V("i64", e[2]) ELSE V("i1", Truth(e[2]))
(* net.is_src(), is_dst(), is_active(): whether this node has the role.    *)
Predicate(e) == V("i1", Truth(e[2]))

(* divsi and remsi round towards zero.                                     *)
Sign(n) == IF n < 0 THEN -1 ELSE 1
Magnitude(n) == Sign(n) * n
Quotient(a, b) == IF b = 0 THEN 0 ELSE Sign(a) * Sign(b) * (Magnitude(a) \div Magnitude(b))
Apply(op, a, b) ==
  CASE op = "+" -> a + b
    [] op = "-" -> a - b
    [] op = "*" -> a * b
    [] op = "//" -> Quotient(a, b)
    [] op = "%" -> a - b * Quotient(a, b)
Holds(op, a, b) ==
  CASE op = "<" -> a < b
    [] op = "<=" -> a <= b
    [] op = "==" -> a = b
    [] op = "!=" -> a # b
    [] op = ">" -> a > b

Arith(op, l, r) ==
  LET r2 == Cast(r, l.type)
      n == Apply(op, l.val, r2.val)
  IN  IF Usable(l) /\ Usable(r) /\ r2 # Error THEN V(l.type, IF l.type = "i1" THEN n % 2 ELSE n) ELSE Error
Compare(op, l, r) ==
  IF Usable(l) /\ Usable(r) /\ Cast(r, l.type) # Error THEN V("i1", Truth(Holds(op, l.val, r.val))) ELSE Error

(* BoolOp: every operand is evaluated, and must be an integer; a cell of   *)
(* one bit is compared unloaded, which does not verify.                    *)
Operand(s, v) == IF v.type = "cell" /\ Load(s, v).type = "i1" THEN Error ELSE Load(s, v)
Junction(op, vs) ==
  IF \E v \in ToSet(vs) : v.type \notin {"i1", "i64"} THEN Error
  ELSE LET true == {i \in DOMAIN vs : vs[i].val # 0}
       IN  V("i1", Truth(IF op = "and" THEN true = DOMAIN vs ELSE true # {}))

Unary(op, v) ==
  IF ~Usable(v) THEN Error ELSE IF op = "not" THEN V("i1", Truth(v.val = 0)) ELSE V(v.type, -v.val)

RECURSIVE Eval(_, _)
Eval(s, e) ==
  CASE e[1] \in {"int", "flag"} -> Constant(e)
    [] e[1] = "role" -> Predicate(e)
    [] e[1] = "name" -> NameValue(s, e[2])
    [] e[1] = "bin" -> Arith(e[2], Load(s, Eval(s, e[3])), Load(s, Eval(s, e[4])))
    [] e[1] = "cmp" -> Compare(e[2], Load(s, Eval(s, e[3])), Load(s, Eval(s, e[4])))
    [] e[1] = "bool" -> Junction(e[2], <<Operand(s, Eval(s, e[3])), Operand(s, Eval(s, e[4]))>>)
    [] e[1] \in {"not", "neg"} -> Unary(e[1], Load(s, Eval(s, e[2])))

Stop(s) == [s EXCEPT !.error = TRUE]
Say(s, event) == [s EXCEPT !.out = Append(@, event)]
Push(s, table) == [s EXCEPT !.env = Append(@, table)]
Pop(s) == [s EXCEPT !.env = Front(@)]

(* _set_var: the innermost table, whatever the outer ones hold.  A name    *)
(* bound outside too, and a name bound to another one's cell, are noted.   *)
SetVar(s, x, v) ==
  [s EXCEPT !.env[Len(s.env)] = Bind(@, x, v),
            !.rebinds = @ \/ v.type = "cell" \/ \E i \in 1 .. Len(s.env) - 1 : x \in DOMAIN s.env[i]]

Assign(s, x, v) ==
  LET var == Lookup(s.env, x)
  IN  IF v = Error THEN Stop(s)
      ELSE IF var.type # "cell" THEN SetVar(s, x, v)
      ELSE IF v.type = s.mem[var.val].type THEN [s EXCEPT !.mem[var.val] = v]
      ELSE Stop(s)

(* An annotation makes a cell; a second one of the same name is refused.   *)
AnnAssign(s, x, v) ==
  IF Lookup(s.env, x) # NoValue \/ ~Usable(v) \/ v.type = "cell" THEN Stop(s)
  ELSE [s EXCEPT !.mem = Append(@, v), !.env[Len(s.env)] = Bind(@, x, V("cell", Len(s.mem) + 1))]

AugAssign(s, x, op, v) ==
  LET var == Lookup(s.env, x)
  IN  IF var.type = "cell" /\ op \in {"+", "-", "*"} /\ v.type = s.mem[var.val].type
      THEN [s EXCEPT !.mem[var.val] = V(v.type, Apply(op, @.val, v.val))]
      ELSE Stop(s)

(* y, x = ttl.node(dims=2): names are bound, also one that was a cell.     *)
Unpack(s, t) ==
  FoldLeft(LAMBDA st, i : SetVar(st, t.names[i], V("index", t.node[i])), s, [i \in DOMAIN t.names |-> i])

RECURSIVE ExecAll(_, _, _)
InScope(s, table, body, mode) == Pop(ExecAll(Push(s, table), body, mode))
Nothing == <<>>
If(s, c, t, mode) ==
  IF c.type \notin {"i1", "i64"} THEN Stop(s)
  ELSE IF mode = "compile" THEN InScope(InScope(s, Nothing, t.body, mode), Nothing, t.orelse, mode)
  ELSE InScope(s, Nothing, IF c.val # 0 THEN t.body ELSE t.orelse, mode)
For(s, n, t, mode) ==
  IF n.type \notin {"i64", "index"} THEN Stop(s)
  ELSE FoldLeft(LAMBDA st, k : InScope(st, Bind(Nothing, t.name, V("index", k - 1)), t.body, mode),
                s, [k \in 1 .. (IF mode = "compile" THEN 1 ELSE n.val) |-> k])
(* if_src, if_dst: the body once per pipe, run where the node has the role.*)
Callback(s, t, mode) ==
  FoldLeft(LAMBDA st, i : IF mode = "compile" \/ t.roles[i] THEN InScope(st, Nothing, t.bodies[i], mode) ELSE st,
           s, [i \in DOMAIN t.roles |-> i])

Exec(s, t, mode) ==
  LET v == IF "expr" \in DOMAIN t THEN Eval(s, t.expr) ELSE NoValue
      loaded == Load(s, v)
  IN  CASE t.do = "assign" -> Assign(s, t.name, v)
        [] t.do = "ann" -> AnnAssign(s, t.name, v)
        [] t.do = "aug" -> AugAssign(s, t.name, t.op, v)
        [] t.do = "unpack" -> Unpack(s, t)
        [] t.do = "call" -> IF Usable(loaded) THEN Say(s, <<"call", loaded.val>>) ELSE Stop(s)
        [] t.do = "if" -> If(s, loaded, t, mode)
        [] t.do = "for" -> For(s, loaded, t, mode)
        [] t.do = "callback" -> Callback(s, t, mode)
        [] t.do = "event" -> Say(s, t.event)
ExecAll(s, body, mode) ==
  IF body = <<>> \/ s.error THEN s ELSE ExecAll(Exec(s, Head(body), mode), Tail(body), mode)

-----------------------------------------------------------------------------
(* Emission.  With auto-profiling every line that calls or computes opens  *)
(* a zone; `at' is the line whose zone is open, 0 for none.                *)

RECURSIVE Computes(_)
Computes(e) ==
  e[1] = "bin" \/ (e[1] \in {"cmp", "bool"} /\ (Computes(e[3]) \/ Computes(e[4]))) \/ (e[1] \in {"not", "neg"} /\ Computes(e[2]))
Event(kind, what) == [do |-> "event", event |-> <<kind, what>>]
Closing(at) == IF at = 0 THEN <<>> ELSE <<Event("end", at)>>

(* _emit_line_signpost_if_needed                                           *)
Opens(t, profile) == profile /\ (t.do \in {"call", "unpack"} \/ ("expr" \in DOMAIN t /\ Computes(t.expr)))
LineOf(t, at, profile) == IF Opens(t, profile) THEN t.line ELSE at
Opening(t, at, profile) ==
  IF LineOf(t, at, profile) = at THEN <<>> ELSE Closing(at) \o <<Event("begin", t.line)>>

RECURSIVE EmitAll(_, _, _)
Block(body, profile) == LET e == EmitAll(body, 0, profile) IN e.code \o Closing(e.at)

Code(code, at) == [code |-> code, at |-> at]
Acquires(t) == [i \in DOMAIN t.items |-> Event("acquire", t.items[i])]
(* Mutant of Releases: released in the order they were acquired.           *)
ReleasesInOrder(t) == [i \in DOMAIN t.items |-> Event("release", t.items[i])]
Releases(t) == [i \in DOMAIN t.items |-> Event("release", Reverse(t.items)[i])]

(* visit_If closes the open line behind the branch it has just created,    *)
(* visit_For in front of the loop; a callback's body closes nothing.       *)
EmitIf(t, at, profile) ==
  Code(Opening(t, at, profile)
         \o <<[t EXCEPT !.body = Block(t.body, profile), !.orelse = Block(t.orelse, profile)]>>
         \o Closing(LineOf(t, at, profile)), 0)
EmitFor(t, at, profile) ==
  Code(Opening(t, at, profile) \o Closing(LineOf(t, at, profile)) \o <<[t EXCEPT !.body = Block(t.body, profile)]>>, 0)
EmitWith(t, at, profile) ==
  LET e == EmitAll(t.body, 0, profile)
  IN  Code(Closing(at) \o Acquires(t) \o e.code \o Closing(e.at) \o Releases(t), 0)
(* with ttl.signpost(name): a zone of its own, except under auto-profiling.*)
EmitRegion(t, at, profile) ==
  IF profile THEN EmitAll(t.body, at, profile)
  ELSE Code(Closing(at) \o <<Event("begin", t.name)>> \o Block(t.body, profile) \o <<Event("end", t.name)>>, 0)
EmitCallback(t, at, profile) ==
  LET after[i \in 0 .. Len(t.roles)] ==
        IF i = 0 THEN Code(<<>>, at)
        ELSE LET e == EmitAll(t.body, after[i - 1].at, profile) IN Code(Append(after[i - 1].code, e.code), e.at)
      last == after[Len(t.roles)]
  IN  Code(<<[do |-> "callback", roles |-> t.roles, bodies |-> last.code]>>, last.at)

Emit(t, at, profile) ==
  CASE t.do = "if" -> EmitIf(t, at, profile)
    [] t.do = "for" -> EmitFor(t, at, profile)
    [] t.do = "with" -> EmitWith(t, at, profile)
    [] t.do = "region" -> EmitRegion(t, at, profile)
    [] t.do = "callback" -> EmitCallback(t, at, profile)
    [] OTHER -> Code(Opening(t, at, profile) \o <<t>>, LineOf(t, at, profile))
EmitAll(body, at, profile) ==
  IF body = <<>> THEN Code(<<>>, at)
  ELSE LET first == Emit(Head(body), at, profile)
           rest == EmitAll(Tail(body), first.at, profile)
       IN  Code(first.code \o rest.code, rest.at)

Start == [env |-> << [x \in DOMAIN Captures |-> V("index", Captures[x])] >>, mem |-> <<>>, out |-> <<>>, error |-> FALSE, rebinds |-> FALSE]
Walk(body, profile) == ExecAll(Start, Block(body, profile), "compile")
Run(body, profile) == ExecAll(Start, Block(body, profile), "run")

-----------------------------------------------------------------------------
(* The same body under Python: one table, which has the names the body     *)
(* binds anywhere, and the closure's and the module's names behind it; a   *)
(* callback with its own locals.                                           *)

PyName(env, x) ==
  IF x \in DOMAIN env THEN env[x]
  ELSE IF x \in DOMAIN Captures THEN V("int", Captures[x])
  ELSE IF x \in DOMAIN Globals THEN V("int", Globals[x]) ELSE NoValue
Unbound(env, names) == [x \in DOMAIN env \cup names |-> IF x \in names THEN NoValue ELSE env[x]]

RECURSIVE PyEval(_, _), PyAll(_, _), Assigned(_)
PyEval(env, e) ==
  CASE e[1] = "int" -> V("int", e[2])
    [] e[1] \in {"flag", "role"} -> V("int", Truth(e[2]))
    [] e[1] = "name" -> PyName(env, e[2])
    [] e[1] \in {"bin", "cmp", "bool"} ->
         LET l == PyEval(env, e[3])
             r == PyEval(env, e[4])
         IN  IF e[1] = "bool"
             THEN IF ~Usable(l) THEN Error ELSE IF (e[2] = "and") = (l.val # 0) THEN r ELSE l
             ELSE IF ~Usable(l) \/ ~Usable(r) THEN Error
             ELSE V("int", IF e[1] = "cmp" THEN Truth(Holds(e[2], l.val, r.val))
                           ELSE CASE e[2] = "//" -> l.val \div r.val
                                  [] e[2] = "%" -> l.val % r.val
                                  [] OTHER -> Apply(e[2], l.val, r.val))
    [] e[1] \in {"not", "neg"} ->
         LET v == PyEval(env, e[2])
         IN  IF ~Usable(v) THEN Error ELSE V("int", IF e[1] = "not" THEN Truth(v.val = 0) ELSE -v.val)

Assigned(body) ==
  UNION {(IF t.do \in {"assign", "ann", "aug", "for"} THEN {t.name} ELSE {})
           \cup (IF t.do = "unpack" THEN ToSet(t.names) ELSE {})
           \cup (IF t.do \in {"if", "for", "with", "region"} THEN Assigned(t.body) ELSE {})
           \cup (IF t.do = "if" THEN Assigned(t.orelse) ELSE {}) : t \in ToSet(body)}

PyBind(p, x, v) == [p EXCEPT !.env = Bind(@, x, v)]
PyCallback(p, t) ==
  LET locals == Assigned(t.body)
      Once(q) == LET r == PyAll([q EXCEPT !.env = Unbound(@, locals)], t.body)
                 IN  [r EXCEPT !.env = q.env]
  IN  FoldLeft(LAMBDA q, role : IF role THEN Once(q) ELSE q, p, t.roles)
PyStep(p, t) ==
  LET v == IF "expr" \in DOMAIN t THEN PyEval(p.env, t.expr) ELSE NoValue
      old == IF t.do = "aug" THEN Lookup(<<p.env>>, t.name) ELSE v
  IN  IF "expr" \in DOMAIN t /\ ~(Usable(v) /\ Usable(old)) THEN Stop(p)
      ELSE CASE t.do \in {"assign", "ann"} -> PyBind(p, t.name, v)
             [] t.do = "aug" -> PyBind(p, t.name, V("int", Apply(t.op, old.val, v.val)))
             [] t.do = "unpack" ->
                  FoldLeft(LAMBDA q, i : PyBind(q, t.names[i], V("int", t.node[i])), p, [i \in DOMAIN t.names |-> i])
             [] t.do = "region" -> PyAll(p, t.body)
             [] t.do = "call" -> Say(p, <<"call", v.val>>)
             [] t.do = "if" -> PyAll(p, IF v.val # 0 THEN t.body ELSE t.orelse)
             [] t.do = "for" ->
                  FoldLeft(LAMBDA q, k : PyAll(PyBind(q, t.name, V("int", k - 1)), t.body), p, [k \in 1 .. v.val |-> k])
             [] t.do = "with" ->
                  LET inside == PyAll([p EXCEPT !.out = @ \o [i \in DOMAIN t.items |-> <<"acquire", t.items[i]>>]], t.body)
                      left == [i \in DOMAIN t.items |-> <<"release", t.items[Len(t.items) + 1 - i]>>]
                  IN  [inside EXCEPT !.out = @ \o left]
             [] t.do = "callback" -> PyCallback(p, t)
PyAll(p, body) == IF body = <<>> \/ p.error THEN p ELSE PyAll(PyStep(p, Head(body)), Tail(body))
Python(body) == PyAll([env |-> Unbound(Nothing, Assigned(body)), out |-> <<>>, error |-> FALSE], body)

-----------------------------------------------------------------------------
IsZone(event) == event[1] \in {"begin", "end"}
IsEffect(event) == ~IsZone(event)

(* A body that compiles, binds no outer name again from an inner scope and *)
(* does not bind a plain name to another one's cell does on the node what  *)
(* it does in Python: the same calls with the same values and the same     *)
(* acquires and releases in the same order, profiled or not (visit_If,     *)
(* visit_For, visit_Assign, _emit_cb_with_body).                           *)
CompiledMeansPython(body, profile) ==
  LET walk == Walk(body, profile)
      run == Run(body, profile)
  IN  ~walk.error /\ ~walk.rebinds /\ ~Python(body).error => SelectSeq(run.out, IsEffect) = Python(body).out

(* The zones of a run are closed, the last one first.                      *)
ZonesAreClosed(body, profile) ==
  LET zones == SelectSeq(Run(body, profile).out, IsZone)
      open[i \in 0 .. Len(zones)] ==
        IF i = 0 THEN <<>>
        ELSE IF zones[i][1] = "begin" THEN Append(open[i - 1], zones[i][2])
        ELSE IF open[i - 1] # <<>> /\ Last(open[i - 1]) = zones[i][2] THEN Front(open[i - 1])
        ELSE <<0>>
  IN  open[Len(zones)] = <<>>

(* On every path the zones that a body opens, its lines' when profiled and *)
(* the programmer's when not, are closed                                   *)
(* (_emit_line_signpost_if_needed, _on_scope_exit), but for a PipeNet      *)
(* callback with lines of its own: those compiled for the first pipe end   *)
(* the zone before them, and the last one's is ended behind them, which a  *)
(* node without that pipe's role runs with the other zone open.            *)
LeavesItsZone(t, profile) ==
  t.do = "callback" /\ (\E s \in ToSet(t.body) : Opens(s, profile)) /\ ~t.roles[1]
ZonesMatch(body, profile) ==
  ~Walk(body, profile).error =>
    (ZonesAreClosed(body, profile) <=> \A t \in ToSet(body) : ~LeavesItsZone(t, profile))
=============================================================================
