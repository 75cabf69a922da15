---------------------------- MODULE MCPipeDevice ----------------------------
(***************************************************************************)
(* Model checking of PipeDevice.  The modules are made from kits: the      *)
(* pipes, the fragments of code that use them, which of these follow each  *)
(* other, and the function that consumes the received blocks.  Every       *)
(* placement of the fragments in one or two data-movement functions and    *)
(* every order of them is a module; the passes refuse a part of these.     *)
(* One more kit varies the guards around the ends of a single pipe.        *)
(***************************************************************************)
EXTENDS PipeDevice

n0 == <<0, 0>>
n1 == <<1, 0>>
n2 == <<2, 0>>

Cond(p, c) == <<[c |-> c, pipe |-> p]>>
Role(net, role) == <<[c |-> "role", net |-> net, role |-> role]>>
Where(nodes) == <<[c |-> "at", nodes |-> nodes, evaluable |-> TRUE]>>
Opaque(nodes) == <<[c |-> "at", nodes |-> nodes, evaluable |-> FALSE]>>
Scope(roles) == <<[c |-> "scope", roles |-> roles]>>
Flag == <<[c |-> "flag"]>>
Of(c, l, r) == <<[c |-> c, l |-> l, r |-> r]>>
Both(l, r) == l \o r \o Of("and", 1, 2)
Either(l, r) == l \o r \o Of("or", 1, 2)
(* Two values of three: x and y, or z with one of them.                    *)
TwoOf(x, y, z) ==
  x \o y \o z \o Of("and", 1, 2) \o Of("or", 1, 2) \o Of("and", 3, 5) \o Of("or", 4, 6)

(* Fragments.  The id of an operation is the name of its fragment.         *)
ReserveAndPost(x, p, path, buf, tile) ==
  <<BufOp(x, "cb_reserve", path, buf), PostOp(x, path, p, buf, tile)>>
WaitAndPush(x, p, path, buf) ==
  <<WaitOp(x, path, p, x), BufOp(x, "cb_push", path, buf)>>
Receive(x, p, path, buf) ==
  ReserveAndPost(x, p, path, buf, 0) \o WaitAndPush(x, p, path, buf)
ReceiveUnwaited(x, p, path, buf) ==
  ReserveAndPost(x, p, path, buf, 0) \o <<BufOp(x, "cb_push", path, buf)>>
Consume(path, buf) == <<BufOp("c", "cb_wait", path, buf), BufOp("c", "cb_pop", path, buf)>>

Dst(p) == <<Under(p, Cond(p, "if_dst"), "then")>>
Src(p) == <<Under(p, Cond(p, "if_src"), "then")>>
Send(x, p) == <<SendOp(x, Src(p), p)>>

(* Every placement of the fragments 1 .. n in up to two functions, every   *)
(* order, that keeps j behind i for <<i, j>> in follows.                   *)
Layouts(n, follows, functions) ==
  LET all[k \in 1 .. n] ==
        IF k = 1 THEN {<<1>>} ELSE {InsertAt(o, i, k) : o \in all[k - 1], i \in 1 .. k}
      orders == {o \in all[n] :
                   \A f \in follows : \E i, j \in 1 .. n : i < j /\ o[i] = f[1] /\ o[j] = f[2]}
      places == {w \in [1 .. n -> 1 .. functions] : w[1] = 1 /\ \A f \in follows : w[f[1]] = w[f[2]]}
  IN  {[k \in 1 .. functions |-> SelectSeq(o, LAMBDA i : w[i] = k)] : o \in orders, w \in places}

Build(grid, pipes, fragments, follows, functions, tail) ==
  {[grid |-> grid, pipes |-> pipes, flag |-> TRUE,
    funcs |-> [k \in 1 .. functions |->
                 FlattenSeq([i \in DOMAIN l[k] |-> fragments[l[k][i]]])] \o <<tail>>] :
   l \in Layouts(Len(fragments), follows, functions)}

(* Two nodes send to each other; one handle is waited for at any point     *)
(* behind the copy.                                                        *)
A == EmitPipe(0, n0, n1, n1, FALSE)
B == EmitPipe(0, n1, n0, n0, FALSE)
Exchange(functions) ==
  Build({n0, n1}, {A, B},
        <<ReserveAndPost("a", A, Dst(A), "x", 0), WaitAndPush("a", A, Dst(A), "x"), Send("sa", A),
          Receive("b", B, Dst(B), "y"), Send("sb", B)>>,
        {<<1, 2>>} \cup (IF functions = 1 THEN {} ELSE {<<3, 5>>}), functions,
        Consume(Dst(A), "x") \o Consume(Dst(B), "y"))

(* One pipe is sent by one function or by two: no pass forbids the latter, *)
(* and both sends may then find the counter full.                          *)
TwoSends ==
  Build({n0, n1}, {A},
        <<Receive("a", A, Dst(A), "x"), Send("sa", A), Send("sb", A)>>, {}, 2, Consume(Dst(A), "x"))

(* Two sources fill one buffer of a node, in turn; one wait is left to the *)
(* compiler.                                                               *)
G == EmitPipe(0, n1, n1, n1, FALSE)
Gather ==
  Build({n0, n1}, {A, G},
        <<Receive("a", A, Dst(A), "x"), ReceiveUnwaited("g", G, Dst(G), "x"), Send("sa", A), Send("sg", G)>>,
        {}, 2, Consume(Dst(A), "x") \o Consume(Dst(G), "x"))

(* Two sources fill two tiles of one block.                                *)
Assemble ==
  Build({n0, n1}, {A, G},
        <<ReserveAndPost("a", A, Dst(A), "x", 0), Send("sa", A), WaitAndPush("a", A, Dst(A), "x"),
          <<PostOp("g", Dst(G), G, "x", 1)>>, Send("sg", G), <<WaitOp("g", Dst(G), G, "g")>>>>,
        {<<1, 4>>, <<4, 6>>, <<6, 3>>}, 2, Consume(Dst(A), "x"))

(* A node multicasts to every node, itself included; two nodes do.         *)
M == Pipe(0, n0, n0, n1, "unset")
N == EmitPipe(0, n1, n0, n1, TRUE)
Multicast ==
  Build({n0, n1}, {M},
        <<ReserveAndPost("m", M, Dst(M), "x", 0), WaitAndPush("m", M, Dst(M), "x"), Send("sm", M)>>,
        {<<1, 2>>}, 2, Consume(Dst(M), "x"))
AllToAll ==
  Build({n0, n1}, {M, N},
        <<Receive("m", M, Dst(M), "x"), Receive("n", N, Dst(N), "x"), Send("sm", M), Send("sn", N)>>,
        {}, 2, Consume(Dst(M), "x") \o Consume(Dst(N), "x"))

(* One node scatters to two others.                                        *)
S == EmitPipe(1, n0, n2, n2, FALSE)
Scatter ==
  Build({n0, n1, n2}, {A, S},
        <<Receive("a", A, Dst(A), "x"), Receive("s", S, Dst(S), "x"), Send("sa", A), Send("ss", S)>>,
        {<<3, 4>>}, 1, Consume(Dst(A), "x") \o Consume(Dst(S), "x"))

(* A node sends to itself on two PipeNets under one guard: the only pipes  *)
(* whose intervals can be told apart, so that they share a colour.         *)
L == Pipe(0, n0, n0, n0, "unset")
K == Pipe(1, n0, n0, n0, "no")
AtL == Dst(L)
SelfLoops ==
  Build({n0, n1}, {L, K},
        <<ReserveAndPost("l", L, AtL, "x", 0), <<SendOp("sl", AtL, L)>>, WaitAndPush("l", L, AtL, "x"),
          ReserveAndPost("k", K, AtL, "y", 0), <<SendOp("sk", AtL, K)>>, WaitAndPush("k", K, AtL, "y")>>,
        {<<1, 2>>, <<2, 3>>, <<4, 5>>, <<5, 6>>}, 1, Consume(AtL, "x") \o Consume(AtL, "y"))

(* Too many PipeNets for the hardware's semaphores.                        *)
T == Pipe(3, n0, n1, n1, "unset")
TooMany == Build({n0, n1}, {T}, <<Receive("t", T, Dst(T), "x"), Send("st", T)>>,
                 {}, 1, Consume(Dst(T), "x"))

(* One pipe, its ends and the consumer under every guard.                  *)
Guards(p) ==
  {<<>>,
   <<Under(1, Role(0, "src"), "then")>>, <<Under(1, Role(0, "dst"), "then")>>,
   <<Under(1, Role(0, "dst"), "else")>>, <<Under(1, Role(0, "active"), "then")>>,
   <<Under(1, Where({n0}), "then")>>, <<Under(1, Where({n0}), "else")>>,
   <<Under(1, Opaque({n1}), "then")>>,
   <<Under(1, Both(Role(0, "active"), Where({n1})), "then")>>,
   <<Under(1, Both(Role(0, "src"), Flag), "else")>>,
   <<Under(1, Either(Role(0, "src"), Role(0, "dst")), "else")>>,
   <<Under(1, Either(Where({n1}), Flag), "else")>>,
   <<Under(1, Scope({<<0, "active">>}), "then"), Under(2, Cond(p, "if_dst"), "then")>>,
   <<Under(1, Role(0, "dst"), "then"), Under(2, Scope({<<0, "dst">>}), "then")>>,
   <<Under(1, TwoOf(Role(0, "src"), Role(0, "dst"), Where({n1})), "then")>>,
   <<Under(1, Scope({<<2, "src">>}), "then")>>}

Fill(path) == <<BufOp("f", "cb_reserve", path, "x"), BufOp("f", "cb_push", path, "x")>>
Sides == {<<>>} \cup {<<Under(1, c, arm)>> :
                       c \in {Where({n0}), Opaque({n1}), Both(Flag, Where({n1})),
                              Either(Where({n0}), Where({n1}))}, arm \in {"then", "else"}}

Guarded ==
  {[grid |-> g, pipes |-> {A}, flag |-> flag,
    funcs |-> <<Receive("a", A, gr, "x"), <<SendOp("sa", gs, A)>>, Consume(gr, "x")>>] :
     g \in {{n0, n1}, {n0, n1, n2}}, flag \in BOOLEAN, gr \in Guards(A), gs \in Guards(A)}
  \cup
  {[grid |-> {n0, n1, n2}, pipes |-> {A}, flag |-> TRUE,
    funcs |-> <<Receive("a", A, Dst(A), "x"), Send("sa", A), Consume(gc, "x")>>] : gc \in Guards(A)}

(* No pipes: a buffer filled in one of two functions, by the guards.       *)
Local ==
  {[grid |-> {n0, n1}, pipes |-> {}, flag |-> TRUE,
    funcs |-> <<Fill(g), Fill(h), Consume(<<>>, "x")>>] : g, h \in Sides}

MCPipes == {A, B, G, M, N, S, L, K, T}
MCPrograms ==
  Exchange(1) \cup Exchange(2) \cup TwoSends \cup Gather \cup Assemble \cup Multicast \cup AllToAll \cup Scatter
    \cup SelfLoops \cup TooMany \cup Guarded \cup Local

ASSUME MCModulesOk == ModulesOk
ASSUME MCPlansOk == PlansOk
ASSUME MCBlocksOk == BlocksOk

(* A node receives from a pipe of its own and from a collective into one   *)
(* buffer: there its write pointer is ahead of the other receiver's.       *)
Lopsided ==
  Build({n0, n1}, {A, M},
        <<Receive("a", A, Dst(A), "x"), Receive("m", M, Dst(M), "x"), Send("sa", A), Send("sm", M)>>,
        {<<1, 2>>}, 2, Consume(Dst(A), "x") \o Consume(Dst(M), "x"))
=============================================================================
