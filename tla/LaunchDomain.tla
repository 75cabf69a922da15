----------------------------- MODULE LaunchDomain -----------------------------
(***************************************************************************)
(* LaunchNodeDomainAnalysis: on which nodes of the launch grid may an      *)
(* operation run?  A domain is a set of nodes, or unknown.  Entering an    *)
(* arm narrows the domain by what the condition says of the node; leaving  *)
(* an if joins its arms.                                                   *)
(*                                                                         *)
(* A condition is the guard of a pipe role callback (if_src, if_dst), a    *)
(* role predicate of a PipeNet (role), a comparison of the coordinates     *)
(* that is true at the nodes in "at" and that evalBool can or cannot       *)
(* evaluate, a value that does not depend on the coordinates (flag), the   *)
(* body of ttl.pipenet_scope, or a conjunction or disjunction.  Arithmetic *)
(* on coordinates is abstracted to the set "at"; comparisons are signed.   *)
(***************************************************************************)
EXTENDS PipeProgram

Unknown == [known |-> FALSE, nodes |-> {}]
Known(S) == [known |-> TRUE, nodes |-> S]

(* Any operation with an unknown domain is unknown.                        *)
Lift(a, b, S) == IF a.known /\ b.known THEN Known(S) ELSE Unknown
UnionWith(a, b) == Lift(a, b, a.nodes \cup b.nodes)
IntersectWith(a, b) == Lift(a, b, a.nodes \cap b.nodes)
Subtract(a, b) == Lift(a, b, a.nodes \ b.nodes)
IsSubsetOf(a, b) == a.known /\ b.known /\ a.nodes \subseteq b.nodes

Full(prog) == Known(prog.grid)

NetPipes(prog, net) == {p \in prog.pipes : p.net = net}
SourceNodes(prog, net) == {p.src : p \in NetPipes(prog, net)}
DestinationNodes(prog, net) == UNION {Destinations(p) : p \in NetPipes(prog, net)}

RoleNodes(prog, net, role) ==
  (IF role # "dst" THEN SourceNodes(prog, net) ELSE {})
    \cup (IF role # "src" THEN DestinationNodes(prog, net) ELSE {})

ScopeNodes(prog, roles) == UNION {RoleNodes(prog, r[1], r[2]) : r \in roles}

(* ---- conditions ------------------------------------------------------ *)

(* The domains of the two arms: by an exactly known true-domain, and of a  *)
(* value that says nothing of the node.                                    *)
ExactBranches(prog, S, cur) ==
  [then |-> IntersectWith(cur, Known(S)),
   else |-> IntersectWith(cur, Subtract(Full(prog), Known(S)))]
BothArms(d) == [then |-> d, else |-> d]

(* Mutant of AndBranches: the false arm of a conjunction is where the left *)
(* side is false.                                                          *)
AndBranchesHalf(l, r) == [then |-> IntersectWith(l.then, r.then), else |-> l.else]
AndBranches(l, r) ==
  [then |-> IntersectWith(l.then, r.then),
   else |-> UnionWith(l.else, IntersectWith(l.then, r.else))]
OrBranches(l, r) ==
  [then |-> UnionWith(l.then, IntersectWith(l.else, r.then)),
   else |-> IntersectWith(l.else, r.else)]

(* The arms of value v, those of its operands being l and r.               *)
ValueBranches(prog, v, cur, l, r) ==
  CASE v.c = "role" -> ExactBranches(prog, RoleNodes(prog, v.net, v.role), cur)
    [] v.c = "at" -> IF v.evaluable THEN ExactBranches(prog, v.nodes, cur) ELSE BothArms(Unknown)
    [] v.c = "and" -> AndBranches(l, r)
    [] v.c = "or" -> OrBranches(l, r)
    [] OTHER -> BothArms(cur)

Branches(prog, cond, cur) ==
  LET branches[i \in DOMAIN cond] ==
        ValueBranches(prog, cond[i], cur, branches[cond[i].l], branches[cond[i].r])
  IN  branches

(* The domains of the arms of an scf.if entered with domain cur.  A        *)
(* condition without a role and without coordinates narrows neither arm.   *)
BranchDomains(prog, cond, cur) == Branches(prog, cond, cur)[Len(cond)]

(* The domain inside a region entered with domain cur.  ttl.pipenet_scope  *)
(* narrows only for the pass that asks for it (narrowPipeNetScopes): scopes  *)
(* is "narrow" or "open".                                                  *)
Enter(prog, scopes, cur, step) ==
  LET v == Root(step.cond) IN
  CASE v.c = "if_src" -> IntersectWith(cur, Known({v.pipe.src}))
    [] v.c = "if_dst" -> IntersectWith(cur, Known(Destinations(v.pipe)))
    [] v.c = "scope" ->
         IF scopes = "narrow" THEN IntersectWith(cur, Known(ScopeNodes(prog, v.roles))) ELSE cur
    [] OTHER -> IF step.arm = "then" THEN BranchDomains(prog, step.cond, cur).then
                ELSE BranchDomains(prog, step.cond, cur).else

(* The domain before the first region of a path, inside it, and so on.     *)
DomainsAlong(prog, scopes, path) ==
  LET domain[i \in 0 .. Len(path)] ==
        IF i = 0 THEN Full(prog) ELSE Enter(prog, scopes, domain[i - 1], path[i])
  IN  domain
DomainUnder(prog, scopes, path) == DomainsAlong(prog, scopes, path)[Len(path)]

(* The join behind an if whose arms are unknown is unknown, and it stays   *)
(* so to the end of the enclosing region.                                  *)
AfterUnknown(prog, scopes, pos) ==
  \E earlier \in Positions(prog) :
    /\ earlier[1] = pos[1] /\ earlier[2] < pos[2]
    /\ ~InExclusiveArms(prog, earlier, pos)
    /\ ~DomainUnder(prog, scopes, At(prog, earlier).path).known

DomainAt(prog, scopes, pos) ==
  IF AfterUnknown(prog, scopes, pos) THEN Unknown
  ELSE DomainUnder(prog, scopes, At(prog, pos).path)

-----------------------------------------------------------------------------
(* What the lowered conditions do on the device: the nodes of the grid     *)
(* where a value is true, those of its operands being l and r.             *)
ValueNodes(prog, v, l, r) ==
  CASE v.c = "if_src" -> {v.pipe.src}
    [] v.c = "if_dst" -> Destinations(v.pipe)
    [] v.c = "scope" -> prog.grid
    [] v.c = "role" -> RoleNodes(prog, v.net, v.role)
    [] v.c = "at" -> v.nodes
    [] v.c = "flag" -> IF prog.flag THEN prog.grid ELSE {}
    [] v.c = "and" -> l \cap r
    [] v.c = "or" -> l \cup r

TrueNodes(prog, cond) ==
  LET nodes[i \in DOMAIN cond] ==
        ValueNodes(prog, cond[i], nodes[cond[i].l], nodes[cond[i].r])
  IN  nodes

Holds(prog, cond, node) == node \in TrueNodes(prog, cond)[Len(cond)]

Runs(prog, op, node) ==
  \A i \in DOMAIN op.path : Holds(prog, op.path[i].cond, node) <=> op.path[i].arm = "then"
=============================================================================
