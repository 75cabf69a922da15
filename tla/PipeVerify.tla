------------------------------ MODULE PipeVerify ------------------------------
(***************************************************************************)
(* The two verifiers in front of the conversion.                           *)
(*                                                                         *)
(* TTLVerifyPipeNetGuards: is every pipe copy and every wait on a receive  *)
(* or on a dataflow buffer guarded by the nodes where it makes sense, and  *)
(* can the rendezvous of the module's posts, sends and waits be ordered?   *)
(*                                                                         *)
(* TTLVerifyDFBSPSC: has every dataflow buffer at most one producer and    *)
(* one consumer thread at each node?                                       *)
(***************************************************************************)
EXTENDS LaunchDomain

(* The nets a condition refers to; each must be declared by some           *)
(* ttl.create_pipe.                                                        *)
NetsOf(cond) ==
  {cond[i].net : i \in {j \in DOMAIN cond : cond[j].c = "role"}}
    \cup {r[1] : r \in UNION {cond[i].roles : i \in {j \in DOMAIN cond : cond[j].c = "scope"}}}

ReferencesOk(prog) ==
  \A pos \in Positions(prog) : \A i \in DOMAIN At(prog, pos).path :
    NetsOf(At(prog, pos).path[i].cond) \subseteq {p.net : p \in prog.pipes}

(* Where one operation on a pipe may be.                                   *)
RoleOf(op) == IF op.kind = "send" THEN {op.pipe.src} ELSE Destinations(op.pipe)

(* Mutant of GuardsOk: an operation of unknown domain is let through.      *)
GuardsIfKnown(prog) ==
  \A pos \in OpsOf(prog, {"post", "send", "wait"}) :
    DomainAt(prog, "open", pos).nodes \subseteq RoleOf(At(prog, pos))
GuardsOk(prog) ==
  \A pos \in OpsOf(prog, {"post", "send", "wait"}) :
    IsSubsetOf(DomainAt(prog, "open", pos), Known(RoleOf(At(prog, pos))))

(* The body of a ttl.pipenet_scope runs only on nodes of its roles.        *)
ScopesOk(prog) ==
  \A pos \in Positions(prog) : \A i \in DOMAIN At(prog, pos).path :
    LET v == Root(At(prog, pos).path[i].cond) IN
    v.c = "scope" =>
      IsSubsetOf(DomainsAlong(prog, "open", At(prog, pos).path)[i - 1],
                 Known(ScopeNodes(prog, v.roles)))

(* Somebody pushes the buffer on every node where it is waited for.        *)
CBWaitsOk(prog) ==
  \A w \in OpsOf(prog, {"cb_wait"}) :
    LET pushes == {p \in OpsOf(prog, {"cb_push"}) : At(prog, p).buf = At(prog, w).buf}
        domains == {DomainAt(prog, "open", p) : p \in pushes}
    IN  /\ pushes # {}
        /\ \A d \in domains : d.known
        /\ IsSubsetOf(DomainAt(prog, "open", w), Known(UNION {d.nodes : d \in domains}))

-----------------------------------------------------------------------------
(* The wait-for graph.  An event is an operation at one node of its        *)
(* domain.  The post of a destination comes before the send, the send      *)
(* before the wait, and each operation before the next one of its function *)
(* at the same node.                                                       *)

ScheduleEvents(prog) ==
  UNION {{[pos |-> pos, node |-> n] :
            n \in DomainAt(prog, "open", pos).nodes \cap RoleOf(At(prog, pos))} :
          pos \in OpsOf(prog, {"post", "send", "wait"})}

ProgramOrder(a, b) ==
  a.node = b.node /\ a.pos[1] = b.pos[1] /\ a.pos[2] < b.pos[2]

(* The receive side of e is an event of the same pipe.                     *)
Enables(prog, a, b) ==
  LET x == At(prog, a.pos) y == At(prog, b.pos) IN
  /\ x.pipe = y.pipe
  /\ \/ x.kind = "post" /\ y.kind = "send"
     \/ x.kind = "send" /\ y.kind = "wait"

(* Mutant of ScheduleEdges: a wait is not completed by a send.             *)
PostEdges(prog, E) ==
  {e \in E \X E : ProgramOrder(e[1], e[2])
                    \/ (Enables(prog, e[1], e[2]) /\ At(prog, e[2].pos).kind = "send")}

ScheduleEdges(prog, E) ==
  {e \in E \X E : ProgramOrder(e[1], e[2]) \/ Enables(prog, e[1], e[2])}

(* Events that no cycle holds back are taken away, as often as there are   *)
(* events; what is left is behind a cycle.                                 *)
HasCycle(E, edges) ==
  LET Free(S) == {e \in S : \A d \in S : <<d, e>> \notin edges}
      left[n \in 0 .. Cardinality(E)] == IF n = 0 THEN E ELSE left[n - 1] \ Free(left[n - 1])
  IN  left[Cardinality(E)] # {}

ScheduleOk(prog) ==
  LET E == ScheduleEvents(prog) IN ~HasCycle(E, ScheduleEdges(prog, E))

(* The whole pass.  A module without pipes is not looked at.               *)
VerifyPipeNetGuards(prog) ==
  \/ prog.pipes = {}
  \/ /\ ReferencesOk(prog)
     /\ GuardsOk(prog) /\ ScopesOk(prog) /\ CBWaitsOk(prog)
     /\ ScheduleOk(prog)

-----------------------------------------------------------------------------
(* The threads that reserve from, or wait on, a buffer, and the nodes where *)
(* one of them does: its acquires are one participant.  This pass lets      *)
(* ttl.pipenet_scope narrow.                                                *)
Acquires(prog, kind, buf, f) ==
  {pos \in OpsOf(prog, {kind}) : pos[1] = f /\ At(prog, pos).buf = buf}
Participants(prog, kind, buf) == {f \in DOMAIN prog.funcs : Acquires(prog, kind, buf, f) # {}}
ParticipantDomain(prog, kind, buf, f) ==
  LET domains == {DomainAt(prog, "narrow", pos) : pos \in Acquires(prog, kind, buf, f)} IN
  IF \A d \in domains : d.known THEN Known(UNION {d.nodes : d \in domains}) ELSE Unknown

(* Mutant of Disjoint: threads of unknown domain are let through.          *)
NoneSeenTwice(domains) ==
  \A f, g \in DOMAIN domains : f # g => IntersectWith(domains[f], domains[g]).nodes = {}

(* verifyParticipantSet: what cannot be shown disjoint is refused.         *)
Disjoint(domains) ==
  \A f, g \in DOMAIN domains :
    f # g => LET d == IntersectWith(domains[f], domains[g]) IN d.known /\ d.nodes = {}

OneThreadPerNode(prog, kind, buf) ==
  Disjoint([f \in Participants(prog, kind, buf) |-> ParticipantDomain(prog, kind, buf, f)])

VerifyDFBSPSC(prog) ==
  \A buf \in {At(prog, pos).buf : pos \in Positions(prog)} :
    \A kind \in {"cb_reserve", "cb_wait"} : OneThreadPerNode(prog, kind, buf)
=============================================================================
