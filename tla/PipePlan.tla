------------------------------- MODULE PipePlan -------------------------------
(***************************************************************************)
(* What the compiler decides about the pipes of a verified module: where   *)
(* missing waits go (TTLInsertCopyWait), which slot of its buffer each     *)
(* receive needs (PipeGraph), how many receives of a pipe may be posted    *)
(* (validateMaxLivePosts), and which semaphore and which slot of the       *)
(* address table of the source node each pipe gets (buildPipeResourcePlan).*)
(* Pipes of one source share a colour, hence a ready counter and a slot,   *)
(* when their intervals from first post to last send do not overlap.       *)
(***************************************************************************)
EXTENDS PipeVerify, FiniteSetsExt, Functions

CONSTANTS
  MaxSemaphoreIds,   \* kMaxHardwareSemaphoreIds
  BlockCount         \* blocks of a receiver's buffer

ASSUME BlockCountAssumption == BlockCount \in Nat \ {0}

(* A copy whose handle nobody waits for is waited for at once.  The wait   *)
(* of a send is an empty operation and is left out of the model.           *)
InsertCopyWait(prog) ==
  LET waited == {At(prog, w).of : w \in OpsOf(prog, {"wait"})}
      expand(op) ==
        IF op.kind = "post" /\ op.id \notin waited
        THEN <<op, WaitOp(<<op.id, "wait">>, op.path, op.pipe, op.id)>>
        ELSE <<op>>
  IN  [prog EXCEPT !.funcs =
         [f \in DOMAIN @ |-> FlattenSeq([i \in DOMAIN @[f] |-> expand(@[f][i])])]]

EventsOf(prog, p, kinds) == {pos \in OpsOf(prog, kinds) : At(prog, pos).pipe = p}
Posts(prog, p) == EventsOf(prog, p, {"post"})
Sends(prog, p) == EventsOf(prog, p, {"send"})

(* PipeKey in the order used for gather slots and as the tie-break of      *)
(* colours.                                                                *)
LexLess(s, t) ==
  \E i \in DOMAIN s : s[i] < t[i] /\ \A j \in 1 .. i - 1 : s[j] = t[j]
GatherKey(p) == p.src \o p.start \o p.end \o <<p.net>>
UnitKey(p) == p.src \o <<p.net>> \o p.start \o p.end

-----------------------------------------------------------------------------
(* PipeGraph.                                                              *)

ReceivedPipes(prog) == {p \in prog.pipes : Posts(prog, p) # {}}

(* addReceiverDFB: every receive of a pipe goes to one buffer, and at one  *)
(* offset when it has several receivers (NoC multicast has one address).   *)
OneReceiverDFB(prog) ==
  \A p \in ReceivedPipes(prog) : \A a, b \in Posts(prog, p) :
    /\ At(prog, a).buf = At(prog, b).buf
    /\ ~HasSingleReceiver(p) => At(prog, a).tile = At(prog, b).tile

BufOf(prog, p) == (CHOOSE op \in {At(prog, pos) : pos \in Posts(prog, p)} : TRUE).buf

(* The lowest slot that no earlier pipe took at any of p's receivers.      *)
GatherSlots(prog) ==
  LET Clash(p, q) == /\ BufOf(prog, p) = BufOf(prog, q)
                     /\ Destinations(p) \cap Destinations(q) # {}
      Assign(slots, p) ==
        LET taken == {slots[q] : q \in {r \in DOMAIN slots : Clash(p, r)}}
            free == Min((0 .. Cardinality(taken)) \ taken)
        IN  [q \in DOMAIN slots \cup {p} |-> IF q = p THEN free ELSE slots[q]]
  IN  FoldLeft(Assign, <<>>,
               SetToSortSeq(ReceivedPipes(prog),
                            LAMBDA p, q : LexLess(GatherKey(p), GatherKey(q))))

PipeGraphOk(prog) ==
  /\ OneReceiverDFB(prog)
  /\ LET slots == GatherSlots(prog) IN \A p \in DOMAIN slots : BlockCount >= slots[p] + 1

-----------------------------------------------------------------------------
(* Queue depth.  Posts in different blocks must exclude each other; in one *)
(* block a send must come between two posts.  The body of a loop counts    *)
(* once.                                                                   *)
MaxLivePostsOk(prog, p) ==
  Cardinality(Posts(prog, p)) <= 1 \/
  /\ \A a, b \in Posts(prog, p) :
       a = b \/ SameBlock(prog, a, b) \/ InExclusiveArms(prog, a, b)
  /\ \A a, b \in Posts(prog, p) :
       (SameBlock(prog, a, b) /\ a[2] < b[2]) =>
         \E s \in Sends(prog, p) : SameBlock(prog, s, a) /\ a[2] < s[2] /\ s[2] < b[2]

-----------------------------------------------------------------------------
(* Live intervals and colours.  first and last are the ends of the         *)
(* interval; one that cannot be bounded overlaps every other.              *)

FirstPost(prog, p) == InWalkOrder(Posts(prog, p))[1]
LastSend(prog, p) == Last(InWalkOrder(Sends(prog, p)))

(* Each later post is dominated by the first, each send by the one before, *)
(* the first post dominates the last send and the send postdominates it.   *)
IsBounded(prog, p) ==
  LET posts == InWalkOrder(Posts(prog, p)) sends == InWalkOrder(Sends(prog, p)) IN
  /\ posts # <<>> /\ sends # <<>>
  /\ \A i \in 2 .. Len(posts) : ProperlyDominates(prog, posts[1], posts[i])
  /\ \A i \in 2 .. Len(sends) : ProperlyDominates(prog, sends[i - 1], sends[i])
  /\ ProperlyDominates(prog, posts[1], Last(sends))
  /\ PostDominates(prog, Last(sends), posts[1])

Overlap(prog, p, q) ==
  \/ ~IsBounded(prog, p) \/ ~IsBounded(prog, q)
  \/ ~ \/ ProperlyDominates(prog, LastSend(prog, p), FirstPost(prog, q))
       \/ ProperlyDominates(prog, LastSend(prog, q), FirstPost(prog, p))

(* Pipes that are posted or sent, in the order colours are given: by the   *)
(* first post in the module (a pipe never posted comes last), then by key. *)
Units(prog) == {p \in prog.pipes : Posts(prog, p) \cup Sends(prog, p) # {}}

UnitBefore(prog, p, q) ==
  LET pp == Posts(prog, p) qq == Posts(prog, q) IN
  \/ pp # {} /\ qq # {} /\ WalkBefore(FirstPost(prog, p), FirstPost(prog, q))
  \/ pp # {} /\ qq = {}
  \/ pp = {} /\ qq = {} /\ LexLess(UnitKey(p), UnitKey(q))

(* First fit among the pipes of one source node.                           *)
Colors(prog) ==
  LET Assign(colors, p) ==
        LET peers == {q \in DOMAIN colors : q.src = p.src}
            taken == {colors[q] : q \in {r \in peers : Overlap(prog, p, r)}}
            fit == Min((0 .. Cardinality(peers)) \ taken)
        IN  [q \in DOMAIN colors \cup {p} |-> IF q = p THEN fit ELSE colors[q]]
  IN  FoldLeft(Assign, <<>>,
               SetToSortSeq(Units(prog), LAMBDA p, q : UnitBefore(prog, p, q)))

-----------------------------------------------------------------------------
(* The resource plan.  Receivers count completions of a whole PipeNet on   *)
(* the semaphore with the number of the net; the ready counters of the     *)
(* sources follow, one per colour, or are global semaphores when there are *)
(* not enough hardware ids.                                                *)

FirstReady(prog) == Max({0} \cup {p.net + 1 : p \in Units(prog)})

UsesGlobal(prog, colors) ==
  FirstReady(prog) + Max({0} \cup {colors[p] + 1 : p \in DOMAIN colors}) > MaxSemaphoreIds

(* Global semaphores are numbered source by source, in the order in which  *)
(* the walk meets the sources; the number stands for <<source, colour>>.   *)
ReadyCounter(prog, colors, p) ==
  IF UsesGlobal(prog, colors) THEN <<"global", p.src, colors[p]>>
  ELSE <<"local", FirstReady(prog) + colors[p]>>

SyncSemaphoreCount(prog, colors) ==
  Max({FirstReady(prog)}
        \cup {FirstReady(prog) + colors[p] + 1 :
                p \in IF UsesGlobal(prog, colors) THEN {} ELSE DOMAIN colors})

ExpectedPosts(p) == IF IsCollective(p) THEN NumDests(p) ELSE 1

ResourcePlan(prog) ==
  LET colors == Colors(prog) IN
  [p \in DOMAIN colors |->
     [ready |-> ReadyCounter(prog, colors, p), slot |-> colors[p],
      expected |-> ExpectedPosts(p)]]

(* The conversion refuses the module, or produces the plan.                *)
PlanOk(prog) ==
  /\ PipeGraphOk(prog)
  /\ \A p \in Units(prog) : MaxLivePostsOk(prog, p)
  /\ SyncSemaphoreCount(prog, Colors(prog)) <= MaxSemaphoreIds
=============================================================================
