------------------------------ MODULE PipeDevice ------------------------------
(***************************************************************************)
(* A module with pipes is compiled and, when no pass refuses it, run.      *)
(* Every node of the grid runs every kernel function as a thread of its    *)
(* own.  The posts, sends and waits run the code that PipeLowering emits:  *)
(*                                                                         *)
(*   post   writes the address of the receiver's block into the address    *)
(*          table of the source node, then increments its ready counter    *)
(*          (the increment is not waited for);                             *)
(*   send   spins until the ready counter equals the expected number of    *)
(*          posts, sets it to 0, reads the address, writes the payload     *)
(*          there at every destination, and after a barrier increments the *)
(*          completion counter of the PipeNet at every destination;        *)
(*   wait   counts, per function and PipeNet, the waits so far, and spins  *)
(*          until the completion counter is at least that.                 *)
(*                                                                         *)
(* Dataflow buffers are the rings of the device: the producer writes at    *)
(* the write pointer, which only a push moves.                             *)
(***************************************************************************)
EXTENDS PipePlan, TLC

CONSTANTS
  Programs,    \* the modules that may be compiled
  AllPipes,    \* the pipes these declare
  Rounds       \* the trip count of the loop around every function

VARIABLES
  prog,      \* the module
  phase,     \* "source", "waits", "guards", "verified", "running", "rejected"
  image,     \* the instructions of each thread, and the resource plan
  pc,        \* per thread: round, instruction, stage within a send
  pending,   \* per thread: destinations the send has yet to signal
  sem,       \* ready counters, by node and counter
  flight,    \* increments of ready counters on their way
  table,     \* address tables, by source node and slot
  mem,       \* the payload in each block of each buffer at each node
  done,      \* completion counters, by node and PipeNet
  waited,    \* the wait-progress counters, by thread and PipeNet
  ring,      \* blocks pushed and popped, by node and buffer
  promised,  \* history: the transfer that each place of mem was posted for
  sent,      \* history: transfers of each pipe
  open,      \* history: receives posted and not filled, by pipe and node
  filled     \* history: receives filled and not waited for

ModulesOk == \A p \in Programs : ModuleOk(p) /\ p.pipes \subseteq AllPipes

machine == <<pc, pending, sem, flight, table, mem, done, waited, ring>>
history == <<promised, sent, open, filled>>
vars == <<prog, phase, image, machine, history>>

Threads == prog.grid \X DOMAIN prog.funcs
Bufs == {At(prog, pos).buf : pos \in Positions(prog)} \ {"none"}
Nets == {p.net : p \in prog.pipes}
Ends == UNION {{p} \X Destinations(p) : p \in prog.pipes}
AllEnds == UNION {{p} \X Destinations(p) : p \in AllPipes}
Tiles == {At(prog, pos).tile : pos \in Positions(prog)}
Places == prog.grid \X (Bufs \X (0 .. BlockCount - 1) \X Tiles)
Empty == <<>>

-----------------------------------------------------------------------------
(* Classes of modules for which the protocol promises more, over the code  *)
(* of one round of every thread.                                           *)

In(code, t, kinds) == {i \in DOMAIN code[t] : code[t][i].kind \in kinds}
Receives(code, t, p) == {i \in In(code, t, {"post"}) : code[t][i].pipe = p}
SendsIn(code, t, p) == {i \in In(code, t, {"send"}) : code[t][i].pipe = p}

(* At each node one function receives from a PipeNet, and it waits for     *)
(* each receive before it posts the next; a wait is of a receive before    *)
(* it; and one thread sends on a pipe.                                     *)
Orderly(code) ==
  /\ \A s, t \in DOMAIN code : \A i \in In(code, s, {"post"}), j \in In(code, t, {"post"}) :
       (s[1] = t[1] /\ code[s][i].pipe.net = code[t][j].pipe.net) => s = t
  /\ \A t \in DOMAIN code : \A i \in In(code, t, {"post"}) :
       LET waits == {k \in In(code, t, {"wait"}) : code[t][k].of = code[t][i].id} IN
       \E k \in waits :
         /\ waits = {k} /\ i < k /\ code[t][k].pipe = code[t][i].pipe
         /\ \A j \in In(code, t, {"post"}) :
              (i < j /\ j < k) => code[t][j].pipe.net # code[t][i].pipe.net
  /\ \A t \in DOMAIN code : \A k \in In(code, t, {"wait"}) :
       \E i \in Receives(code, t, code[t][k].pipe) : i < k /\ code[t][i].id = code[t][k].of
  /\ \A s, t \in DOMAIN code : \A i \in In(code, s, {"send"}), j \in In(code, t, {"send"}) :
       code[s][i].pipe = code[t][j].pipe => s = t

(* The receivers of a collective move the write pointer of its buffer in   *)
(* step: they receive and push equally often in a round, and as often they *)
(* have pushed before the receive of equal rank.                           *)
Pushes(code, t, b) == {i \in In(code, t, {"cb_push"}) : code[t][i].buf = b}
Before(S, i) == Cardinality({j \in S : j < i})
Uniform(code) ==
  \A p \in prog.pipes : IsCollective(p) =>
    \A s, t \in Threads : (Receives(code, s, p) # {} /\ Receives(code, t, p) # {}) =>
      LET b == BufOf(prog, p) IN
      /\ Cardinality(Receives(code, s, p)) = Cardinality(Receives(code, t, p))
      /\ Cardinality(Pushes(code, s, b)) = Cardinality(Pushes(code, t, b))
      /\ \A i \in Receives(code, s, p), j \in Receives(code, t, p) :
           Before(Receives(code, s, p), i) = Before(Receives(code, t, p), j) =>
             Before(Pushes(code, s, b), i) = Before(Pushes(code, t, b), j)

(* A block is reserved before it is posted or pushed, and waited for       *)
(* before it is popped.  Between the post of a receive and its wait the    *)
(* block is not pushed, and no other receive goes to the same tile of it.  *)
HasBlock(code, t, b, take, give, i) ==
  \E r \in In(code, t, {take}) :
    /\ r < i /\ code[t][r].buf = b
    /\ \A g \in In(code, t, {give}) : (r < g /\ code[t][g].buf = b) => i <= g
Bracketed(code) ==
  \A t \in DOMAIN code :
    /\ \A i \in In(code, t, {"post", "cb_push"}) : HasBlock(code, t, code[t][i].buf, "cb_reserve", "cb_push", i)
    /\ \A i \in In(code, t, {"cb_pop"}) : HasBlock(code, t, code[t][i].buf, "cb_wait", "cb_pop", i)
    /\ \A i \in In(code, t, {"post"}), k \in In(code, t, {"wait"}), j \in In(code, t, {"post", "cb_push"}) :
         (code[t][k].of = code[t][i].id /\ i < j /\ j < k /\ code[t][j].buf = code[t][i].buf) =>
           code[t][j].kind = "post" /\ code[t][j].tile # code[t][i].tile

(* In every round the source sends on a pipe as often as each destination  *)
(* receives, each in one function; and every buffer is filled and emptied  *)
(* equally often at every node.                                            *)
Matched(code) ==
  /\ \A p \in prog.pipes : \E s \in Threads :
       /\ SendsIn(code, s, p) # {} => s[1] = p.src
       /\ \A t \in Threads \ {s} : SendsIn(code, t, p) = {}
       /\ \A n \in Destinations(p) : \E r \in Threads :
            /\ r[1] = n /\ Cardinality(Receives(code, r, p)) = Cardinality(SendsIn(code, s, p))
            /\ \A t \in Threads \ {r} : t[1] = n => Receives(code, t, p) = {}
  /\ \A n \in prog.grid : \A b \in Bufs :
       LET Count(kind) ==
             Cardinality(UNION {{t} \X {i \in In(code, t, {kind}) : code[t][i].buf = b} :
                                t \in {u \in Threads : u[1] = n}})
       IN  \A kind \in {"cb_reserve", "cb_wait", "cb_pop"} : Count(kind) = Count("cb_push")

-----------------------------------------------------------------------------
(* Compilation, in the order of the pipeline.                              *)

InsertWaits ==
  /\ phase = "source" /\ phase' = "waits"
  /\ prog' = InsertCopyWait(prog)
  /\ UNCHANGED <<image, machine, history>>

VerifyGuards ==
  /\ phase = "waits"
  /\ phase' = IF VerifyPipeNetGuards(prog) THEN "guards" ELSE "rejected"
  /\ UNCHANGED <<prog, image, machine, history>>

VerifySPSC ==
  /\ phase = "guards"
  /\ phase' = IF VerifyDFBSPSC(prog) THEN "verified" ELSE "rejected"
  /\ UNCHANGED <<prog, image, machine, history>>

CodeAt(m, t) ==
  LET ops == m.funcs[t[2]]
  IN  FlattenSeq([i \in DOMAIN ops |-> IF Runs(m, ops[i], t[1]) THEN <<ops[i]>> ELSE <<>>])
Code(t) == CodeAt(prog, t)

(* What the colours of the plan are for: every pipe in use has a ready     *)
(* counter, and two pipes of a node that share one take turns.  One thread *)
(* posts and sends on both, and sends on the one that it has posted before *)
(* it does anything with the other (pipeTransferIntervalsOverlap).         *)
Events(code, t, p) == Receives(code, t, p) \cup SendsIn(code, t, p)
TakeTurns(code, p, q) ==
  \E s \in DOMAIN code :
    /\ \A t \in DOMAIN code \ {s} : Events(code, t, p) = {} /\ Events(code, t, q) = {}
    /\ \A i \in Receives(code, s, p) : \E k \in SendsIn(code, s, p) :
         i < k /\ \A j \in Events(code, s, q) : j < i \/ k < j
PlanTakesTurns(m, plan, code) ==
  /\ DOMAIN plan = Units(m)
  /\ \A p, q \in Units(m) :
       (p # q /\ p.src = q.src /\ plan[p].ready = plan[q].ready) => TakeTurns(code, p, q)
PlansOk ==
  \A p \in Programs :
    LET m == InsertCopyWait(p) IN
    (VerifyPipeNetGuards(m) /\ VerifyDFBSPSC(m) /\ PlanOk(m)) =>
      PlanTakesTurns(m, ResourcePlan(m), [t \in m.grid \X DOMAIN m.funcs |-> CodeAt(m, t)])

(* The code of all accepted modules brackets the use of its blocks, as the *)
(* frontend's with statements do.                                          *)
BlocksOk ==
  \A p \in Programs :
    LET m == InsertCopyWait(p) IN
    (VerifyPipeNetGuards(m) /\ VerifyDFBSPSC(m) /\ PlanOk(m)) =>
      Bracketed([t \in m.grid \X DOMAIN m.funcs |-> CodeAt(m, t)])

(* Counters, tables and buffers start at 0 when the kernel is launched.    *)
LaunchWith(plan, code) ==
  LET counters == {<<p.src, plan[p].ready>> : p \in DOMAIN plan} IN
  /\ image' = [code |-> code, plan |-> plan, orderly |-> Orderly(code),
               uniform |-> Uniform(code), matched |-> Matched(code)]
  /\ pc' = [t \in Threads |-> [round |-> 1, at |-> 1, stage |-> "op"]]
  /\ pending' = [t \in Threads |-> {}]
  /\ sem' = [c \in counters |-> 0] /\ flight' = [c \in counters |-> 0]
  /\ table' = [s \in {<<p.src, plan[p].slot>> : p \in DOMAIN plan} |-> Empty]
  /\ mem' = [b \in Places |-> Empty] /\ promised' = [b \in Places |-> Empty]
  /\ done' = [c \in prog.grid \X Nets |-> 0]
  /\ waited' = [c \in Threads \X Nets |-> 0]
  /\ ring' = [b \in prog.grid \X Bufs |-> [pushed |-> 0, popped |-> 0]]
  /\ sent' = [p \in prog.pipes |-> 0]
  /\ open' = [e \in Ends |-> 0] /\ filled' = [e \in Ends |-> 0]

Convert ==
  /\ phase = "verified" /\ UNCHANGED prog
  /\ IF PlanOk(prog)
     THEN phase' = "running" /\ LaunchWith(ResourcePlan(prog), [t \in Threads |-> Code(t)])
     ELSE phase' = "rejected" /\ UNCHANGED <<image, machine, history>>

-----------------------------------------------------------------------------
(* The threads.                                                            *)

Finished(t) == pc[t].round > Rounds
Current(t) == image.code[t][pc[t].at]
IsAt(t, kind, stage) ==
  /\ phase = "running" /\ ~Finished(t) /\ image.code[t] # <<>>
  /\ Current(t).kind = kind /\ pc[t].stage = stage

NextPc(t) ==
  IF pc[t].at < Len(image.code[t])
  THEN [round |-> pc[t].round, at |-> pc[t].at + 1, stage |-> "op"]
  ELSE [round |-> pc[t].round + 1, at |-> 1, stage |-> "op"]
Advance(t) == pc' = [pc EXCEPT ![t] = NextPc(t)]
ToStage(t, stage) == pc' = [pc EXCEPT ![t].stage = stage]

Counter(p) == <<p.src, image.plan[p].ready>>
(* Mutant of Slot: a source has one entry for all its pipes.               *)
OneSlot(p) == <<p.src, 0>>
Slot(p) == <<p.src, image.plan[p].slot>>
Target(n, op) == <<op.buf, ring[<<n, op.buf>>].pushed % BlockCount, op.tile>>
ReadBlock(n, b) == {place \in DOMAIN mem : /\ place[1] = n /\ place[2][1] = b
                                          /\ place[2][2] = ring[<<n, b>>].popped % BlockCount}

compiled == <<prog, phase, image>>

Post(t) ==
  LET op == Current(t) p == op.pipe n == t[1] IN
  /\ IsAt(t, "post", "op") /\ Advance(t)
  /\ table' = [table EXCEPT ![Slot(p)] = Target(n, op)]
  /\ flight' = [flight EXCEPT ![Counter(p)] = @ + 1]
  /\ promised' = [promised EXCEPT ![<<n, Target(n, op)>>] = <<p, sent[p] + open[<<p, n>>] + 1>>]
  /\ open' = [open EXCEPT ![<<p, n>>] = @ + 1]
  /\ UNCHANGED <<compiled, pending, sem, mem, done, waited, ring, sent, filled>>

DeliverReady(c) ==
  /\ flight[c] > 0
  /\ flight' = [flight EXCEPT ![c] = @ - 1]
  /\ sem' = [sem EXCEPT ![c] = @ + 1]
  /\ UNCHANGED <<compiled, pc, pending, table, mem, done, waited, ring, history>>

(* Mutant of SendReady: a send waits for at least one post.                *)
SendOnePost(t) ==
  /\ IsAt(t, "send", "op") /\ ToStage(t, "reset")
  /\ sem[Counter(Current(t).pipe)] >= 1
  /\ UNCHANGED <<compiled, pending, sem, flight, table, mem, done, waited, ring, history>>

SendReady(t) ==
  /\ IsAt(t, "send", "op") /\ ToStage(t, "reset")
  /\ sem[Counter(Current(t).pipe)] = image.plan[Current(t).pipe].expected
  /\ UNCHANGED <<compiled, pending, sem, flight, table, mem, done, waited, ring, history>>

(* Mutant of SendReset: the counter keeps its value.                       *)
SendKeep(t) ==
  /\ IsAt(t, "send", "reset") /\ ToStage(t, "write")
  /\ UNCHANGED <<compiled, pending, sem, flight, table, mem, done, waited, ring, history>>

SendReset(t) ==
  /\ IsAt(t, "send", "reset") /\ ToStage(t, "write")
  /\ sem' = [sem EXCEPT ![Counter(Current(t).pipe)] = 0]
  /\ UNCHANGED <<compiled, pending, flight, table, mem, done, waited, ring, history>>

(* The payload is the next transfer of the pipe.                           *)
SendWrite(t) ==
  LET p == Current(t).pipe dests == Destinations(p) IN
  /\ IsAt(t, "send", "write") /\ ToStage(t, "signal")
  /\ mem' = [b \in DOMAIN mem |-> IF b[1] \in dests /\ b[2] = table[Slot(p)]
                                  THEN <<p, sent[p] + 1>> ELSE mem[b]]
  /\ pending' = [pending EXCEPT ![t] = dests]
  /\ sent' = [sent EXCEPT ![p] = @ + 1]
  /\ open' = [e \in DOMAIN open |-> IF e[1] = p THEN open[e] - 1 ELSE open[e]]
  /\ filled' = [e \in DOMAIN filled |-> IF e[1] = p THEN filled[e] + 1 ELSE filled[e]]
  /\ UNCHANGED <<compiled, sem, flight, table, done, waited, ring, promised>>

(* One destination's completion counter; the barrier behind the last one   *)
(* ends the send.                                                          *)
Signal(t, n) ==
  LET p == Current(t).pipe IN
  /\ IsAt(t, "send", "signal") /\ n \in pending[t]
  /\ done' = [done EXCEPT ![<<n, p.net>>] = @ + 1]
  /\ pending' = [pending EXCEPT ![t] = @ \ {n}]
  /\ IF pending[t] = {n} THEN Advance(t) ELSE UNCHANGED pc
  /\ UNCHANGED <<compiled, sem, flight, table, mem, waited, ring, history>>

(* Mutant of Wait: the progress counter is not advanced.                   *)
WaitStuck(t) ==
  LET op == Current(t) c == <<t, op.pipe.net>> IN
  /\ IsAt(t, "wait", "op") /\ Advance(t)
  /\ done[<<t[1], op.pipe.net>>] >= 1
  /\ filled' = [filled EXCEPT ![<<op.pipe, t[1]>>] = @ - 1]
  /\ UNCHANGED <<compiled, pending, sem, flight, table, mem, done, waited, ring, promised, sent, open>>

Wait(t) ==
  LET op == Current(t) c == <<t, op.pipe.net>> IN
  /\ IsAt(t, "wait", "op") /\ Advance(t)
  /\ done[<<t[1], op.pipe.net>>] >= waited[c] + 1
  /\ waited' = [waited EXCEPT ![c] = @ + 1]
  /\ filled' = [filled EXCEPT ![<<op.pipe, t[1]>>] = @ - 1]
  /\ UNCHANGED <<compiled, pending, sem, flight, table, mem, done, ring, promised, sent, open>>

(* The operations on dataflow buffers (the device's circular buffers).     *)
RingOf(t) == ring[<<t[1], Current(t).buf>>]
OnRing(t, kind, change) ==
  /\ IsAt(t, kind, "op") /\ Advance(t)
  /\ ring' = [ring EXCEPT ![<<t[1], Current(t).buf>>] = change]
  /\ UNCHANGED <<compiled, pending, sem, flight, table, mem, done, waited, sent, open, filled>>

CBReserve(t) ==
  /\ OnRing(t, "cb_reserve", RingOf(t)) /\ UNCHANGED promised
  /\ RingOf(t).pushed - RingOf(t).popped < BlockCount
CBPush(t) == OnRing(t, "cb_push", [RingOf(t) EXCEPT !.pushed = @ + 1]) /\ UNCHANGED promised
CBWait(t) ==
  /\ OnRing(t, "cb_wait", RingOf(t)) /\ UNCHANGED promised
  /\ RingOf(t).pushed > RingOf(t).popped
CBPop(t) ==
  /\ OnRing(t, "cb_pop", [RingOf(t) EXCEPT !.popped = @ + 1])
  /\ promised' = [b \in DOMAIN promised |->
                    IF b \in ReadBlock(t[1], Current(t).buf) THEN Empty ELSE promised[b]]

ThreadStep(t) ==
  \/ Post(t) \/ SendReady(t) \/ SendReset(t) \/ SendWrite(t) \/ Wait(t)
  \/ CBReserve(t) \/ CBPush(t) \/ CBWait(t) \/ CBPop(t)
Compile == InsertWaits \/ VerifyGuards \/ VerifySPSC \/ Convert

Init ==
  /\ prog \in Programs /\ phase = "source"
  /\ image = Empty /\ pc = Empty /\ pending = Empty /\ sem = Empty /\ flight = Empty
  /\ table = Empty /\ mem = Empty /\ done = Empty /\ waited = Empty /\ ring = Empty
  /\ promised = Empty /\ sent = Empty /\ open = Empty /\ filled = Empty

Run ==
  \/ \E t \in DOMAIN pc : ThreadStep(t)
  \/ \E t \in DOMAIN pc : \E n \in pending[t] : Signal(t, n)
  \/ \E c \in DOMAIN flight : DeliverReady(c)

Next == Compile \/ Run

(* The device does something as long as it can.  The rounds are bounded,   *)
(* so that no thread and no message can be put off for ever.               *)
Fairness == WF_vars(Run)

Spec == Init /\ [][Next]_vars /\ Fairness

-----------------------------------------------------------------------------
AllFinished ==
  phase = "running" /\ \A t \in Threads : image.code[t] = <<>> \/ Finished(t)

-----------------------------------------------------------------------------
(* Properties.                                                             *)

(* A consumer that pops a block finds in it the transfer that the receive  *)
(* into this block was posted for: nothing was written elsewhere, written  *)
(* over, or not yet there (lowerPipeTransferPost, Send, Wait).  Popping is *)
(* the last moment the data may be read.                                   *)
ConsumerGetsItsTransfer ==
  [][\A t \in DOMAIN pc :
       (IsAt(t, "cb_pop", "op") /\ pc'[t] # pc[t] /\ image.orderly /\ image.uniform) =>
         \A place \in ReadBlock(t[1], Current(t).buf) :
           promised[place] # Empty => mem[place] = promised[place]]_vars

(* The ready counter of a send never passes what the send waits for: the   *)
(* spin tests for equality, and one post too many would hang it.           *)
ReadyNeverPassesExpected ==
  (phase = "running" /\ image.orderly) =>
    \A p \in DOMAIN image.plan : sem[Counter(p)] + flight[Counter(p)] <= image.plan[p].expected

(* A send writes to the address that its receivers have published for it,  *)
(* not to what another pipe left in a shared slot of the table.            *)
AddressIsOfThisPipe ==
  (phase = "running" /\ image.uniform /\ image.orderly) =>
    \A t \in Threads : IsAt(t, "send", "write") =>
      LET p == Current(t).pipe IN
      \A n \in Destinations(p) : promised[<<n, table[Slot(p)]>>] = <<p, sent[p] + 1>>

(* "All receivers for one collective pipe must therefore publish the same  *)
(* destination SRAM address value.  The compiler proves that" (docs/       *)
(* development/PipeNets.md): a collective send finds the address that each *)
(* of its receivers posted.  The code compares buffer and offset, not how  *)
(* far each receiver's write pointer has moved.                            *)
ReceiversPublishOneAddress ==
  (phase = "running" /\ image.orderly) =>
    \A t \in Threads : IsAt(t, "send", "write") /\ IsCollective(Current(t).pipe) =>
      LET p == Current(t).pipe IN
      \A n \in Destinations(p) : promised[<<n, table[Slot(p)]>>] = <<p, sent[p] + 1>>

(* A buffer of an accepted module is filled by one thread of a node and    *)
(* emptied by one: the device's rings have one producer and one consumer.  *)
OneThreadPerEnd ==
  phase = "running" =>
    \A s, t \in Threads : \A kind \in {"cb_reserve", "cb_wait"} :
      \A i \in In(image.code, s, {kind}), j \in In(image.code, t, {kind}) :
        (s[1] = t[1] /\ image.code[s][i].buf = image.code[t][j].buf) => s = t

(* Every node that posts, sends or waits on a pipe is at that end of the   *)
(* pipe: the counters and addresses that the emitted code uses are its own *)
(* (TTLVerifyPipeNetGuards, lowerPipeTransferPost, Send, Wait).            *)
OnlyAtItsEnd ==
  phase = "running" =>
    \A t \in Threads : \A i \in In(image.code, t, {"post", "send", "wait"}) :
      t[1] \in RoleOf(image.code[t][i])

(* Where a buffer of a module with pipes is waited for, some thread of the *)
(* node pushes it, unless a push depends on what is no coordinate          *)
(* (verifyCBWaits).                                                        *)
Steady(op) == \A i \in DOMAIN op.path : \A j \in DOMAIN op.path[i].cond : op.path[i].cond[j].c # "flag"
WaitsArePushed ==
  (phase = "running" /\ prog.pipes # {}) =>
    \A t \in Threads : \A i \in In(image.code, t, {"cb_wait"}) :
      LET buf == image.code[t][i].buf IN
      (\A pos \in OpsOf(prog, {"cb_push"}) : At(prog, pos).buf = buf => Steady(At(prog, pos))) =>
        \E u \in Threads : u[1] = t[1] /\ \E k \in In(image.code, u, {"cb_push"}) : image.code[u][k].buf = buf

(* The promise of the guard verifier as a whole.                           *)
GuardsAreKept == OnlyAtItsEnd /\ WaitsArePushed

(* The domain analysis never misses a node: an operation that runs at a    *)
(* node has that node in its domain, or an unknown domain.                 *)
DomainsAreSound ==
  phase = "waits" =>
    \A pos \in Positions(prog) : \A n \in prog.grid :
      LET d == DomainAt(prog, "open", pos) IN
      Runs(prog, At(prog, pos), n) /\ d.known => n \in d.nodes

(* The device implements the promise of a pipe.  A module that is not      *)
(* orderly is taken as one that makes no transfer.                         *)
Transfers(f) ==
  [e \in AllEnds |-> IF phase = "running" /\ e \in DOMAIN f /\ image.orderly THEN f[e] ELSE 0]
Abstract == INSTANCE PipeTransfer WITH Ends <- AllEnds, open <- Transfers(open), filled <- Transfers(filled)
ImplementsTransfer == Abstract!Spec

(* A module that was accepted and whose sends and receives match runs to   *)
(* its end.                                                                *)
Terminates == (phase = "running" /\ image.matched /\ image.orderly) ~> AllFinished
=============================================================================
