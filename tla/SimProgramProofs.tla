-------------------------- MODULE SimProgramProofs --------------------------
(***************************************************************************)
(* The scheduler's answer is right, a resumed call succeeds and no kernel  *)
(* starves, for any program whose buffer and pipe ends belong to one       *)
(* kernel each.                                                            *)
(*                                                                         *)
(* First, the kernels' network ends in one state, whatever the schedule.   *)
(* The argument is Kahn's: a kernel's step reads and writes what is the    *)
(* kernel's own, and what the others do can only make it possible, never   *)
(* impossible.  Then, a step of the simulator is a step of the network or  *)
(* leaves it as it is, so that it is known where a run that cannot go on   *)
(* has got to; what remains is that the scheduler stops only there, which  *)
(* is a matter of its own bookkeeping.                                     *)
(***************************************************************************)
EXTENDS SimProgram, FiniteSetTheorems, WellFoundedInduction, TLAPS

Party == Kernels \cup {NoKernel}

Channels ==
  [visible  : [Dfbs -> Int],
   reserved : [Dfbs -> Int],
   popped   : [Dfbs -> Int],
   holdsR   : [Dfbs -> Party],
   holdsW   : [Dfbs -> Party],
   sent     : [Pipes -> Int],
   got      : [Pipes -> [Kernels -> Int]]]

NetState ==
  [pos : [Kernels -> Nat], begun : [Kernels -> BOOLEAN], chan : Channels,
   left : SUBSET Kernels]

(* Blocks ever pushed to d.                                                *)
Pushed(c, d) == c.visible[d] + c.popped[d]

-----------------------------------------------------------------------------
(* Who owns which end.                                                     *)
WellFormed(s) ==
  /\ s \in [Kernels -> Seq(Call)]
  /\ \A j, k \in Kernels : \A x \in Range(s[j]), y \in Range(s[k]) :
       x.on = y.on /\ (Fills(x) <=> Fills(y)) => j = k

Uses(s, k, e, ops) == \E x \in Range(s[k]) : x.on = e /\ x.op \in ops

Owner(s, e, ops) ==
  IF \E k \in Kernels : Uses(s, k, e, ops)
  THEN CHOOSE k \in Kernels : Uses(s, k, e, ops)
  ELSE NoKernel

Producer(s, d) == Owner(s, d, {"reserve", "push"})
Consumer(s, d) == Owner(s, d, {"wait", "pop"})
Sender(s, p) == Owner(s, p, {"send"})

(* A call's end of its buffer or pipe belongs to the kernel that makes it. *)
LEMMA CallsOwnEnd ==
  ASSUME NEW s, WellFormed(s), NEW k \in Kernels, NEW i \in 1 .. Len(s[k])
  PROVE  /\ s[k][i] \in Call
         /\ s[k][i].op \in {"reserve", "push"} => Producer(s, s[k][i].on) = k
         /\ s[k][i].op \in {"wait", "pop"} => Consumer(s, s[k][i].on) = k
         /\ s[k][i].op = "send" => Sender(s, s[k][i].on) = k
<1> DEFINE x == s[k][i]
<1>1. x \in Call /\ x \in Range(s[k])
  BY DEF WellFormed, Range
<1>2. ASSUME NEW ops, x.op \in ops, NEW f \in BOOLEAN,
             \A y \in Call : y.op \in ops => (Fills(y) <=> f)
      PROVE  Owner(s, x.on, ops) = k
  <2>1. Uses(s, k, x.on, ops)
    BY <1>1, <1>2 DEF Uses
  <2>2. ASSUME NEW j \in Kernels, Uses(s, j, x.on, ops)
        PROVE  j = k
    <3>1. PICK y \in Range(s[j]) : y.on = x.on /\ y.op \in ops
      BY <2>2 DEF Uses
    <3>2. y \in Call
      BY <3>1 DEF WellFormed, Range
    <3>3. Fills(x) <=> Fills(y)
      BY <1>1, <1>2, <3>1, <3>2
    <3> QED BY <1>1, <3>1, <3>3 DEF WellFormed
  <2> QED BY <2>1, <2>2 DEF Owner
<1>3. x.op \in {"reserve", "push"} => Producer(s, x.on) = k
  BY <1>2 DEF Producer, Fills
<1>4. x.op \in {"wait", "pop"} => Consumer(s, x.on) = k
  BY <1>2 DEF Consumer, Fills
<1>5. x.op = "send" => Sender(s, x.on) = k
  BY <1>2 DEF Sender, Fills
<1> QED BY <1>1, <1>3, <1>4, <1>5

-----------------------------------------------------------------------------
(* What a step of k does to the channels.                                  *)
Returns(s, m, k) == m.pos[k] > Len(s[k])
CallAt(s, m, k) == s[k][m.pos[k]]
Begins(s, m, k) ==
  ~Returns(s, m, k) /\ CallAt(s, m, k).op \in BlockingOps /\ ~m.begun[k]
Finishes(s, m, k) == ~Returns(s, m, k) /\ ~Begins(s, m, k)

BeginsA(s, m, k, op, e) ==
  Begins(s, m, k) /\ CallAt(s, m, k).op = op /\ CallAt(s, m, k).on = e
FinishesA(s, m, k, op, e) ==
  Finishes(s, m, k) /\ CallAt(s, m, k).op = op /\ CallAt(s, m, k).on = e

Pushes(s, m, k, d) ==
  /\ m.chan.holdsR[d] = k
  /\ Returns(s, m, k) \/ BeginsA(s, m, k, "reserve", d) \/ FinishesA(s, m, k, "push", d)
Pops(s, m, k, d) ==
  /\ m.chan.holdsW[d] = k
  /\ Returns(s, m, k) \/ BeginsA(s, m, k, "wait", d) \/ FinishesA(s, m, k, "pop", d)

(* A step of k from m takes buffer d, and pipe p, to their states in n.    *)
OnBuffer(s, m, k, n, d) ==
  /\ n.visible[d] = m.chan.visible[d] + (IF Pushes(s, m, k, d) THEN 1 ELSE 0)
                                      - (IF Pops(s, m, k, d) THEN 1 ELSE 0)
  /\ n.reserved[d] = m.chan.reserved[d]
                        - (IF Pushes(s, m, k, d) THEN 1 ELSE 0)
                        + (IF FinishesA(s, m, k, "reserve", d) THEN 1 ELSE 0)
  /\ n.popped[d] = m.chan.popped[d] + (IF Pops(s, m, k, d) THEN 1 ELSE 0)
  /\ n.holdsR[d] = IF Pushes(s, m, k, d) THEN NoKernel
                   ELSE IF FinishesA(s, m, k, "reserve", d) THEN k
                   ELSE m.chan.holdsR[d]
  /\ n.holdsW[d] = IF Pops(s, m, k, d) THEN NoKernel
                   ELSE IF FinishesA(s, m, k, "wait", d) THEN k
                   ELSE m.chan.holdsW[d]

OnPipe(s, m, k, n, p) ==
  /\ n.sent[p] = m.chan.sent[p] + (IF BeginsA(s, m, k, "send", p) THEN 1 ELSE 0)
  /\ \A j \in Kernels :
       n.got[p][j] = m.chan.got[p][j]
                       + (IF j = k /\ FinishesA(s, m, k, "recv", p) THEN 1 ELSE 0)

Effect(s, m, k, n) ==
  /\ n \in Channels
  /\ \A d \in Dfbs : OnBuffer(s, m, k, n, d)
  /\ \A p \in Pipes : OnPipe(s, m, k, n, p)

(* AutoPush takes the channels from c to n.                            *)
AfterPush(c, D, k, n) ==
  /\ n \in Channels
  /\ n.popped = c.popped
  /\ n.holdsW = c.holdsW
  /\ n.sent = c.sent
  /\ n.got = c.got
  /\ \A d \in Dfbs :
       IF d \in D /\ c.holdsR[d] = k
       THEN /\ n.reserved[d] = c.reserved[d] - 1
            /\ n.visible[d] = c.visible[d] + 1
            /\ n.holdsR[d] = NoKernel
       ELSE /\ n.reserved[d] = c.reserved[d]
            /\ n.visible[d] = c.visible[d]
            /\ n.holdsR[d] = c.holdsR[d]

LEMMA AutoPushEffect ==
  ASSUME NEW c \in Channels, NEW D \in SUBSET Dfbs, NEW k \in Kernels
  PROVE  AfterPush(c, D, k, AutoPush(c, D, k))
<1> DEFINE own == {d \in D : c.holdsR[d] = k}
           reserved == [d \in Dfbs |-> IF d \in own THEN c.reserved[d] - 1 ELSE c.reserved[d]]
           visible == [d \in Dfbs |-> IF d \in own THEN c.visible[d] + 1 ELSE c.visible[d]]
           holdsR == [d \in Dfbs |-> IF d \in own THEN NoKernel ELSE c.holdsR[d]]
<1> SUFFICES ASSUME NEW n, n = AutoPush(c, D, k)
             PROVE  AfterPush(c, D, k, n)
  OBVIOUS
<1>1. n = [c EXCEPT !.reserved = reserved, !.visible = visible, !.holdsR = holdsR]
  BY DEF AutoPush, Channels
<1>2. /\ reserved \in [Dfbs -> Int] /\ visible \in [Dfbs -> Int]
      /\ holdsR \in [Dfbs -> Party]
  BY DEF Channels, Party
<1>3. /\ n \in Channels
      /\ n.reserved = reserved /\ n.visible = visible /\ n.holdsR = holdsR
      /\ n.popped = c.popped
      /\ n.holdsW = c.holdsW
      /\ n.sent = c.sent
      /\ n.got = c.got
  <2> HIDE DEF reserved, visible, holdsR
  <2> QED BY <1>1, <1>2 DEF Channels
<1> QED BY <1>3 DEF AfterPush

(* AutoPop takes the channels from c to n.                             *)
AfterPop(c, D, k, n) ==
  /\ n \in Channels
  /\ n.reserved = c.reserved
  /\ n.holdsR = c.holdsR
  /\ n.sent = c.sent
  /\ n.got = c.got
  /\ \A d \in Dfbs :
       IF d \in D /\ c.holdsW[d] = k
       THEN /\ n.visible[d] = c.visible[d] - 1
            /\ n.popped[d] = c.popped[d] + 1
            /\ n.holdsW[d] = NoKernel
       ELSE /\ n.visible[d] = c.visible[d]
            /\ n.popped[d] = c.popped[d]
            /\ n.holdsW[d] = c.holdsW[d]

LEMMA AutoPopEffect ==
  ASSUME NEW c \in Channels, NEW D \in SUBSET Dfbs, NEW k \in Kernels
  PROVE  AfterPop(c, D, k, AutoPop(c, D, k))
<1> DEFINE own == {d \in D : c.holdsW[d] = k}
           visible == [d \in Dfbs |-> IF d \in own THEN c.visible[d] - 1 ELSE c.visible[d]]
           popped == [d \in Dfbs |-> IF d \in own THEN c.popped[d] + 1 ELSE c.popped[d]]
           holdsW == [d \in Dfbs |-> IF d \in own THEN NoKernel ELSE c.holdsW[d]]
<1> SUFFICES ASSUME NEW n, n = AutoPop(c, D, k)
             PROVE  AfterPop(c, D, k, n)
  OBVIOUS
<1>1. n = [c EXCEPT !.visible = visible, !.popped = popped, !.holdsW = holdsW]
  BY DEF AutoPop, Channels
<1>2. /\ visible \in [Dfbs -> Int] /\ popped \in [Dfbs -> Int]
      /\ holdsW \in [Dfbs -> Party]
  BY DEF Channels, Party
<1>3. /\ n \in Channels
      /\ n.visible = visible /\ n.popped = popped /\ n.holdsW = holdsW
      /\ n.reserved = c.reserved
      /\ n.holdsR = c.holdsR
      /\ n.sent = c.sent
      /\ n.got = c.got
  <2> HIDE DEF visible, popped, holdsW
  <2> QED BY <1>1, <1>2 DEF Channels
<1> QED BY <1>3 DEF AfterPop

(* A step that touches neither a pipe nor the holders of a buffer.         *)
NoEnds(s, m, k) ==
  /\ \A d \in Dfbs : ~FinishesA(s, m, k, "reserve", d) /\ ~FinishesA(s, m, k, "wait", d)
  /\ \A p \in Pipes : ~BeginsA(s, m, k, "send", p) /\ ~FinishesA(s, m, k, "recv", p)

LEMMA PushIsEffect ==
  ASSUME NEW s, NEW m \in NetState, NEW k \in Kernels, NEW D \in SUBSET Dfbs,
         NoEnds(s, m, k),
         \A d \in Dfbs : /\ ~Pops(s, m, k, d)
                         /\ Pushes(s, m, k, d) <=> d \in D /\ m.chan.holdsR[d] = k
  PROVE  Effect(s, m, k, AutoPush(m.chan, D, k))
<1> DEFINE c == m.chan
<1> SUFFICES ASSUME NEW n, n = AutoPush(c, D, k)
             PROVE  Effect(s, m, k, n)
  OBVIOUS
<1>1. c \in Channels
  BY DEF NetState
<1>2. AfterPush(c, D, k, n)
  BY <1>1, AutoPushEffect
<1>3. \A d \in Dfbs : OnBuffer(s, m, k, n, d)
  BY <1>1, <1>2 DEF AfterPush, OnBuffer, Channels, NoEnds
<1>4. \A p \in Pipes : OnPipe(s, m, k, n, p)
  BY <1>1, <1>2 DEF AfterPush, OnPipe, Channels, NoEnds
<1> QED BY <1>2, <1>3, <1>4 DEF AfterPush, Effect

LEMMA PopIsEffect ==
  ASSUME NEW s, NEW m \in NetState, NEW k \in Kernels, NEW D \in SUBSET Dfbs,
         NoEnds(s, m, k),
         \A d \in Dfbs : /\ ~Pushes(s, m, k, d)
                         /\ Pops(s, m, k, d) <=> d \in D /\ m.chan.holdsW[d] = k
  PROVE  Effect(s, m, k, AutoPop(m.chan, D, k))
<1> DEFINE c == m.chan
<1> SUFFICES ASSUME NEW n, n = AutoPop(c, D, k)
             PROVE  Effect(s, m, k, n)
  OBVIOUS
<1>1. c \in Channels
  BY DEF NetState
<1>2. AfterPop(c, D, k, n)
  BY <1>1, AutoPopEffect
<1>3. \A d \in Dfbs : OnBuffer(s, m, k, n, d)
  BY <1>1, <1>2 DEF AfterPop, OnBuffer, Channels, NoEnds
<1>4. \A p \in Pipes : OnPipe(s, m, k, n, p)
  BY <1>1, <1>2 DEF AfterPop, OnPipe, Channels, NoEnds
<1> QED BY <1>2, <1>3, <1>4 DEF AfterPop, Effect

(* A step of the network, in these terms.                                  *)
LEMMA PrepareEffect ==
  ASSUME NEW s, WellFormed(s), NEW m \in NetState, NEW k \in Kernels,
         m.pos[k] # 0, Begins(s, m, k)
  PROVE  Effect(s, m, k, Prepare(m.chan, CallAt(s, m, k), k))
<1> DEFINE x == CallAt(s, m, k)
           c == m.chan
<1> SUFFICES ASSUME NEW n, n = Prepare(c, x, k)
             PROVE  Effect(s, m, k, n)
  OBVIOUS
<1>1. x \in Call /\ x.op \in BlockingOps /\ c \in Channels
  BY CallsOwnEnd DEF Begins, Returns, CallAt, NetState, WellFormed
<1>2. ~Returns(s, m, k) /\ ~Finishes(s, m, k)
  BY DEF Begins, Finishes
<1>3. CASE x.op = "reserve"
  <2>1. x.on \in Dfbs /\ n = AutoPush(c, {x.on}, k)
    BY <1>1, <1>3 DEF Call, Prepare
  <2>2. NoEnds(s, m, k)
    BY <1>2, <1>3 DEF NoEnds, BeginsA, FinishesA
  <2>3. \A d \in Dfbs : /\ ~Pops(s, m, k, d)
                        /\ Pushes(s, m, k, d) <=> d \in {x.on} /\ c.holdsR[d] = k
    BY <1>2, <1>3 DEF Pushes, Pops, BeginsA, FinishesA
  <2> QED BY <2>1, <2>2, <2>3, PushIsEffect
<1>4. CASE x.op = "wait"
  <2>1. x.on \in Dfbs /\ n = AutoPop(c, {x.on}, k)
    BY <1>1, <1>4 DEF Call, Prepare
  <2>2. NoEnds(s, m, k)
    BY <1>2, <1>4 DEF NoEnds, BeginsA, FinishesA
  <2>3. \A d \in Dfbs : /\ ~Pushes(s, m, k, d)
                        /\ Pops(s, m, k, d) <=> d \in {x.on} /\ c.holdsW[d] = k
    BY <1>2, <1>4 DEF Pushes, Pops, BeginsA, FinishesA
  <2> QED BY <2>1, <2>2, <2>3, PopIsEffect
<1>5. CASE x.op = "send"
  <2>1. x.on \in Pipes /\ n = [c EXCEPT !.sent[x.on] = @ + 1]
    BY <1>1, <1>5 DEF Call, Prepare
  <2>2. PICK f : f = [c.sent EXCEPT ![x.on] = @ + 1]
    OBVIOUS
  <2>3. /\ f \in [Pipes -> Int]
        /\ \A p \in Pipes : f[p] = IF p = x.on THEN c.sent[p] + 1 ELSE c.sent[p]
    BY <1>1, <2>1, <2>2 DEF Channels
  <2>4. n \in Channels /\ n = [c EXCEPT !.sent = f]
    BY <1>1, <2>1, <2>2, <2>3 DEF Channels
  <2>5. \A d \in Dfbs : OnBuffer(s, m, k, n, d)
    BY <1>1, <1>2, <1>5, <2>4 DEF OnBuffer, Pushes, Pops, BeginsA, FinishesA, Channels
  <2>6. \A p \in Pipes : OnPipe(s, m, k, n, p)
    BY <1>1, <1>2, <1>5, <2>3, <2>4 DEF OnPipe, BeginsA, FinishesA, Channels
  <2> QED BY <2>4, <2>5, <2>6 DEF Effect
<1>6. CASE x.op = "recv"
  <2>1. n = c
    BY <1>1, <1>6 DEF Prepare
  <2>2. \A d \in Dfbs : OnBuffer(s, m, k, n, d)
    BY <1>1, <1>2, <1>6, <2>1 DEF OnBuffer, Pushes, Pops, BeginsA, FinishesA, Channels
  <2>3. \A p \in Pipes : OnPipe(s, m, k, n, p)
    BY <1>1, <1>2, <1>6, <2>1 DEF OnPipe, BeginsA, FinishesA, Channels
  <2> QED BY <1>1, <2>1, <2>2, <2>3 DEF Effect
<1> QED BY <1>1, <1>3, <1>4, <1>5, <1>6 DEF BlockingOps

LEMMA CompleteEffect ==
  ASSUME NEW s, WellFormed(s), NEW m \in NetState, NEW k \in Kernels,
         m.pos[k] # 0, Finishes(s, m, k)
  PROVE  Effect(s, m, k, Complete(m.chan, CallAt(s, m, k), k))
<1> DEFINE x == CallAt(s, m, k)
           c == m.chan
<1> SUFFICES ASSUME NEW n, n = Complete(c, x, k)
             PROVE  Effect(s, m, k, n)
  OBVIOUS
<1>1. x \in Call /\ c \in Channels
  BY CallsOwnEnd DEF Finishes, Returns, CallAt, NetState, WellFormed
<1>2. Finishes(s, m, k) /\ ~Returns(s, m, k) /\ ~Begins(s, m, k)
  BY DEF Begins, Finishes
<1>3. CASE x.op = "reserve"
  <2>1. x.on \in Dfbs /\ n = [c EXCEPT !.reserved[x.on] = @ + 1, !.holdsR[x.on] = k]
    BY <1>1, <1>3 DEF Call, Complete
  <2>2. PICK f, g : /\ f = [c.reserved EXCEPT ![x.on] = @ + 1]
                    /\ g = [c.holdsR EXCEPT ![x.on] = k]
    OBVIOUS
  <2>3. /\ f \in [Dfbs -> Int]
        /\ g \in [Dfbs -> Party]
        /\ \A d \in Dfbs :
             /\ f[d] = IF d = x.on THEN c.reserved[d] + 1 ELSE c.reserved[d]
             /\ g[d] = IF d = x.on THEN k ELSE c.holdsR[d]
    BY <1>1, <2>1, <2>2 DEF Channels, Party
  <2>4. n \in Channels /\ n = [c EXCEPT !.reserved = f, !.holdsR = g]
    BY <1>1, <2>1, <2>2, <2>3 DEF Channels
  <2>5. \A d \in Dfbs : OnBuffer(s, m, k, n, d)
    BY <1>1, <1>2, <1>3, <2>3, <2>4
       DEF OnBuffer, Pushes, Pops, BeginsA, FinishesA, Channels
  <2>6. \A p \in Pipes : OnPipe(s, m, k, n, p)
    BY <1>1, <1>2, <1>3, <2>4 DEF OnPipe, BeginsA, FinishesA, Channels
  <2> QED BY <2>4, <2>5, <2>6 DEF Effect
<1>4. CASE x.op = "wait"
  <2>1. x.on \in Dfbs /\ n = [c EXCEPT !.holdsW[x.on] = k]
    BY <1>1, <1>4 DEF Call, Complete
  <2>2. PICK g : g = [c.holdsW EXCEPT ![x.on] = k]
    OBVIOUS
  <2>3. /\ g \in [Dfbs -> Party]
        /\ \A d \in Dfbs : g[d] = IF d = x.on THEN k ELSE c.holdsW[d]
    BY <1>1, <2>1, <2>2 DEF Channels, Party
  <2>4. n \in Channels /\ n = [c EXCEPT !.holdsW = g]
    BY <1>1, <2>1, <2>2, <2>3 DEF Channels
  <2>5. \A d \in Dfbs : OnBuffer(s, m, k, n, d)
    BY <1>1, <1>2, <1>4, <2>3, <2>4
       DEF OnBuffer, Pushes, Pops, BeginsA, FinishesA, Channels
  <2>6. \A p \in Pipes : OnPipe(s, m, k, n, p)
    BY <1>1, <1>2, <1>4, <2>4 DEF OnPipe, BeginsA, FinishesA, Channels
  <2> QED BY <2>4, <2>5, <2>6 DEF Effect
<1>5. CASE x.op = "recv"
  <2>1. x.on \in Pipes /\ n = [c EXCEPT !.got[x.on][k] = @ + 1]
    BY <1>1, <1>5 DEF Call, Complete
  <2>2. PICK f : f = [c.got EXCEPT ![x.on][k] = @ + 1]
    OBVIOUS
  <2>3. /\ f \in [Pipes -> [Kernels -> Int]]
        /\ \A p \in Pipes, j \in Kernels :
             f[p][j] = IF p = x.on /\ j = k THEN c.got[p][j] + 1 ELSE c.got[p][j]
    BY <1>1, <2>1, <2>2 DEF Channels
  <2>4. n \in Channels /\ n = [c EXCEPT !.got = f]
    BY <1>1, <2>1, <2>2, <2>3 DEF Channels
  <2>5. \A d \in Dfbs : OnBuffer(s, m, k, n, d)
    BY <1>1, <1>2, <1>5, <2>4 DEF OnBuffer, Pushes, Pops, BeginsA, FinishesA, Channels
  <2>6. \A p \in Pipes : OnPipe(s, m, k, n, p)
    BY <1>1, <1>2, <1>5, <2>3, <2>4 DEF OnPipe, BeginsA, FinishesA, Channels
  <2> QED BY <2>4, <2>5, <2>6 DEF Effect
<1>6. CASE x.op = "push"
  <2>1. x.on \in Dfbs /\ n = AutoPush(c, {x.on}, k)
    BY <1>1, <1>6 DEF Call, Complete
  <2>2. NoEnds(s, m, k)
    BY <1>2, <1>6 DEF NoEnds, BeginsA, FinishesA
  <2>3. \A d \in Dfbs : /\ ~Pops(s, m, k, d)
                        /\ Pushes(s, m, k, d) <=> d \in {x.on} /\ c.holdsR[d] = k
    BY <1>2, <1>6 DEF Pushes, Pops, BeginsA, FinishesA
  <2> QED BY <2>1, <2>2, <2>3, PushIsEffect
<1>7. CASE x.op = "pop"
  <2>1. x.on \in Dfbs /\ n = AutoPop(c, {x.on}, k)
    BY <1>1, <1>7 DEF Call, Complete
  <2>2. NoEnds(s, m, k)
    BY <1>2, <1>7 DEF NoEnds, BeginsA, FinishesA
  <2>3. \A d \in Dfbs : /\ ~Pushes(s, m, k, d)
                        /\ Pops(s, m, k, d) <=> d \in {x.on} /\ c.holdsW[d] = k
    BY <1>2, <1>7 DEF Pushes, Pops, BeginsA, FinishesA
  <2> QED BY <2>1, <2>2, <2>3, PopIsEffect
<1>8. CASE x.op = "send"
  <2>1. n = c
    BY <1>1, <1>8 DEF Complete
  <2>2. \A d \in Dfbs : OnBuffer(s, m, k, n, d)
    BY <1>1, <1>2, <1>8, <2>1 DEF OnBuffer, Pushes, Pops, BeginsA, FinishesA, Channels
  <2>3. \A p \in Pipes : OnPipe(s, m, k, n, p)
    BY <1>1, <1>2, <1>8, <2>1 DEF OnPipe, BeginsA, FinishesA, Channels
  <2> QED BY <1>1, <2>1, <2>2, <2>3 DEF Effect
<1> QED BY <1>1, <1>3, <1>4, <1>5, <1>6, <1>7, <1>8 DEF Call

LEMMA ReleaseEffect ==
  ASSUME NEW s, NEW m \in NetState, NEW k \in Kernels, Returns(s, m, k)
  PROVE  Effect(s, m, k, ReleaseAll(m.chan, k))
<1> DEFINE c == m.chan
<1>1. c \in Channels /\ ~Begins(s, m, k) /\ ~Finishes(s, m, k)
  BY DEF Begins, Finishes, NetState
<1>2. PICK h : h = AutoPush(c, Dfbs, k)
  OBVIOUS
<1> SUFFICES ASSUME NEW n, n = AutoPop(h, Dfbs, k)
             PROVE  Effect(s, m, k, n)
  BY <1>2 DEF ReleaseAll
<1>3. AfterPush(c, Dfbs, k, h)
  BY <1>1, <1>2, AutoPushEffect
<1>4. AfterPop(h, Dfbs, k, n)
  <2>1. h \in Channels
    BY <1>3 DEF AfterPush
  <2> QED BY <2>1, AutoPopEffect
<1>5. \A d \in Dfbs : OnBuffer(s, m, k, n, d)
  BY <1>1, <1>3, <1>4 DEF AfterPush, AfterPop, OnBuffer, Pushes, Pops, FinishesA, Channels
<1>6. \A p \in Pipes : OnPipe(s, m, k, n, p)
  BY <1>1, <1>3, <1>4 DEF AfterPush, AfterPop, OnPipe, BeginsA, FinishesA, Channels
<1> QED BY <1>4, <1>5, <1>6 DEF AfterPop, Effect

-----------------------------------------------------------------------------
(* n is the state of the network after a step of k from m.                 *)
StepsTo(s, m, k, n) ==
  /\ n \in NetState
  /\ n.pos = IF Finishes(s, m, k) THEN [m.pos EXCEPT ![k] = @ + 1] ELSE m.pos
  /\ n.begun = IF Begins(s, m, k) THEN [m.begun EXCEPT ![k] = TRUE]
               ELSE IF Finishes(s, m, k) THEN [m.begun EXCEPT ![k] = FALSE]
               ELSE m.begun
  /\ n.left = IF Returns(s, m, k) THEN m.left \ {k} ELSE m.left
  /\ Effect(s, m, k, n.chan)

LEMMA StepEffect ==
  ASSUME NEW s, WellFormed(s), NEW m \in NetState, NEW k \in Kernels, m.pos[k] # 0
  PROVE  StepsTo(s, m, k, NetStep(s, m, k))
<1> SUFFICES ASSUME NEW n, n = NetStep(s, m, k)
             PROVE  StepsTo(s, m, k, n)
  OBVIOUS
<1>1. CASE Returns(s, m, k)
  <2>1. PICK c : c = ReleaseAll(m.chan, k)
    OBVIOUS
  <2>2. Effect(s, m, k, c) /\ c \in Channels
    BY <1>1, <2>1, ReleaseEffect DEF Effect
  <2>3. n = [m EXCEPT !.chan = c, !.left = m.left \ {k}]
    BY <1>1, <2>1 DEF NetStep, Returns, NetState
  <2> QED BY <1>1, <2>2, <2>3 DEF StepsTo, NetState, Begins, Finishes
<1>2. CASE Begins(s, m, k)
  <2>1. PICK c, b : c = Prepare(m.chan, CallAt(s, m, k), k) /\ b = [m.begun EXCEPT ![k] = TRUE]
    OBVIOUS
  <2>2. Effect(s, m, k, c) /\ c \in Channels /\ b \in [Kernels -> BOOLEAN]
    BY <1>2, <2>1, PrepareEffect DEF Effect, NetState
  <2>3. n = [m EXCEPT !.chan = c, !.begun = b]
    BY <1>2, <2>1 DEF NetStep, Begins, Returns, CallAt, NetState
  <2> QED BY <1>2, <2>1, <2>2, <2>3 DEF StepsTo, NetState, Begins, Finishes
<1>3. CASE Finishes(s, m, k)
  <2>1. PICK c, b, p : /\ c = Complete(m.chan, CallAt(s, m, k), k)
                       /\ b = [m.begun EXCEPT ![k] = FALSE]
                       /\ p = [m.pos EXCEPT ![k] = @ + 1]
    OBVIOUS
  <2>2. /\ Effect(s, m, k, c) /\ c \in Channels
        /\ b \in [Kernels -> BOOLEAN] /\ p \in [Kernels -> Nat]
    BY <1>3, <2>1, CompleteEffect DEF Effect, NetState
  <2>3. n = [m EXCEPT !.chan = c, !.pos = p, !.begun = b]
    BY <1>3, <2>1 DEF NetStep, Finishes, Begins, Returns, CallAt, NetState
  <2> QED BY <1>3, <2>1, <2>2, <2>3 DEF StepsTo, NetState, Finishes
<1> QED BY <1>1, <1>2, <1>3 DEF Finishes

-----------------------------------------------------------------------------
(* Every kernel is within its script, and holds blocks of its own ends.    *)
NetOK(s, m) ==
  /\ m \in NetState
  /\ \A k \in Kernels : m.pos[k] \in 1 .. Len(s[k]) + 1
  /\ \A d \in Dfbs : /\ m.chan.holdsR[d] \in {NoKernel, Producer(s, d)}
                     /\ m.chan.holdsW[d] \in {NoKernel, Consumer(s, d)}

(* m and n agree on what belongs to x.                                     *)
SameKernel(x, m, n) ==
  /\ m.pos[x] = n.pos[x]
  /\ m.begun[x] = n.begun[x]
  /\ x \in m.left <=> x \in n.left
  /\ \A p \in Pipes : m.chan.got[p][x] = n.chan.got[p][x]

SameIn(c, e, d) ==
  Pushed(c, d) = Pushed(e, d) /\ c.reserved[d] = e.reserved[d] /\ c.holdsR[d] = e.holdsR[d]

SameOut(c, e, d) == c.popped[d] = e.popped[d] /\ c.holdsW[d] = e.holdsW[d]

SameFor(s, x, m, n) ==
  /\ x \in Kernels => SameKernel(x, m, n)
  /\ \A d \in Dfbs : /\ Producer(s, d) = x => SameIn(m.chan, n.chan, d)
                     /\ Consumer(s, d) = x => SameOut(m.chan, n.chan, d)
  /\ \A p \in Pipes : Sender(s, p) = x => m.chan.sent[p] = n.chan.sent[p]

(* In n at least as much has passed through buffers and pipes as in m.     *)
Ahead(m, n) ==
  /\ \A d \in Dfbs : /\ Pushed(m.chan, d) <= Pushed(n.chan, d)
                     /\ m.chan.popped[d] <= n.chan.popped[d]
  /\ \A p \in Pipes : m.chan.sent[p] <= n.chan.sent[p]

(* What k pushes, pops and sends in a step is at its own ends.             *)
LEMMA StepOwnsEnds ==
  ASSUME NEW s, WellFormed(s), NEW m, NetOK(s, m), NEW k \in Kernels
  PROVE  /\ \A d \in Dfbs :
              /\ Pushes(s, m, k, d) => Producer(s, d) = k
              /\ FinishesA(s, m, k, "reserve", d) => Producer(s, d) = k
              /\ Pops(s, m, k, d) => Consumer(s, d) = k
              /\ FinishesA(s, m, k, "wait", d) => Consumer(s, d) = k
         /\ \A p \in Pipes : BeginsA(s, m, k, "send", p) => Sender(s, p) = k
<1>1. k # NoKernel
  BY KernelsAssumption
<1>2. ~Returns(s, m, k) => m.pos[k] \in 1 .. Len(s[k])
  BY DEF Returns, NetOK, WellFormed
<1>3. ASSUME NEW d \in Dfbs
      PROVE  /\ Pushes(s, m, k, d) => Producer(s, d) = k
             /\ Pops(s, m, k, d) => Consumer(s, d) = k
  BY <1>1 DEF Pushes, Pops, NetOK
<1>4. ASSUME NEW d
      PROVE  /\ FinishesA(s, m, k, "reserve", d) => Producer(s, d) = k
             /\ FinishesA(s, m, k, "wait", d) => Consumer(s, d) = k
             /\ BeginsA(s, m, k, "send", d) => Sender(s, d) = k
  BY <1>2, CallsOwnEnd DEF FinishesA, Finishes, BeginsA, Begins, CallAt
<1> QED BY <1>3, <1>4

LEMMA StepKeepsOK ==
  ASSUME NEW s, WellFormed(s), NEW m, NetOK(s, m), NEW k \in Kernels,
         NEW n, StepsTo(s, m, k, n)
  PROVE  NetOK(s, n)
<1>1. n \in NetState
  BY DEF StepsTo
<1>2. ASSUME NEW j \in Kernels
      PROVE  n.pos[j] \in 1 .. Len(s[j]) + 1
  <2>1. m.pos[j] \in 1 .. Len(s[j]) + 1 /\ m.pos \in [Kernels -> Nat] /\ Len(s[j]) \in Nat
    BY DEF NetOK, NetState, WellFormed
  <2>2. n.pos[j] = IF j = k /\ Finishes(s, m, k) THEN m.pos[j] + 1 ELSE m.pos[j]
    BY <2>1 DEF StepsTo
  <2> QED BY <2>1, <2>2 DEF Finishes, Returns
<1>3. ASSUME NEW d \in Dfbs
      PROVE  /\ n.chan.holdsR[d] \in {NoKernel, Producer(s, d)}
             /\ n.chan.holdsW[d] \in {NoKernel, Consumer(s, d)}
  BY StepOwnsEnds DEF StepsTo, Effect, OnBuffer, NetOK
<1> QED BY <1>1, <1>2, <1>3 DEF NetOK

(* A step of k changes nothing that belongs to another.                    *)
LEMMA StepIsLocal ==
  ASSUME NEW s, WellFormed(s), NEW m, NetOK(s, m), NEW k \in Kernels,
         NEW n, StepsTo(s, m, k, n), NEW x \in Party \ {k}
  PROVE  SameFor(s, x, m, n)
<1>1. m.chan \in Channels /\ n.chan \in Channels /\ m \in NetState /\ n \in NetState
  BY DEF NetOK, StepsTo, NetState
<1>2. ASSUME x \in Kernels
      PROVE  SameKernel(x, m, n)
  <2>1. \A p \in Pipes : m.chan.got[p][x] = n.chan.got[p][x]
    BY <1>1, <1>2 DEF StepsTo, Effect, OnPipe, Channels
  <2> QED BY <1>1, <1>2, <2>1 DEF StepsTo, SameKernel, NetState
<1>3. ASSUME NEW d \in Dfbs, Producer(s, d) = x
      PROVE  SameIn(m.chan, n.chan, d)
  <2>1. ~Pushes(s, m, k, d) /\ ~FinishesA(s, m, k, "reserve", d)
    BY <1>3, StepOwnsEnds
  <2>2. OnBuffer(s, m, k, n.chan, d)
    BY DEF StepsTo, Effect
  <2> QED BY <1>1, <2>1, <2>2 DEF OnBuffer, SameIn, Pushed, Channels
<1>4. ASSUME NEW d \in Dfbs, Consumer(s, d) = x
      PROVE  SameOut(m.chan, n.chan, d)
  <2>1. ~Pops(s, m, k, d) /\ ~FinishesA(s, m, k, "wait", d)
    BY <1>4, StepOwnsEnds
  <2>2. OnBuffer(s, m, k, n.chan, d)
    BY DEF StepsTo, Effect
  <2> QED BY <1>1, <2>1, <2>2 DEF OnBuffer, SameOut, Channels
<1>5. ASSUME NEW p \in Pipes, Sender(s, p) = x
      PROVE  m.chan.sent[p] = n.chan.sent[p]
  <2>1. ~BeginsA(s, m, k, "send", p)
    BY <1>5, StepOwnsEnds
  <2>2. OnPipe(s, m, k, n.chan, p)
    BY DEF StepsTo, Effect
  <2> QED BY <1>1, <2>1, <2>2 DEF OnPipe, Channels
<1> QED BY <1>2, <1>3, <1>4, <1>5 DEF SameFor

LEMMA StepGrows ==
  ASSUME NEW s, NEW m \in NetState, NEW k \in Kernels, NEW n, StepsTo(s, m, k, n)
  PROVE  Ahead(m, n)
<1>1. m.chan \in Channels /\ n.chan \in Channels
  BY DEF StepsTo, NetState
<1>2. ASSUME NEW d \in Dfbs
      PROVE  /\ Pushed(m.chan, d) <= Pushed(n.chan, d)
             /\ m.chan.popped[d] <= n.chan.popped[d]
  <2>1. OnBuffer(s, m, k, n.chan, d)
    BY DEF StepsTo, Effect
  <2> QED BY <1>1, <2>1 DEF OnBuffer, Pushed, Channels
<1>3. ASSUME NEW p \in Pipes
      PROVE  m.chan.sent[p] <= n.chan.sent[p]
  <2>1. OnPipe(s, m, k, n.chan, p)
    BY DEF StepsTo, Effect
  <2> QED BY <1>1, <2>1 DEF OnPipe, Channels
<1> QED BY <1>2, <1>3 DEF Ahead

(* Which step k takes is decided by what belongs to k.                     *)
LEMMA SameStep ==
  ASSUME NEW s, WellFormed(s), NEW k \in Kernels,
         NEW m, NetOK(s, m), NEW n, NetOK(s, n), SameFor(s, k, m, n)
  PROVE  /\ Returns(s, m, k) <=> Returns(s, n, k)
         /\ Begins(s, m, k) <=> Begins(s, n, k)
         /\ Finishes(s, m, k) <=> Finishes(s, n, k)
         /\ \A op, e : /\ BeginsA(s, m, k, op, e) <=> BeginsA(s, n, k, op, e)
                       /\ FinishesA(s, m, k, op, e) <=> FinishesA(s, n, k, op, e)
         /\ \A d \in Dfbs :
              /\ Producer(s, d) = k => (Pushes(s, m, k, d) <=> Pushes(s, n, k, d))
              /\ Consumer(s, d) = k => (Pops(s, m, k, d) <=> Pops(s, n, k, d))
<1>1. m.pos[k] = n.pos[k] /\ m.begun[k] = n.begun[k]
  BY DEF SameFor, SameKernel
<1>2. /\ Returns(s, m, k) <=> Returns(s, n, k)
      /\ CallAt(s, m, k) = CallAt(s, n, k)
  BY <1>1 DEF Returns, CallAt
<1>3. /\ Begins(s, m, k) <=> Begins(s, n, k)
      /\ Finishes(s, m, k) <=> Finishes(s, n, k)
  BY <1>1, <1>2 DEF Begins, Finishes
<1>4. ASSUME NEW op, NEW e
      PROVE  /\ BeginsA(s, m, k, op, e) <=> BeginsA(s, n, k, op, e)
             /\ FinishesA(s, m, k, op, e) <=> FinishesA(s, n, k, op, e)
  BY <1>2, <1>3 DEF BeginsA, FinishesA
<1>5. ASSUME NEW d \in Dfbs
      PROVE  /\ Producer(s, d) = k => (Pushes(s, m, k, d) <=> Pushes(s, n, k, d))
             /\ Consumer(s, d) = k => (Pops(s, m, k, d) <=> Pops(s, n, k, d))
  BY <1>2, <1>4 DEF Pushes, Pops, SameFor, SameIn, SameOut
<1> QED BY <1>2, <1>3, <1>4, <1>5

LEMMA PushedStep ==
  ASSUME NEW s, NEW m, m.chan \in Channels, NEW k, NEW c \in Channels,
         NEW d \in Dfbs, OnBuffer(s, m, k, c, d)
  PROVE  Pushed(c, d) = Pushed(m.chan, d) + (IF Pushes(s, m, k, d) THEN 1 ELSE 0)
<1> PICK v, w, p, q : /\ v = m.chan.visible[d] /\ w = m.chan.popped[d]
                      /\ p = c.visible[d] /\ q = c.popped[d]
  OBVIOUS
<1>1. v \in Int /\ w \in Int /\ p \in Int /\ q \in Int
  BY DEF Channels
<1> QED BY <1>1 DEF OnBuffer, Pushed

(* And so is what it does to it.                                           *)
LEMMA StepIsDetermined ==
  ASSUME NEW s, WellFormed(s), NEW k \in Kernels,
         NEW m, NetOK(s, m), NEW n, NetOK(s, n), SameFor(s, k, m, n),
         NEW m2, StepsTo(s, m, k, m2), NEW n2, StepsTo(s, n, k, n2)
  PROVE  SameFor(s, k, m2, n2)
<1>1. /\ m.chan \in Channels /\ n.chan \in Channels /\ m \in NetState /\ n \in NetState
      /\ m2.chan \in Channels /\ n2.chan \in Channels /\ m2 \in NetState /\ n2 \in NetState
  BY DEF NetOK, StepsTo, NetState
<1>2. SameKernel(k, m, n)
  BY DEF SameFor
<1>3. SameKernel(k, m2, n2)
  <2>1. m2.pos[k] = n2.pos[k]
    BY <1>1, <1>2, SameStep DEF StepsTo, SameKernel, NetState
  <2>2. m2.begun[k] = n2.begun[k]
    <3>1. /\ Begins(s, m, k) <=> Begins(s, n, k)
          /\ Finishes(s, m, k) <=> Finishes(s, n, k)
      BY SameStep
    <3>2. CASE Begins(s, m, k)
      <4>1. /\ m2.begun = [m.begun EXCEPT ![k] = TRUE]
            /\ n2.begun = [n.begun EXCEPT ![k] = TRUE]
        BY <3>1, <3>2 DEF StepsTo
      <4> QED BY <1>1, <4>1 DEF NetState
    <3>3. CASE ~Begins(s, m, k) /\ Finishes(s, m, k)
      BY <1>1, <3>1, <3>3 DEF StepsTo, NetState
    <3>4. CASE ~Begins(s, m, k) /\ ~Finishes(s, m, k)
      <4>1. m2.begun = m.begun /\ n2.begun = n.begun
        BY <3>1, <3>4 DEF StepsTo
      <4> QED BY <1>2, <4>1 DEF SameKernel
    <3> QED BY <3>2, <3>3, <3>4
  <2>3. k \in m2.left <=> k \in n2.left
    BY <1>1, <1>2, SameStep DEF StepsTo, SameKernel, NetState
  <2>4. ASSUME NEW p \in Pipes
        PROVE  m2.chan.got[p][k] = n2.chan.got[p][k]
    <3>1. OnPipe(s, m, k, m2.chan, p) /\ OnPipe(s, n, k, n2.chan, p)
      BY DEF StepsTo, Effect
    <3>2. FinishesA(s, m, k, "recv", p) <=> FinishesA(s, n, k, "recv", p)
      BY SameStep
    <3> QED BY <1>1, <1>2, <3>1, <3>2 DEF OnPipe, SameKernel, Channels
  <2> QED BY <2>1, <2>2, <2>3, <2>4 DEF SameKernel
<1>4. ASSUME NEW d \in Dfbs, Producer(s, d) = k
      PROVE  SameIn(m2.chan, n2.chan, d)
  <2>1. OnBuffer(s, m, k, m2.chan, d) /\ OnBuffer(s, n, k, n2.chan, d)
    BY DEF StepsTo, Effect
  <2>2. /\ Pushes(s, m, k, d) <=> Pushes(s, n, k, d)
        /\ FinishesA(s, m, k, "reserve", d) <=> FinishesA(s, n, k, "reserve", d)
    BY <1>4, SameStep
  <2>3. SameIn(m.chan, n.chan, d)
    BY <1>4 DEF SameFor
  <2>4. /\ Pushed(m2.chan, d) = Pushed(m.chan, d) + (IF Pushes(s, m, k, d) THEN 1 ELSE 0)
        /\ Pushed(n2.chan, d) = Pushed(n.chan, d) + (IF Pushes(s, n, k, d) THEN 1 ELSE 0)
    BY <2>1, PushedStep, <1>1
  <2>5. m2.chan.reserved[d] = n2.chan.reserved[d] /\ m2.chan.holdsR[d] = n2.chan.holdsR[d]
    BY <1>1, <2>1, <2>2, <2>3 DEF OnBuffer, SameIn, Channels
  <2> QED BY <2>2, <2>3, <2>4, <2>5 DEF SameIn
<1>5. ASSUME NEW d \in Dfbs, Consumer(s, d) = k
      PROVE  SameOut(m2.chan, n2.chan, d)
  <2>1. OnBuffer(s, m, k, m2.chan, d) /\ OnBuffer(s, n, k, n2.chan, d)
    BY DEF StepsTo, Effect
  <2>2. /\ Pops(s, m, k, d) <=> Pops(s, n, k, d)
        /\ FinishesA(s, m, k, "wait", d) <=> FinishesA(s, n, k, "wait", d)
    BY <1>5, SameStep
  <2>3. SameOut(m.chan, n.chan, d)
    BY <1>5 DEF SameFor
  <2> QED BY <1>1, <2>1, <2>2, <2>3 DEF OnBuffer, SameOut, Channels
<1>6. ASSUME NEW p \in Pipes, Sender(s, p) = k
      PROVE  m2.chan.sent[p] = n2.chan.sent[p]
  <2>1. OnPipe(s, m, k, m2.chan, p) /\ OnPipe(s, n, k, n2.chan, p)
    BY DEF StepsTo, Effect
  <2>2. BeginsA(s, m, k, "send", p) <=> BeginsA(s, n, k, "send", p)
    BY SameStep
  <2>3. m.chan.sent[p] = n.chan.sent[p]
    BY <1>6 DEF SameFor
  <2> QED BY <1>1, <2>1, <2>2, <2>3 DEF OnPipe, Channels
<1> QED BY <1>3, <1>4, <1>5, <1>6 DEF SameFor

(* What the others do only makes a step possible.                          *)
LEMMA CanStays ==
  ASSUME NEW s, WellFormed(s), NEW k \in Kernels,
         NEW m, NetOK(s, m), NEW n, NetOK(s, n), SameFor(s, k, m, n), Ahead(m, n)
  PROVE  /\ NetCan(s, m, k) => NetCan(s, n, k)
         /\ ~Returns(s, m, k) /\ Can(m.chan, CallAt(s, m, k), k)
              => Can(n.chan, CallAt(s, n, k), k)
<1> DEFINE x == CallAt(s, m, k)
<1>1. m.chan \in Channels /\ n.chan \in Channels
  BY DEF NetOK, NetState
<1>2. SameKernel(k, m, n)
  BY DEF SameFor
<1>3. x = CallAt(s, n, k) /\ (Returns(s, m, k) <=> Returns(s, n, k))
  BY <1>2 DEF CallAt, Returns, SameKernel
<1>4. ASSUME ~Returns(s, m, k), Can(m.chan, x, k)
      PROVE  Can(n.chan, x, k)
  <2>1. m.pos[k] \in 1 .. Len(s[k])
    BY <1>4 DEF Returns, NetOK, WellFormed
  <2>2. /\ x \in Call
        /\ x.op \in {"reserve", "push"} => Producer(s, x.on) = k
        /\ x.op \in {"wait", "pop"} => Consumer(s, x.on) = k
    BY <2>1, CallsOwnEnd DEF CallAt
  <2>3. CASE x.op = "reserve"
    <3>1. x.on \in Dfbs /\ SameIn(m.chan, n.chan, x.on) /\ Cap[x.on] \in Nat
      BY <2>2, <2>3, CapAssumption DEF Call, SameFor
    <3>2. m.chan.popped[x.on] <= n.chan.popped[x.on]
      BY <3>1 DEF Ahead
    <3> QED BY <1>1, <1>4, <2>3, <3>1, <3>2 DEF Can, SameIn, Pushed, Channels
  <2>4. CASE x.op = "wait"
    <3>1. x.on \in Dfbs /\ SameOut(m.chan, n.chan, x.on)
      BY <2>2, <2>4 DEF Call, SameFor
    <3>2. Pushed(m.chan, x.on) <= Pushed(n.chan, x.on)
      BY <3>1 DEF Ahead
    <3> QED BY <1>1, <1>4, <2>4, <3>1, <3>2 DEF Can, SameOut, Pushed, Channels
  <2>5. CASE x.op = "recv"
    <3>1. x.on \in Pipes /\ m.chan.got[x.on][k] = n.chan.got[x.on][k]
      BY <1>2, <2>2, <2>5 DEF Call, SameKernel
    <3>2. m.chan.sent[x.on] <= n.chan.sent[x.on]
      BY <3>1 DEF Ahead
    <3> QED BY <1>1, <1>4, <2>5, <3>1, <3>2 DEF Can, Channels
  <2>6. CASE x.op \notin {"reserve", "wait", "recv"}
    BY <2>6 DEF Can
  <2> QED BY <2>3, <2>4, <2>5, <2>6
<1>5. ASSUME NetCan(s, m, k)
      PROVE  NetCan(s, n, k)
  BY <1>2, <1>3, <1>4, <1>5 DEF NetCan, SameKernel, Returns, CallAt
<1> QED BY <1>3, <1>4, <1>5

-----------------------------------------------------------------------------
(* The start.                                                              *)
LEMMA StartOK ==
  ASSUME NEW s, WellFormed(s)
  PROVE  NetOK(s, NetStart)
<1>1. NetStart.chan \in Channels
  BY DEF NetStart, EmptyChannels, Channels, Party
<1>2. NetStart \in NetState
  BY <1>1 DEF NetStart, NetState
<1>3. \A k \in Kernels : NetStart.pos[k] \in 1 .. Len(s[k]) + 1
  BY DEF NetStart, WellFormed
<1>4. \A d \in Dfbs : NetStart.chan.holdsR[d] = NoKernel /\ NetStart.chan.holdsW[d] = NoKernel
  BY DEF NetStart, EmptyChannels
<1> QED BY <1>2, <1>3, <1>4 DEF NetOK

LEMMA SameForIsEquivalence ==
  ASSUME NEW s, NEW x, NEW m, NEW n, NEW h
  PROVE  /\ SameFor(s, x, m, m)
         /\ SameFor(s, x, m, n) => SameFor(s, x, n, m)
         /\ SameFor(s, x, m, n) /\ SameFor(s, x, n, h) => SameFor(s, x, m, h)
<1>1. SameFor(s, x, m, m)
  BY DEF SameFor, SameKernel, SameIn, SameOut
<1>2. ASSUME SameFor(s, x, m, n)
      PROVE  SameFor(s, x, n, m)
  BY <1>2 DEF SameFor, SameKernel, SameIn, SameOut
<1>3. ASSUME SameFor(s, x, m, n), SameFor(s, x, n, h)
      PROVE  SameFor(s, x, m, h)
  BY <1>3 DEF SameFor, SameKernel, SameIn, SameOut
<1> QED BY <1>1, <1>2, <1>3

LEMMA AheadIsPreorder ==
  ASSUME NEW m \in NetState, NEW n \in NetState, NEW h \in NetState
  PROVE  /\ Ahead(m, m)
         /\ Ahead(m, n) /\ Ahead(n, h) => Ahead(m, h)
<1>1. m.chan \in Channels /\ n.chan \in Channels /\ h.chan \in Channels
  BY DEF NetState
<1>2. ASSUME NEW d \in Dfbs
      PROVE  /\ Pushed(m.chan, d) \in Int /\ Pushed(n.chan, d) \in Int
             /\ Pushed(h.chan, d) \in Int
             /\ m.chan.popped[d] \in Int /\ n.chan.popped[d] \in Int
             /\ h.chan.popped[d] \in Int
  BY <1>1 DEF Pushed, Channels
<1>3. ASSUME NEW p \in Pipes
      PROVE  m.chan.sent[p] \in Int /\ n.chan.sent[p] \in Int /\ h.chan.sent[p] \in Int
  BY <1>1 DEF Channels
<1> QED BY <1>2, <1>3 DEF Ahead

(* The owner of an end is a kernel or nobody.                              *)
LEMMA OwnersAreParties ==
  ASSUME NEW s, NEW e
  PROVE  /\ Producer(s, e) \in Party
         /\ Consumer(s, e) \in Party
         /\ Sender(s, e) \in Party
<1>1. ASSUME NEW ops
      PROVE  Owner(s, e, ops) \in Party
  BY DEF Owner, Party
<1> QED BY <1>1 DEF Producer, Consumer, Sender

(* Two states that agree on what belongs to everyone are the same.         *)
LEMMA SameForAll ==
  ASSUME NEW s, NEW m \in NetState, NEW n \in NetState,
         \A x \in Party : SameFor(s, x, m, n)
  PROVE  m.pos = n.pos /\ m.begun = n.begun /\ m.left = n.left /\ m.chan = n.chan
<1>1. m.chan \in Channels /\ n.chan \in Channels
  BY DEF NetState
<1>2. \A k \in Kernels : SameKernel(k, m, n)
  BY DEF SameFor, Party
<1>3. m.pos = n.pos /\ m.begun = n.begun /\ m.left = n.left
  BY <1>2 DEF SameKernel, NetState
<1>4. ASSUME NEW d \in Dfbs
      PROVE  SameIn(m.chan, n.chan, d) /\ SameOut(m.chan, n.chan, d)
  BY OwnersAreParties DEF SameFor
<1>5. ASSUME NEW p \in Pipes
      PROVE  m.chan.sent[p] = n.chan.sent[p]
  BY OwnersAreParties DEF SameFor
<1>6. ASSUME NEW p \in Pipes, NEW k \in Kernels
      PROVE  m.chan.got[p][k] = n.chan.got[p][k]
  BY <1>2 DEF SameKernel
<1>7. ASSUME NEW d \in Dfbs
      PROVE  m.chan.visible[d] = n.chan.visible[d]
  <2>1. /\ m.chan.visible[d] \in Int /\ m.chan.popped[d] \in Int
        /\ n.chan.visible[d] \in Int /\ n.chan.popped[d] \in Int
    BY <1>1 DEF Channels
  <2> QED BY <1>4, <2>1 DEF SameIn, SameOut, Pushed
<1>8. \A p \in Pipes : m.chan.got[p] = n.chan.got[p]
  BY <1>1, <1>6 DEF Channels
<1>9. /\ m.chan.visible = n.chan.visible /\ m.chan.reserved = n.chan.reserved
      /\ m.chan.popped = n.chan.popped /\ m.chan.holdsR = n.chan.holdsR
      /\ m.chan.holdsW = n.chan.holdsW /\ m.chan.sent = n.chan.sent
      /\ m.chan.got = n.chan.got
  BY <1>1, <1>4, <1>5, <1>7, <1>8 DEF SameIn, SameOut, Channels
<1> QED BY <1>1, <1>3, <1>9 DEF Channels

-----------------------------------------------------------------------------
(* The least and, below a bound, the greatest of a set of numbers.         *)
LEMMA NatMin ==
  ASSUME NEW T \in SUBSET Nat, T # {}
  PROVE  \E m \in T : \A k \in T : m <= k
<1> DEFINE R == StrictSubsetOrdering(Nat)
           Below == {0 .. n : n \in T}
<1>1. IsWellFoundedOn(R, FiniteSubsetsOf(Nat))
  BY FS_StrictSubsetOrderingWellFounded
<1>2. Below \subseteq FiniteSubsetsOf(Nat)
  <2> SUFFICES ASSUME NEW n \in T PROVE 0 .. n \in FiniteSubsetsOf(Nat)
    OBVIOUS
  <2>1. IsFiniteSet(0 .. n)
    BY FS_Interval
  <2> QED
    BY <2>1 DEF FiniteSubsetsOf
<1>3. Below # {}
  OBVIOUS
<1>4. PICK x \in Below : \A y \in Below : <<y, x>> \notin R
  <2> HIDE DEF R, Below
  <2> QED BY <1>1, <1>2, <1>3, WFMin
<1>5. PICK m \in T : x = 0 .. m
  OBVIOUS
<1>6. ASSUME NEW k \in T PROVE m <= k
  <2> SUFFICES ASSUME k < m PROVE FALSE
    OBVIOUS
  <2>1. 0 .. k \in SUBSET Nat /\ 0 .. m \in SUBSET Nat
    OBVIOUS
  <2>2. 0 .. k \subseteq 0 .. m /\ 0 .. k # 0 .. m
    <3>1. m \in 0 .. m /\ m \notin 0 .. k
      OBVIOUS
    <3> QED BY <3>1
  <2>3. <<0 .. k, 0 .. m>> \in R
    BY <2>1, <2>2 DEF StrictSubsetOrdering
  <2> QED BY <1>4, <1>5, <2>3
<1> QED BY <1>6

LEMMA NatMax ==
  ASSUME NEW N \in Nat, NEW T \in SUBSET (0 .. N), T # {}
  PROVE  \E m \in T : \A k \in T : k <= m
<1> DEFINE U == {N - i : i \in T}
<1>1. U \in SUBSET Nat /\ U # {}
  <2>1. \A i \in T : N - i \in Nat
    OBVIOUS
  <2> QED BY <2>1
<1>2. PICK u \in U : \A v \in U : u <= v
  <2> HIDE DEF U
  <2> QED BY <1>1, NatMin
<1>3. PICK m \in T : u = N - m
  OBVIOUS
<1>4. ASSUME NEW k \in T PROVE k <= m
  BY <1>2, <1>3
<1> QED BY <1>4

-----------------------------------------------------------------------------
(* The execution NetTrace(s) exists: it is defined by what comes before.   *)
LEMMA TraceIsDefined ==
  ASSUME NEW s
  PROVE  NetTrace(s) =
           [n \in Nat |-> IF n = 0 THEN NetStart ELSE NetAdvance(s, NetTrace(s)[n - 1])]
<1> DEFINE From(f, n) == IF n = 0 THEN NetStart ELSE NetAdvance(s, f[n - 1])
           Part(n, f) == f = [i \in 0 .. n |-> From(f, i)]
<1>1. \A n \in Nat : \E f : Part(n, f)
  <2> DEFINE T == {n \in Nat : ~ \E f : Part(n, f)}
  <2> SUFFICES ASSUME T # {} PROVE FALSE
    OBVIOUS
  <2>1. PICK n \in T : \A i \in T : n <= i
    <3>1. T \in SUBSET Nat
      OBVIOUS
    <3> HIDE DEF T
    <3> QED BY <3>1, NatMin
  <2>2. CASE n = 0
    <3> DEFINE f == [i \in 0 .. 0 |-> NetStart]
    <3>1. Part(0, f)
      OBVIOUS
    <3> QED BY <2>2, <3>1
  <2>3. CASE n # 0
    <3>1. n \in Nat /\ n - 1 \in Nat
      BY <2>3
    <3>2. PICK f : Part(n - 1, f)
      BY <2>1, <3>1
    <3> DEFINE g == [i \in 0 .. n |-> From(f, i)]
    <3>3. ASSUME NEW i \in 0 .. n - 1
          PROVE  f[i] = g[i]
      BY <3>1, <3>2
    <3>4. ASSUME NEW i \in 0 .. n
          PROVE  From(f, i) = From(g, i)
      <4>1. CASE i = 0
        BY <4>1
      <4>2. CASE i # 0
        <5>1. i - 1 \in 0 .. n - 1
          BY <3>1, <4>2
        <5> QED BY <3>3, <4>2, <5>1
      <4> QED BY <4>1, <4>2
    <3>5. Part(n, g)
      BY <3>4
    <3> HIDE DEF g
    <3> QED BY <3>5
  <2> QED BY <2>2, <2>3
<1>2. ASSUME NEW n \in Nat, NEW h \in Nat, NEW f, NEW g, Part(n, f), Part(h, g),
             NEW j \in Nat, j <= n, j <= h
      PROVE  f[j] = g[j]
  <2> DEFINE T == {i \in Nat : i <= n /\ i <= h /\ f[i] # g[i]}
  <2> SUFFICES ASSUME T # {} PROVE FALSE
    BY <1>2
  <2>1. PICK m \in T : \A i \in T : m <= i
    <3>1. T \in SUBSET Nat
      OBVIOUS
    <3> HIDE DEF T
    <3> QED BY <3>1, NatMin
  <2>2. f[m] = From(f, m) /\ g[m] = From(g, m)
    <3>1. m \in 0 .. n /\ m \in 0 .. h
      OBVIOUS
    <3> HIDE DEF T, From
    <3> QED BY <1>2, <3>1
  <2>3. CASE m = 0
    BY <2>2, <2>3
  <2>4. CASE m # 0
    <3>1. m - 1 \in Nat /\ m - 1 <= n /\ m - 1 <= h /\ m - 1 < m
      BY <2>4
    <3>2. f[m - 1] = g[m - 1]
      BY <2>1, <3>1
    <3> QED BY <2>2, <2>4, <3>2
  <2> QED BY <2>3, <2>4
<1> DEFINE Longest(n) == CHOOSE f : Part(n, f)
           t == [n \in Nat |-> Longest(n)[n]]
<1>3. ASSUME NEW n \in Nat
      PROVE  Part(n, Longest(n))
  <2> HIDE DEF Part
  <2> QED BY <1>1
<1>4. ASSUME NEW n \in Nat
      PROVE  t[n] = From(t, n)
  <2>1. t[n] = Longest(n)[n]
    OBVIOUS
  <2>2. Longest(n)[n] = From(Longest(n), n)
    <3>1. n \in 0 .. n
      OBVIOUS
    <3> HIDE DEF Longest, From
    <3> QED BY <1>3, <3>1
  <2>3. CASE n = 0
    BY <2>1, <2>2, <2>3
  <2>4. CASE n # 0
    <3>1. n - 1 \in Nat /\ n - 1 <= n
      BY <2>4
    <3>2. Longest(n)[n - 1] = Longest(n - 1)[n - 1]
      <4> HIDE DEF Longest, Part
      <4> QED BY <1>2, <1>3, <3>1
    <3>3. t[n - 1] = Longest(n - 1)[n - 1]
      BY <3>1
    <3> HIDE DEF Longest, t
    <3> QED BY <2>1, <2>2, <2>4, <3>2, <3>3
  <2> QED BY <2>3, <2>4
<1>5. t = [n \in Nat |-> From(t, n)]
  <2>1. t = [n \in Nat |-> t[n]]
    OBVIOUS
  <2> HIDE DEF t, From
  <2> QED BY <1>4, <2>1
<1>6. \E f : f = [n \in Nat |-> IF n = 0 THEN NetStart ELSE NetAdvance(s, f[n - 1])]
  <2> HIDE DEF t
  <2> QED BY <1>5
<1> QED BY <1>6 DEF NetTrace

(* Each of its steps is a step of some kernel, until the program is quiet. *)
LEMMA TraceSteps ==
  ASSUME NEW s, WellFormed(s)
  PROVE  /\ NetTrace(s)[0] = NetStart
         /\ \A n \in Nat :
              /\ NetOK(s, NetTrace(s)[n])
              /\ Quiet(s, NetTrace(s)[n]) => NetTrace(s)[n + 1] = NetTrace(s)[n]
              /\ ~Quiet(s, NetTrace(s)[n]) =>
                   \E k \in Kernels : /\ NetCan(s, NetTrace(s)[n], k)
                                      /\ StepsTo(s, NetTrace(s)[n], k, NetTrace(s)[n + 1])
<1>1. PICK t : t = NetTrace(s)
  OBVIOUS
<1>2. t = [n \in Nat |-> IF n = 0 THEN NetStart ELSE NetAdvance(s, t[n - 1])]
  BY <1>1, TraceIsDefined
<1>3. t[0] = NetStart /\ \A n \in Nat : t[n + 1] = NetAdvance(s, t[n])
  <2>1. \A n \in Nat : n + 1 \in Nat /\ n + 1 # 0 /\ (n + 1) - 1 = n
    OBVIOUS
  <2>2. t[0] = NetStart
    BY <1>2
  <2>3. ASSUME NEW n \in Nat
        PROVE  t[n + 1] = NetAdvance(s, t[n])
    BY <1>2, <2>1
  <2> QED BY <2>2, <2>3
<1>4. ASSUME NEW n \in Nat, NetOK(s, t[n])
      PROVE  /\ Quiet(s, t[n]) => t[n + 1] = t[n]
             /\ ~Quiet(s, t[n]) =>
                  \E k \in Kernels : NetCan(s, t[n], k) /\ StepsTo(s, t[n], k, t[n + 1])
  <2>1. CASE Quiet(s, t[n])
    BY <1>3, <2>1 DEF NetAdvance
  <2>2. CASE ~Quiet(s, t[n])
    <3>1. PICK k \in Kernels : /\ NetCan(s, t[n], k)
                               /\ NetAdvance(s, t[n]) = NetStep(s, t[n], k)
      BY <2>2 DEF NetAdvance, Quiet
    <3>2. t[n] \in NetState /\ t[n].pos[k] # 0
      BY <1>4 DEF NetOK
    <3> QED BY <1>3, <3>1, <3>2, <2>2, StepEffect
  <2> QED BY <2>1, <2>2
<1>5. ASSUME NEW n \in Nat, NetOK(s, t[n])
      PROVE  NetOK(s, t[n + 1])
  BY <1>4, <1>5, StepKeepsOK
<1>6. ASSUME NEW n \in Nat
      PROVE  NetOK(s, t[n])
  <2> DEFINE T == {i \in Nat : ~NetOK(s, t[i])}
  <2> SUFFICES ASSUME T # {} PROVE FALSE
    OBVIOUS
  <2>1. PICK i \in T : \A j \in T : i <= j
    <3>1. T \in SUBSET Nat
      OBVIOUS
    <3> HIDE DEF T
    <3> QED BY <3>1, NatMin
  <2>2. i # 0
    BY <1>3, StartOK
  <2>3. i - 1 \in Nat /\ (i - 1) + 1 = i /\ i - 1 < i
    BY <2>2
  <2>4. NetOK(s, t[i - 1])
    BY <2>1, <2>3
  <2> QED BY <1>5, <2>3, <2>4
<1> QED BY <1>1, <1>3, <1>4, <1>6

LEMMA TraceGrows ==
  ASSUME NEW s, WellFormed(s), NEW i \in Nat, NEW j \in Nat, i <= j
  PROVE  Ahead(NetTrace(s)[i], NetTrace(s)[j])
<1>1. PICK t : t = NetTrace(s)
  OBVIOUS
<1>2. \A n \in Nat : t[n] \in NetState /\ Ahead(t[n], t[n + 1])
  <2> SUFFICES ASSUME NEW n \in Nat
               PROVE  t[n] \in NetState /\ Ahead(t[n], t[n + 1])
    OBVIOUS
  <2>1. t[n] \in NetState
    BY <1>1, TraceSteps DEF NetOK
  <2>2. CASE Quiet(s, t[n])
    BY <1>1, <2>1, <2>2, TraceSteps, AheadIsPreorder
  <2>3. CASE ~Quiet(s, t[n])
    <3>1. PICK k \in Kernels : StepsTo(s, t[n], k, t[n + 1])
      BY <1>1, <2>3, TraceSteps
    <3> QED BY <2>1, <3>1, StepGrows
  <2> QED BY <2>1, <2>2, <2>3
<1> DEFINE T == {n \in Nat : i <= n /\ ~Ahead(t[i], t[n])}
<1> SUFFICES ASSUME T # {} PROVE FALSE
  BY <1>1
<1>3. PICK n \in T : \A h \in T : n <= h
  <2>1. T \in SUBSET Nat
    OBVIOUS
  <2> HIDE DEF T
  <2> QED BY <2>1, NatMin
<1>4. n # i
  BY <1>2, AheadIsPreorder
<1>5. n - 1 \in Nat /\ (n - 1) + 1 = n /\ n - 1 < n /\ i <= n - 1
  BY <1>4
<1>6. Ahead(t[i], t[n - 1])
  BY <1>3, <1>5
<1>7. Ahead(t[n - 1], t[n])
  BY <1>2, <1>5
<1> QED BY <1>2, <1>5, <1>6, <1>7, AheadIsPreorder

(* A state in which the program is quiet is where the execution stays.     *)
LEMMA TraceStays ==
  ASSUME NEW s, WellFormed(s), NEW N \in Nat, Quiet(s, NetTrace(s)[N]),
         NEW n \in Nat, N <= n
  PROVE  NetTrace(s)[n] = NetTrace(s)[N]
<1>1. PICK t : t = NetTrace(s)
  OBVIOUS
<1> DEFINE T == {i \in Nat : N <= i /\ t[i] # t[N]}
<1> SUFFICES ASSUME T # {} PROVE FALSE
  BY <1>1
<1>2. PICK i \in T : \A j \in T : i <= j
  <2>1. T \in SUBSET Nat
    OBVIOUS
  <2> HIDE DEF T
  <2> QED BY <2>1, NatMin
<1>3. i - 1 \in Nat /\ (i - 1) + 1 = i /\ i - 1 < i /\ N <= i - 1
  OBVIOUS
<1>4. t[i - 1] = t[N]
  BY <1>2, <1>3
<1>5. t[i] = t[i - 1]
  BY <1>1, <1>3, <1>4, TraceSteps
<1> QED BY <1>2, <1>4, <1>5

-----------------------------------------------------------------------------
(* A state of any schedule: what belongs to x is as it is at some point of *)
(* the execution NetTrace(s), for each x at a point of its own.            *)
Tracks(s, m) ==
  /\ NetOK(s, m)
  /\ \A x \in Party : \E i \in Nat : SameFor(s, x, m, NetTrace(s)[i])

(* The last point that x may be at; if it is not the end, x steps there.   *)
LastAt(s, m, N, x, i) ==
  /\ i \in 0 .. N
  /\ SameFor(s, x, m, NetTrace(s)[i])
  /\ \A j \in 0 .. N : SameFor(s, x, m, NetTrace(s)[j]) => j <= i

LEMMA HasLast ==
  ASSUME NEW s, WellFormed(s), NEW m, Tracks(s, m),
         NEW N \in Nat, Quiet(s, NetTrace(s)[N]), NEW x \in Party
  PROVE  \E i \in 0 .. N : LastAt(s, m, N, x, i)
<1> DEFINE T == {i \in 0 .. N : SameFor(s, x, m, NetTrace(s)[i])}
<1>1. PICK i \in Nat : SameFor(s, x, m, NetTrace(s)[i])
  BY DEF Tracks
<1>2. T # {}
  <2>1. CASE i <= N
    BY <1>1, <2>1
  <2>2. CASE N <= i
    <3>1. N \in T
      BY <1>1, <2>2, TraceStays
    <3> QED BY <3>1
  <2> QED BY <2>1, <2>2
<1>3. PICK j \in T : \A k \in T : k <= j
  <2>1. T \in SUBSET (0 .. N)
    OBVIOUS
  <2> HIDE DEF T
  <2> QED BY <1>2, <2>1, NatMax
<1> QED BY <1>3 DEF LastAt

LEMMA LastSteps ==
  ASSUME NEW s, WellFormed(s), NEW m, NEW N \in Nat, NEW x \in Party,
         NEW i \in 0 .. N, LastAt(s, m, N, x, i), i # N
  PROVE  /\ x \in Kernels
         /\ NetCan(s, NetTrace(s)[i], x)
         /\ StepsTo(s, NetTrace(s)[i], x, NetTrace(s)[i + 1])
<1>1. PICK t : t = NetTrace(s)
  OBVIOUS
<1>2. i \in Nat /\ i + 1 \in 0 .. N /\ ~(i + 1 <= i)
  BY DEF LastAt
<1>3. ~SameFor(s, x, t[i], t[i + 1])
  BY <1>1, <1>2, SameForIsEquivalence DEF LastAt
<1>4. ~Quiet(s, t[i])
  BY <1>1, <1>2, <1>3, TraceSteps, SameForIsEquivalence
<1>5. PICK k \in Kernels : NetCan(s, t[i], k) /\ StepsTo(s, t[i], k, t[i + 1])
  BY <1>1, <1>2, <1>4, TraceSteps
<1>6. NetOK(s, t[i])
  BY <1>1, <1>2, TraceSteps
<1>7. k = x
  BY <1>3, <1>5, <1>6, StepIsLocal
<1> QED BY <1>1, <1>5, <1>7

(* What has passed at a point is at most what has passed in m, or at most  *)
(* what passes at last, when that is so of each party.                     *)
LEMMA AheadByParts ==
  ASSUME NEW s, NEW m, NEW n,
         \A x \in Party : \E a, b : /\ SameFor(s, x, m, a)
                                    /\ SameFor(s, x, n, b)
                                    /\ Ahead(a, b)
  PROVE  Ahead(m, n)
<1>1. ASSUME NEW d \in Dfbs
      PROVE  Pushed(m.chan, d) <= Pushed(n.chan, d)
  <2>1. PICK a, b : /\ SameFor(s, Producer(s, d), m, a)
                    /\ SameFor(s, Producer(s, d), n, b)
                    /\ Ahead(a, b)
    BY OwnersAreParties
  <2> QED BY <2>1 DEF SameFor, SameIn, Ahead
<1>2. ASSUME NEW d \in Dfbs
      PROVE  m.chan.popped[d] <= n.chan.popped[d]
  <2>1. PICK a, b : /\ SameFor(s, Consumer(s, d), m, a)
                    /\ SameFor(s, Consumer(s, d), n, b)
                    /\ Ahead(a, b)
    BY OwnersAreParties
  <2> QED BY <2>1 DEF SameFor, SameOut, Ahead
<1>3. ASSUME NEW p \in Pipes
      PROVE  m.chan.sent[p] <= n.chan.sent[p]
  <2>1. PICK a, b : /\ SameFor(s, Sender(s, p), m, a)
                    /\ SameFor(s, Sender(s, p), n, b)
                    /\ Ahead(a, b)
    BY OwnersAreParties
  <2> QED BY <2>1 DEF SameFor, Ahead
<1> QED BY <1>1, <1>2, <1>3 DEF Ahead

LEMMA TracksStart ==
  ASSUME NEW s, WellFormed(s)
  PROVE  Tracks(s, NetStart)
<1>1. 0 \in Nat /\ NetTrace(s)[0] = NetStart
  BY TraceSteps
<1>2. \A x \in Party : SameFor(s, x, NetStart, NetTrace(s)[0])
  BY <1>1, SameForIsEquivalence
<1> QED BY <1>1, <1>2, StartOK DEF Tracks

(* No schedule leads a kernel astray.                                      *)
LEMMA TracksStep ==
  ASSUME NEW s, WellFormed(s), NEW N \in Nat, Quiet(s, NetTrace(s)[N]),
         NEW m, Tracks(s, m), NEW k \in Kernels, NetCan(s, m, k),
         NEW n, StepsTo(s, m, k, n)
  PROVE  Tracks(s, n)
<1>1. PICK t : t = NetTrace(s)
  OBVIOUS
<1>2. NetOK(s, m) /\ NetOK(s, n)
  BY StepKeepsOK DEF Tracks
<1>3. ASSUME NEW x \in Party, x # k
      PROVE  \E i \in Nat : SameFor(s, x, n, t[i])
  <2>1. PICK i \in Nat : SameFor(s, x, m, t[i])
    BY <1>1 DEF Tracks
  <2>2. SameFor(s, x, m, n)
    BY <1>2, <1>3, StepIsLocal
  <2> QED BY <2>1, <2>2, SameForIsEquivalence
<1>4. \E i \in Nat : SameFor(s, k, n, t[i])
  <2>1. k \in Party
    BY DEF Party
  <2>2. PICK i \in 0 .. N : LastAt(s, m, N, k, i)
    BY <2>1, HasLast
  <2>3. SameFor(s, k, m, t[i]) /\ i \in Nat /\ i + 1 \in Nat /\ NetOK(s, t[i])
    BY <1>1, <2>2, TraceSteps DEF LastAt
  <2>4. CASE i # N
    <3>1. StepsTo(s, t[i], k, t[i + 1])
      BY <1>1, <2>1, <2>2, <2>4, LastSteps
    <3>2. SameFor(s, k, n, t[i + 1])
      BY <1>2, <2>3, <3>1, StepIsDetermined
    <3> QED BY <2>3, <3>2
  <2>5. CASE i = N
    <3>1. ASSUME NEW x \in Party
          PROVE  \E a, b : SameFor(s, x, m, a) /\ SameFor(s, x, t[N], b) /\ Ahead(a, b)
      <4>1. PICK j \in 0 .. N : LastAt(s, m, N, x, j)
        BY HasLast
      <4>2. SameFor(s, x, m, t[j]) /\ Ahead(t[j], t[N])
        BY <1>1, <4>1, TraceGrows DEF LastAt
      <4> QED BY <4>2, SameForIsEquivalence
    <3>2. Ahead(m, t[N])
      BY <3>1, AheadByParts
    <3>3. NetCan(s, t[N], k)
      BY <1>2, <2>3, <2>5, <3>2, CanStays
    <3> QED BY <1>1, <3>3 DEF Quiet
  <2> QED BY <2>4, <2>5
<1> QED BY <1>1, <1>2, <1>3, <1>4 DEF Tracks

(* A schedule that cannot go on has led every kernel to the end.           *)
LEMMA TracksEnd ==
  ASSUME NEW s, WellFormed(s), NEW N \in Nat, Quiet(s, NetTrace(s)[N]),
         NEW m, Tracks(s, m), Quiet(s, m)
  PROVE  \A x \in Party : SameFor(s, x, m, NetTrace(s)[N])
<1>1. PICK t : t = NetTrace(s)
  OBVIOUS
<1> DEFINE Behind == {i \in 0 .. N : i # N /\ \E x \in Party : LastAt(s, m, N, x, i)}
<1>2. ASSUME Behind # {}
      PROVE  FALSE
  <2>1. PICK i \in Behind : \A j \in Behind : i <= j
    <3>1. Behind \in SUBSET Nat
      OBVIOUS
    <3> HIDE DEF Behind
    <3> QED BY <1>2, <3>1, NatMin
  <2>2. PICK x \in Party : LastAt(s, m, N, x, i)
    OBVIOUS
  <2>3. x \in Kernels /\ NetCan(s, t[i], x)
    BY <1>1, <2>2, LastSteps
  <2>4. ASSUME NEW y \in Party
        PROVE  \E a, b : SameFor(s, y, t[i], a) /\ SameFor(s, y, m, b) /\ Ahead(a, b)
    <3>1. PICK j \in 0 .. N : LastAt(s, m, N, y, j)
      BY HasLast
    <3>2. i <= j
      <4>1. CASE j = N
        BY <4>1
      <4>2. CASE j # N
        BY <2>1, <3>1, <4>2
      <4> QED BY <4>1, <4>2
    <3>3. SameFor(s, y, m, t[j]) /\ Ahead(t[i], t[j])
      BY <1>1, <3>1, <3>2, TraceGrows DEF LastAt
    <3> QED BY <3>3, SameForIsEquivalence
  <2>5. Ahead(t[i], m)
    BY <2>4, AheadByParts
  <2>6. SameFor(s, x, t[i], m)
    BY <1>1, <2>2, SameForIsEquivalence DEF LastAt
  <2>7. NetOK(s, t[i]) /\ NetOK(s, m)
    BY <1>1, TraceSteps DEF Tracks
  <2>8. NetCan(s, m, x)
    BY <2>3, <2>5, <2>6, <2>7, CanStays
  <2> QED BY <2>3, <2>8 DEF Quiet
<1>3. ASSUME NEW x \in Party
      PROVE  SameFor(s, x, m, t[N])
  <2>1. PICK i \in 0 .. N : LastAt(s, m, N, x, i)
    BY HasLast
  <2>2. i = N
    BY <1>2, <2>1
  <2> QED BY <1>1, <2>1, <2>2 DEF LastAt
<1> QED BY <1>1, <1>3

-----------------------------------------------------------------------------
(* The execution ends: the steps it has made grow, within Steps(s).        *)
Progress(m, k) ==
  2 * (m.pos[k] - 1) + (IF m.begun[k] THEN 1 ELSE 0) + (IF k \in m.left THEN 0 ELSE 1)

Made(s, m) == {y \in Steps(s) : y[2] <= Progress(m, y[1])}

LEMMA KernelsAreFinite == IsFiniteSet(Kernels)
<1>1. IsFiniteSet(1 .. Len(KernelOrder))
  BY KernelsAssumption, FS_Interval
<1>2. KernelOrder \in Surjection(1 .. Len(KernelOrder), Kernels)
  BY KernelsAssumption DEF Kernels, Range, Surjection
<1> QED BY <1>1, <1>2, FS_Surjection

LEMMA StepsAreFinite ==
  ASSUME NEW s, WellFormed(s)
  PROVE  IsFiniteSet(Steps(s))
<1>1. IsFiniteSet(Kernels)
  BY KernelsAreFinite
<1> DEFINE Of(k) == {k} \X (1 .. 2 * (Len(s[k]) + 1))
           f == [k \in Kernels |-> Of(k)]
           T == {Of(k) : k \in Kernels}
<1>2. IsFiniteSet(T)
  <2>1. f \in Surjection(Kernels, T)
    BY DEF Surjection
  <2> HIDE DEF f, T
  <2> QED BY <1>1, <2>1, FS_Surjection
<1>3. ASSUME NEW k \in Kernels
      PROVE  IsFiniteSet(Of(k))
  <2>1. Len(s[k]) \in Nat
    BY DEF WellFormed
  <2>2. IsFiniteSet({k}) /\ IsFiniteSet(1 .. 2 * (Len(s[k]) + 1))
    <3>1. IsFiniteSet({k})
      BY FS_Singleton
    <3>2. 2 * (Len(s[k]) + 1) \in Int
      BY <2>1
    <3> QED BY <3>1, <3>2, FS_Interval
  <2> QED BY <2>2, FS_Product
<1> QED BY <1>2, <1>3, FS_UNION DEF Steps

LEMMA StepMakesOne ==
  ASSUME NEW s, WellFormed(s), NEW m, NetOK(s, m), NEW k \in Kernels, k \in m.left,
         NEW n, StepsTo(s, m, k, n)
  PROVE  Cardinality(Made(s, m)) + 1 <= Cardinality(Made(s, n))
<1>1. /\ m \in NetState /\ n \in NetState
      /\ \A j \in Kernels : m.pos[j] \in 1 .. Len(s[j]) + 1 /\ Len(s[j]) \in Nat
  BY DEF NetOK, StepsTo, WellFormed
<1>2. ASSUME NEW j \in Kernels
      PROVE  Progress(m, j) \in Nat /\ Progress(n, j) \in Nat
  <2>1. NetOK(s, n)
    BY StepKeepsOK
  <2>2. n.pos[j] \in 1 .. Len(s[j]) + 1
    BY <2>1 DEF NetOK
  <2>3. \A p, b : (p \in Nat /\ p >= 1 /\ b \in {0, 1}) => 2 * (p - 1) + b \in Nat
    OBVIOUS
  <2>4. m.pos[j] \in Nat /\ m.pos[j] >= 1 /\ n.pos[j] \in Nat /\ n.pos[j] >= 1
    BY <1>1, <2>2
  <2> QED BY <2>3, <2>4, SMTT(30) DEF Progress
<1>3. ASSUME NEW j \in Kernels, j # k
      PROVE  Progress(n, j) = Progress(m, j)
  <2>1. n.pos[j] = m.pos[j]
    BY <1>1, <1>3 DEF StepsTo, NetState
  <2>2. n.begun[j] = m.begun[j]
    BY <1>1, <1>3 DEF StepsTo, NetState
  <2>3. j \in n.left <=> j \in m.left
    BY <1>3 DEF StepsTo
  <2> QED BY <2>1, <2>2, <2>3 DEF Progress
<1>4. /\ Progress(m, k) < Progress(n, k)
      /\ Progress(m, k) + 1 <= 2 * (Len(s[k]) + 1)
  <2>1. CASE Returns(s, m, k)
    <3>1. /\ n.pos[k] = m.pos[k] /\ n.begun[k] = m.begun[k] /\ k \notin n.left
      BY <2>1 DEF StepsTo, Finishes, Begins
    <3> QED BY <1>1, <3>1 DEF Progress
  <2>2. CASE Begins(s, m, k)
    <3>1. /\ n.pos[k] = m.pos[k] /\ n.left = m.left /\ ~m.begun[k]
          /\ n.begun = [m.begun EXCEPT ![k] = TRUE]
      BY <2>2 DEF StepsTo, Finishes, Begins
    <3>2. n.begun[k]
      BY <1>1, <3>1 DEF NetState
    <3>3. m.pos[k] <= Len(s[k])
      BY <1>1, <2>2 DEF Begins, Returns
    <3> QED BY <1>1, <3>1, <3>2, <3>3 DEF Progress
  <2>3. CASE Finishes(s, m, k)
    <3>1. n.pos[k] = m.pos[k] + 1 /\ n.left = m.left
      BY <1>1, <2>3 DEF StepsTo, Finishes, NetState
    <3>2. m.pos[k] <= Len(s[k])
      BY <1>1, <2>3 DEF Finishes, Returns
    <3>3. PICK p, b, c, l : /\ p = m.pos[k] /\ l = Len(s[k])
                            /\ b = (IF m.begun[k] THEN 1 ELSE 0)
                            /\ c = (IF n.begun[k] THEN 1 ELSE 0)
      OBVIOUS
    <3>4. /\ Progress(m, k) = 2 * (p - 1) + b
          /\ Progress(n, k) = 2 * ((p + 1) - 1) + c
      BY <1>1, <3>1, <3>3 DEF Progress
    <3>5. p \in Nat /\ l \in Nat /\ p <= l /\ b \in {0, 1} /\ c \in {0, 1}
      BY <1>1, <3>2, <3>3
    <3>6. 2 * (p - 1) + b < 2 * ((p + 1) - 1) + c /\ 2 * (p - 1) + b + 1 <= 2 * (l + 1)
      BY <3>5
    <3> QED BY <3>3, <3>4, <3>6
  <2> QED BY <2>1, <2>2, <2>3 DEF Finishes
<1>5. PICK y : y = <<k, Progress(m, k) + 1>>
  OBVIOUS
<1>6. y \in Steps(s)
  BY <1>2, <1>4, <1>5 DEF Steps
<1>7. \A z \in Steps(s) : z[1] \in Kernels /\ z[2] \in Int
  BY DEF Steps
<1>8. y \in Made(s, n) /\ y \notin Made(s, m)
  BY <1>2, <1>4, <1>5, <1>6 DEF Made
<1>9. Made(s, m) \subseteq Made(s, n)
  BY <1>2, <1>3, <1>4, <1>7 DEF Made
<1>10. IsFiniteSet(Made(s, m)) /\ IsFiniteSet(Made(s, n))
  BY StepsAreFinite, FS_Subset DEF Made
<1>11. Cardinality(Made(s, m) \cup {y}) = Cardinality(Made(s, m)) + 1
  BY <1>8, <1>10, FS_AddElement
<1>12. Made(s, m) \cup {y} \in SUBSET Made(s, n)
  BY <1>8, <1>9
<1> QED BY <1>10, <1>11, <1>12, FS_Subset

LEMMA MadeIsBounded ==
  ASSUME NEW s, WellFormed(s), NEW m
  PROVE  /\ Cardinality(Made(s, m)) \in Nat
         /\ Cardinality(Made(s, m)) <= Cardinality(Steps(s))
<1>1. Made(s, m) \in SUBSET Steps(s)
  BY DEF Made
<1>2. IsFiniteSet(Steps(s)) /\ IsFiniteSet(Made(s, m))
  BY <1>1, StepsAreFinite, FS_Subset
<1> QED BY <1>1, <1>2, FS_Subset, FS_CardinalityType

LEMMA TraceEnds ==
  ASSUME NEW s, WellFormed(s)
  PROVE  /\ Cardinality(Steps(s)) \in Nat
         /\ Quiet(s, NetTrace(s)[Cardinality(Steps(s))])
<1>1. PICK t, N : t = NetTrace(s) /\ N = Cardinality(Steps(s))
  OBVIOUS
<1> DEFINE C(n) == Cardinality(Made(s, t[n]))
<1>2. N \in Nat /\ \A n \in Nat : C(n) \in Nat /\ C(n) <= N
  <2>1. \A m : Cardinality(Made(s, m)) \in Nat /\ Cardinality(Made(s, m)) <= Cardinality(Steps(s))
    BY MadeIsBounded
  <2>2. N \in Nat
    BY <1>1, StepsAreFinite, FS_CardinalityType
  <2> QED BY <1>1, <2>1, <2>2
<1>3. ASSUME NEW n \in Nat, ~Quiet(s, t[n])
      PROVE  C(n) + 1 <= C(n + 1)
  <2>1. PICK k \in Kernels : NetCan(s, t[n], k) /\ StepsTo(s, t[n], k, t[n + 1])
    BY <1>1, <1>3, TraceSteps
  <2>2. NetOK(s, t[n]) /\ k \in t[n].left
    BY <1>1, <2>1, TraceSteps DEF NetCan
  <2> QED BY <2>1, <2>2, StepMakesOne
<1> DEFINE T == {n \in Nat : n <= N + 1 /\ C(n) < n}
<1> SUFFICES ASSUME ~Quiet(s, t[N]) PROVE FALSE
  BY <1>1, <1>2
<1>4. N + 1 \in T
  BY <1>2
<1>5. PICK n \in T : \A i \in T : n <= i
  <2>1. T \in SUBSET Nat
    OBVIOUS
  <2> HIDE DEF T
  <2> QED BY <1>4, <2>1, NatMin
<1>6. n # 0
  BY <1>2
<1>7. n - 1 \in Nat /\ (n - 1) + 1 = n /\ n - 1 <= N /\ n - 1 < n
  BY <1>2, <1>6
<1>8. n - 1 <= C(n - 1)
  <2> HIDE DEF C
  <2> QED BY <1>2, <1>5, <1>7
<1>9. ~Quiet(s, t[n - 1])
  <2> SUFFICES ASSUME Quiet(s, t[n - 1]) PROVE FALSE
    OBVIOUS
  <2>1. t[N] = t[n - 1]
    BY <1>1, <1>2, <1>7, TraceStays
  <2> QED BY <2>1
<1>10. C(n - 1) + 1 <= C(n)
  BY <1>3, <1>7, <1>9
<1> HIDE DEF C
<1> QED BY <1>2, <1>5, <1>7, <1>8, <1>10

-----------------------------------------------------------------------------
(* e is a schedule of n steps: each is one of a kernel that can take it.   *)
Schedule(s, n, e) ==
  /\ e \in [0 .. n -> NetState]
  /\ e[0] = NetStart
  /\ \A i \in 1 .. n : \E k \in Kernels : /\ NetCan(s, e[i - 1], k)
                                          /\ e[i] = NetStep(s, e[i - 1], k)

(* Along a schedule no kernel is led astray, and each step counts.         *)
LEMMA ScheduleTracks ==
  ASSUME NEW s, WellFormed(s), NEW n \in Nat, NEW e, Schedule(s, n, e), NEW i \in 0 .. n
  PROVE  Tracks(s, e[i]) /\ i <= Cardinality(Made(s, e[i]))
<1> DEFINE Good(h) == Tracks(s, e[h]) /\ h <= Cardinality(Made(s, e[h]))
           T == {h \in 0 .. n : ~Good(h)}
<1>1. SUFFICES ASSUME T # {} PROVE FALSE
  OBVIOUS
<1>2. PICK h \in T : \A j \in T : h <= j
  <2>1. T \in SUBSET Nat
    OBVIOUS
  <2> HIDE DEF T
  <2> QED BY <1>1, <2>1, NatMin
<1>3. h \in 0 .. n /\ ~Good(h)
  OBVIOUS
<1>4. h # 0
  <2>1. Tracks(s, e[0])
    BY TracksStart DEF Schedule
  <2>2. 0 <= Cardinality(Made(s, e[0]))
    BY MadeIsBounded
  <2> QED BY <1>3, <2>1, <2>2
<1>5. h \in 1 .. n /\ h - 1 \in 0 .. n /\ h - 1 < h
  BY <1>3, <1>4
<1>6. Good(h - 1)
  <2>1. h - 1 \notin T
    <3> HIDE DEF T
    <3> QED BY <1>2, <1>5
  <2> QED BY <1>5, <2>1
<1>7. PICK k \in Kernels : NetCan(s, e[h - 1], k) /\ e[h] = NetStep(s, e[h - 1], k)
  BY <1>5 DEF Schedule
<1>8. NetOK(s, e[h - 1]) /\ k \in e[h - 1].left
  BY <1>6, <1>7 DEF Tracks, NetCan
<1>9. StepsTo(s, e[h - 1], k, e[h])
  <2>1. e[h - 1].pos[k] # 0 /\ e[h - 1] \in NetState
    BY <1>8 DEF NetOK, WellFormed
  <2> QED BY <1>7, <2>1, StepEffect
<1>10. Tracks(s, e[h])
  BY <1>6, <1>7, <1>9, TracksStep, TraceEnds
<1>11. h <= Cardinality(Made(s, e[h]))
  <2>1. Cardinality(Made(s, e[h - 1])) + 1 <= Cardinality(Made(s, e[h]))
    BY <1>8, <1>9, StepMakesOne
  <2>2. Cardinality(Made(s, e[h - 1])) \in Nat /\ Cardinality(Made(s, e[h])) \in Nat
    BY MadeIsBounded
  <2>3. h - 1 <= Cardinality(Made(s, e[h - 1]))
    BY <1>6
  <2> QED BY <1>5, <2>1, <2>2, <2>3
<1> QED BY <1>3, <1>10, <1>11

(* The kernels of a program whose ends belong to one kernel each cannot    *)
(* run for ever, and whatever the schedule they end in the same state: no  *)
(* order in which the scheduler of greenlet_scheduler.py resumes them      *)
(* makes a program deadlock that could complete, or the reverse.           *)
THEOREM SettleIsAnySchedule ==
  ASSUME NEW s, WellFormed(s), NEW n \in Nat, NEW e, Schedule(s, n, e)
  PROVE  /\ n <= Cardinality(Steps(s))
         /\ Quiet(s, e[n]) => e[n] = Settle(s)
<1>1. n \in 0 .. n
  OBVIOUS
<1>2. Tracks(s, e[n]) /\ n <= Cardinality(Made(s, e[n]))
  BY <1>1, ScheduleTracks
<1>3. n <= Cardinality(Steps(s))
  <2>1. /\ Cardinality(Made(s, e[n])) \in Nat
        /\ Cardinality(Made(s, e[n])) <= Cardinality(Steps(s))
        /\ Cardinality(Steps(s)) \in Nat
    BY MadeIsBounded, TraceEnds
  <2> QED BY <1>2, <2>1
<1>4. ASSUME Quiet(s, e[n])
      PROVE  e[n] = Settle(s)
  <2>1. \A x \in Party : SameFor(s, x, e[n], Settle(s))
    BY <1>2, <1>4, TraceEnds, TracksEnd DEF Settle
  <2>2. e[n] \in NetState /\ Settle(s) \in NetState
    BY <1>2, TraceEnds, TraceSteps DEF Settle, NetOK, Tracks
  <2>3. /\ e[n].pos = Settle(s).pos /\ e[n].begun = Settle(s).begun
        /\ e[n].left = Settle(s).left /\ e[n].chan = Settle(s).chan
    BY <2>1, <2>2, SameForAll
  <2> QED BY <2>2, <2>3 DEF NetState
<1> QED BY <1>3, <1>4

-----------------------------------------------------------------------------
(* The simulator.  The network's state:                                    *)
Net ==
  [pos   |-> pos,
   begun |-> [k \in Kernels |-> stage[k] # "begin"],
   chan  |-> chan,
   left  |-> active]

Waiting == Range(candidates)

TypeOK ==
  /\ script \in [Kernels -> Seq(Call)]
  /\ algorithm \in {"fair", "greedy"}
  /\ pos \in [Kernels -> Nat]
  /\ stage \in [Kernels -> {"begin", "check", "recheck", "go"}]
  /\ chan \in Channels
  /\ active \in SUBSET Kernels
  /\ blocked \in SUBSET Kernels
  /\ current \in Party
  /\ inKernel \in BOOLEAN
  /\ phase \in {"init", "top", "pass"}
  /\ candidates \in Seq(Kernels)
  /\ anyProgress \in BOOLEAN
  /\ madeProgress \in [Kernels -> BOOLEAN]
  /\ lastRun \in [Kernels -> Nat]
  /\ timestamp \in Nat
  /\ outcome \in {"running", "finished", "deadlock", "error"}
  /\ passed \in [Kernels -> SUBSET Kernels]

(* Who is in control, and who waits for its turn.                          *)
Control ==
  /\ inKernel => current \in active \ blocked
  /\ current \in active /\ ~inKernel => current \in blocked
  /\ current # NoKernel => phase # "top" /\ current \notin Waiting
  /\ phase = "init" => algorithm = "fair" /\ Waiting \cap blocked = {}
  /\ phase = "top" => candidates = << >>
  /\ Waiting \subseteq active
  /\ \A i, j \in DOMAIN candidates : candidates[i] = candidates[j] => i = j

(* A kernel is inside a call only if it is in control or blocked there.    *)
Stages ==
  \A k \in active :
    /\ k \in blocked => stage[k] \in {"recheck", "go"}
    /\ k \notin blocked /\ ~(inKernel /\ k = current) => stage[k] = "begin"
    /\ stage[k] # "begin" => ~AtEnd(k) /\ CallOf(k).op \in BlockingOps
    /\ algorithm = "fair" /\ stage[k] \in {"recheck", "go"} => madeProgress[k]

(* A kernel in control goes on with a call only when it can.               *)
GoesOn ==
  inKernel /\ stage[current] = "go" => Can(chan, CallOf(current), current)

(* A pass without progress so far has found nobody able.                   *)
Verdict ==
  /\ phase = "pass" /\ ~anyProgress /\ current = NoKernel =>
       \A k \in active \ Waiting : ~MayRun(k)
  /\ outcome = "finished" => active = {}
  /\ outcome = "deadlock" => active # {} /\ \A k \in active : ~MayRun(k)
  /\ outcome # "error"

-----------------------------------------------------------------------------
(* The order of a pass.                                                    *)
Index(k) == CHOOSE i \in DOMAIN KernelOrder : KernelOrder[i] = k

Order ==
  /\ \A k \in Kernels : lastRun[k] <= timestamp
  /\ algorithm = "greedy" =>
       /\ \A i, j \in DOMAIN candidates : i < j => Index(candidates[i]) < Index(candidates[j])
       /\ phase = "pass" =>
            \A k \in active \ Waiting, j \in Waiting : Index(k) < Index(j)

(* k comes before j in the next pass.                                      *)
Before(k, j) ==
  \/ j \notin active
  \/ algorithm = "fair" /\ (lastRun[k] < lastRun[j] \/ j = current)
  \/ algorithm = "greedy" /\ Index(k) < Index(j)

(* Who could run and was passed still can, and is not passed by the same   *)
(* kernel again before its turn.                                           *)
Passing ==
  /\ \A k \in Kernels : passed[k] # {} => MayRun(k) /\ k # current
  /\ \A k \in active : \A j \in passed[k] :
       /\ \A i \in DOMAIN candidates :
            candidates[i] = j => \E h \in DOMAIN candidates : h < i /\ candidates[h] = k
       /\ k \notin Waiting => Before(k, j)

IInv ==
  /\ TypeOK
  /\ WellFormed(script)
  /\ \A k \in Kernels : script[k] \in Scripts[k]
  /\ Tracks(script, Net)
  /\ Control
  /\ Stages
  /\ GoesOn
  /\ Verdict
  /\ Order
  /\ Passing

-----------------------------------------------------------------------------
(* The hypotheses on the program, in the terms of its network.             *)
LEMMA ScriptsAreWellFormed ==
  ASSUME OneKernelPerEnd, script \in [Kernels -> UNION {Scripts[k] : k \in Kernels}],
         \A k \in Kernels : script[k] \in Scripts[k]
  PROVE  WellFormed(script)
<1>1. \A k \in Kernels : script[k] \in Seq(Call)
  BY ScriptsAssumption
<1>2. script \in [Kernels -> Seq(Call)]
  BY <1>1
<1>3. ASSUME NEW j \in Kernels, NEW k \in Kernels,
             NEW x \in Range(script[j]), NEW y \in Range(script[k]),
             x.on = y.on, Fills(x) <=> Fills(y)
      PROVE  j = k
  BY <1>3 DEF OneKernelPerEnd
<1> QED BY <1>2, <1>3 DEF WellFormed

(* A kernel's next call is one of its script's.                            *)
LEMMA NextCall ==
  ASSUME TypeOK, NetOK(script, Net), NEW k \in Kernels, ~AtEnd(k)
  PROVE  /\ pos[k] \in 1 .. Len(script[k])
         /\ CallOf(k) \in Call
         /\ CallOf(k) \in Range(script[k])
<1>1. pos[k] \in 1 .. Len(script[k]) + 1
  BY DEF NetOK, Net
<1>2. script[k] \in Seq(Call) /\ Len(script[k]) \in Nat /\ DOMAIN script[k] = 1 .. Len(script[k])
  BY DEF TypeOK
<1>3. pos[k] \in 1 .. Len(script[k])
  BY <1>1, <1>2 DEF AtEnd
<1> QED BY <1>2, <1>3 DEF CallOf, Range

(* With one receiver for each pipe the scheduler sees what the kernel sees. *)
LEMMA SchedulerSees ==
  ASSUME SoleReceivers, NEW k \in Kernels, script[k] \in Scripts[k],
         NEW x \in Range(script[k]), NEW c
  PROVE  SchedulerCan(c, x, k) <=> Can(c, x, k)
<1>1. CASE x.op = "recv"
  <2>1. Receivers[x.on] = {k}
    BY <1>1 DEF SoleReceivers
  <2> QED BY <1>1, <2>1 DEF SchedulerCan, Can
<1>2. CASE x.op # "recv"
  BY <1>2 DEF SchedulerCan
<1> QED BY <1>1, <1>2

-----------------------------------------------------------------------------
(* The kernel in control: it takes a step of the network or leaves it as   *)
(* it is, and no call of its turns out to be impossible.                   *)
Moves(k) ==
  \/ BeginCall(k)
  \/ CheckFair(k)
  \/ CheckGreedy(k)
  \/ Recheck(k)
  \/ FinishCall(k)
  \/ ReturnFromKernel(k)

LEMMA NetIsTyped ==
  ASSUME TypeOK
  PROVE  Net \in NetState
BY DEF TypeOK, Net, NetState

(* The names of the first part for a kernel's next step.                   *)
LEMMA SameNames ==
  ASSUME NEW k \in Kernels
  PROVE  /\ Returns(script, Net, k) <=> AtEnd(k)
         /\ CallAt(script, Net, k) = CallOf(k)
         /\ Begins(script, Net, k) <=>
              ~AtEnd(k) /\ CallOf(k).op \in BlockingOps /\ stage[k] = "begin"
         /\ NetCan(script, Net, k) <=>
              /\ k \in active
              /\ \/ AtEnd(k)
                 \/ CallOf(k).op \in BlockingOps /\ stage[k] = "begin"
                 \/ Can(chan, CallOf(k), k)
<1>1. /\ Net.pos[k] = pos[k]
      /\ Net.begun[k] <=> stage[k] # "begin"
      /\ Net.chan = chan
      /\ Net.left = active
  BY DEF Net
<1> QED BY <1>1 DEF Returns, CallAt, Begins, NetCan, AtEnd, CallOf

(* The stage of a call is what the network's `begun' says of it.           *)
LEMMA BeginMoves ==
  ASSUME TypeOK, WellFormed(script), NetOK(script, Net), NEW k \in active,
         BeginCall(k), UNCHANGED program
  PROVE  NetCan(script, Net, k) /\ StepsTo(script, Net, k, Net')
<1>1. k \in Kernels /\ ~AtEnd(k) /\ CallOf(k).op \in BlockingOps /\ stage[k] = "begin"
  BY DEF BeginCall, TypeOK
<1>2. Begins(script, Net, k) /\ NetCan(script, Net, k)
  BY <1>1, SameNames
<1>3. Net \in NetState /\ Net.pos[k] # 0
  BY <1>1, NetIsTyped DEF NetOK
<1>4. Effect(script, Net, k, Prepare(Net.chan, CallAt(script, Net, k), k))
  BY <1>1, <1>2, <1>3, PrepareEffect
<1>5. chan' = Prepare(Net.chan, CallAt(script, Net, k), k)
  BY <1>1, SameNames DEF BeginCall, Net
<1>6. /\ Net'.pos = Net.pos
      /\ Net'.begun = [Net.begun EXCEPT ![k] = TRUE]
      /\ Net'.chan = chan'
      /\ Net'.left = Net.left
  <2>1. stage' = [stage EXCEPT ![k] = "check"] /\ stage \in [Kernels -> {"begin", "check", "recheck", "go"}]
    BY DEF BeginCall, TypeOK
  <2>2. \A j \in Kernels : stage'[j] # "begin" <=> j = k \/ stage[j] # "begin"
    BY <2>1
  <2>3. [j \in Kernels |-> stage'[j] # "begin"]
          = [[j \in Kernels |-> stage[j] # "begin"] EXCEPT ![k] = TRUE]
    BY <2>2, <1>1, Zenon
  <2> QED BY <2>3 DEF BeginCall, Net
<1>7. Net' \in NetState
  <2>1. chan' \in Channels
    BY <1>4, <1>5 DEF Effect
  <2> QED BY <2>1, <1>1 DEF BeginCall, Net, NetState, TypeOK
<1>8. ~Finishes(script, Net, k) /\ ~Returns(script, Net, k)
  BY <1>2 DEF Finishes, Begins
<1> QED BY <1>2, <1>4, <1>5, <1>6, <1>7, <1>8 DEF StepsTo

LEMMA FinishMoves ==
  ASSUME TypeOK, WellFormed(script), NetOK(script, Net), NEW k \in active,
         FinishCall(k), Can(chan, CallOf(k), k), UNCHANGED program
  PROVE  NetCan(script, Net, k) /\ StepsTo(script, Net, k, Net')
<1>1. /\ k \in Kernels /\ ~AtEnd(k)
      /\ CallOf(k).op \in BlockingOps => stage[k] # "begin"
  BY DEF FinishCall, TypeOK, ReleaseOps, BlockingOps
<1>2. Finishes(script, Net, k) /\ NetCan(script, Net, k)
  BY <1>1, SameNames DEF Finishes
<1>3. Net \in NetState /\ Net.pos[k] # 0
  BY <1>1, NetIsTyped DEF NetOK
<1>4. Effect(script, Net, k, Complete(Net.chan, CallAt(script, Net, k), k))
  BY <1>1, <1>2, <1>3, CompleteEffect
<1>5. chan' = Complete(Net.chan, CallAt(script, Net, k), k)
  BY <1>1, SameNames DEF FinishCall, Net
<1>6. /\ Net'.pos = [Net.pos EXCEPT ![k] = @ + 1]
      /\ Net'.begun = [Net.begun EXCEPT ![k] = FALSE]
      /\ Net'.chan = chan'
      /\ Net'.left = Net.left
  <2>1. stage' = [stage EXCEPT ![k] = "begin"] /\ stage \in [Kernels -> {"begin", "check", "recheck", "go"}]
    BY DEF FinishCall, TypeOK
  <2>2. \A j \in Kernels : stage'[j] # "begin" <=> j # k /\ stage[j] # "begin"
    BY <2>1
  <2>3. [j \in Kernels |-> stage'[j] # "begin"]
          = [[j \in Kernels |-> stage[j] # "begin"] EXCEPT ![k] = FALSE]
    BY <2>2, <1>1, Zenon
  <2>4. pos' = [pos EXCEPT ![k] = @ + 1] /\ active' = active
    BY DEF FinishCall
  <2> QED BY <2>3, <2>4 DEF Net
<1>7. Net' \in NetState
  <2>1. chan' \in Channels
    BY <1>4, <1>5 DEF Effect
  <2>2. pos' = [pos EXCEPT ![k] = @ + 1] /\ active' = active
    BY DEF FinishCall
  <2>3. pos' \in [Kernels -> Nat] /\ active' \in SUBSET Kernels
    BY <2>2 DEF TypeOK
  <2> QED BY <2>1, <2>3 DEF Net, NetState
<1>8. ~Begins(script, Net, k) /\ ~Returns(script, Net, k)
  BY <1>2 DEF Finishes
<1> QED BY <1>2, <1>4, <1>5, <1>6, <1>7, <1>8 DEF StepsTo

LEMMA ReturnMoves ==
  ASSUME TypeOK, WellFormed(script), NetOK(script, Net), NEW k \in active,
         ReturnFromKernel(k), UNCHANGED program
  PROVE  NetCan(script, Net, k) /\ StepsTo(script, Net, k, Net')
<1>1. k \in Kernels /\ AtEnd(k)
  BY DEF ReturnFromKernel, TypeOK
<1>2. Returns(script, Net, k) /\ NetCan(script, Net, k)
  BY <1>1, SameNames
<1>3. Effect(script, Net, k, ReleaseAll(Net.chan, k))
  BY <1>1, <1>2, NetIsTyped, ReleaseEffect
<1>4. /\ Net'.pos = Net.pos
      /\ Net'.begun = Net.begun
      /\ Net'.chan = ReleaseAll(Net.chan, k)
      /\ Net'.left = Net.left \ {k}
  BY DEF ReturnFromKernel, Net
<1>5. Net' \in NetState
  <2>1. Net'.chan \in Channels
    BY <1>3, <1>4 DEF Effect
  <2> QED BY <2>1, <1>1 DEF ReturnFromKernel, Net, NetState, TypeOK
<1>6. ~Begins(script, Net, k) /\ ~Finishes(script, Net, k)
  BY <1>2 DEF Begins, Finishes
<1> QED BY <1>2, <1>3, <1>4, <1>5, <1>6 DEF StepsTo

(* The checks in between touch the scheduler's bookkeeping only.           *)
LEMMA CheckMoves ==
  ASSUME TypeOK, NEW k \in active, CheckFair(k) \/ CheckGreedy(k) \/ Recheck(k)
  PROVE  Net' = Net
<1>1. /\ pos' = pos /\ chan' = chan /\ active' = active
      /\ \E v \in {"recheck", "go"} : stage' = [stage EXCEPT ![k] = v]
      /\ stage[k] \in {"check", "recheck"}
  BY DEF CheckFair, CheckGreedy, Recheck
<1>2. \A j \in Kernels : stage'[j] # "begin" <=> stage[j] # "begin"
  BY <1>1 DEF TypeOK
<1>3. [j \in Kernels |-> stage'[j] # "begin"] = [j \in Kernels |-> stage[j] # "begin"]
  BY <1>2, Zenon
<1> QED BY <1>1, <1>3 DEF Net

(* A kernel in control never finds its call impossible.                    *)
LEMMA NoError ==
  ASSUME IInv, inKernel, FinishCall(current)
  PROVE  Can(chan, CallOf(current), current)
<1>1. CASE stage[current] = "go"
  BY <1>1 DEF IInv, GoesOn
<1>2. CASE CallOf(current).op \in ReleaseOps
  BY <1>2 DEF Can, ReleaseOps
<1> QED BY <1>1, <1>2 DEF FinishCall

LEMMA KernelMoves ==
  ASSUME IInv, inKernel, Moves(current), UNCHANGED program
  PROVE  /\ Net' \in NetState
         /\ Net' = Net \/ ( /\ NetCan(script, Net, current)
                            /\ StepsTo(script, Net, current, Net') )
         /\ outcome' = outcome
<1>1. current \in active /\ TypeOK /\ WellFormed(script) /\ NetOK(script, Net)
  BY DEF IInv, Control, Tracks
<1>2. CASE BeginCall(current)
  <2>1. NetCan(script, Net, current) /\ StepsTo(script, Net, current, Net')
    BY <1>1, <1>2, BeginMoves
  <2>2. outcome' = outcome
    BY <1>2 DEF BeginCall
  <2> QED BY <2>1, <2>2 DEF StepsTo
<1>3. CASE CheckFair(current) \/ CheckGreedy(current) \/ Recheck(current)
  <2>1. Net' = Net
    BY <1>1, <1>3, CheckMoves
  <2>2. outcome' = outcome
    BY <1>3 DEF CheckFair, CheckGreedy, Recheck
  <2> QED BY <1>1, <2>1, <2>2, NetIsTyped
<1>4. CASE FinishCall(current)
  <2>1. Can(chan, CallOf(current), current)
    BY <1>4, NoError
  <2>2. NetCan(script, Net, current) /\ StepsTo(script, Net, current, Net')
    BY <1>1, <1>4, <2>1, FinishMoves
  <2>3. outcome' = outcome
    BY <1>4, <2>1 DEF FinishCall
  <2> QED BY <2>2, <2>3 DEF StepsTo
<1>5. CASE ReturnFromKernel(current)
  <2>1. NetCan(script, Net, current) /\ StepsTo(script, Net, current, Net')
    BY <1>1, <1>5, ReturnMoves
  <2>2. outcome' = outcome
    BY <1>5 DEF ReturnFromKernel
  <2> QED BY <2>1, <2>2 DEF StepsTo
<1> QED BY <1>2, <1>3, <1>4, <1>5 DEF Moves

(* What a kernel in control does leaves the others able.                   *)
LEMMA OthersStayAble ==
  ASSUME IInv, SoleReceivers, inKernel, Moves(current), UNCHANGED program,
         NEW k \in Kernels, k # current, MayRun(k)
  PROVE  MayRun(k)'
<1>1. /\ current \in active /\ TypeOK /\ WellFormed(script) /\ NetOK(script, Net)
      /\ current \in Kernels /\ script[k] \in Scripts[k]
  BY DEF IInv, Control, Tracks, TypeOK
<1>2. k \in active /\ k \in active' /\ (k \in blocked' <=> k \in blocked)
  BY DEF MayRun, Moves, BeginCall, CheckFair, CheckGreedy, Recheck, FinishCall,
         ReturnFromKernel, Block, Continue
<1>3. CASE k \notin blocked
  BY <1>2, <1>3 DEF MayRun
<1>4. CASE k \in blocked
  <2>1. ~AtEnd(k)
    BY <1>2, <1>4 DEF IInv, Stages
  <2>2. CallOf(k) \in Range(script[k])
    BY <1>1, <2>1, NextCall
  <2>3. Can(chan, CallOf(k), k)
    BY <1>1, <1>4, <2>2, SchedulerSees DEF MayRun
  <2>4. SameFor(script, k, Net, Net') /\ Ahead(Net, Net') /\ NetOK(script, Net')
    <3>1. CASE Net' = Net
      <4>1. SameFor(script, k, Net, Net)
        BY SameForIsEquivalence
      <4>2. Ahead(Net, Net)
        BY <1>1, NetIsTyped, AheadIsPreorder
      <4> QED BY <1>1, <3>1, <4>1, <4>2
    <3>2. CASE StepsTo(script, Net, current, Net')
      <4>1. k \in Party \ {current}
        BY DEF Party
      <4>2. SameFor(script, k, Net, Net')
        BY <1>1, <3>2, <4>1, StepIsLocal
      <4>3. Ahead(Net, Net')
        BY <1>1, <3>2, NetIsTyped, StepGrows
      <4>4. NetOK(script, Net')
        BY <1>1, <3>2, StepKeepsOK
      <4> QED BY <4>2, <4>3, <4>4
    <3> QED BY <3>1, <3>2, KernelMoves
  <2>5. Can(Net'.chan, CallAt(script, Net', k), k)
    <3>1. ~Returns(script, Net, k) /\ CallAt(script, Net, k) = CallOf(k) /\ Net.chan = chan
      BY <2>1, SameNames DEF Net
    <3>2. Can(Net.chan, CallAt(script, Net, k), k)
      BY <2>3, <3>1
    <3> QED BY <1>1, <2>4, <3>1, <3>2, CanStays
  <2>6. Net'.pos[k] = pos[k]
    <3>1. Net.pos[k] = pos[k]
      BY DEF Net
    <3> QED BY <2>4, <3>1 DEF SameFor, SameKernel
  <2>7. CallAt(script, Net', k) = CallOf(k)
    BY <2>6 DEF CallAt, CallOf
  <2>8. pos'[k] = pos[k] /\ chan' = Net'.chan /\ script' = script
    BY <2>6 DEF Net, program
  <2>9. CallOf(k)' = CallOf(k)
    BY <2>8 DEF CallOf
  <2>10. SchedulerCan(chan', CallOf(k), k)
    BY <1>1, <2>2, <2>5, <2>7, <2>8, SchedulerSees
  <2> QED BY <1>2, <2>9, <2>10 DEF MayRun
<1> QED BY <1>3, <1>4

(* What a step of the kernel in control leaves alone.                      *)
LEMMA KernelStepLeaves ==
  ASSUME IInv, outcome = "running", KernelStep
  PROVE  /\ inKernel /\ Moves(current) /\ UNCHANGED program
         /\ current' = current /\ current \in active \ blocked /\ current \in Kernels
         /\ phase' = phase /\ candidates' = candidates /\ anyProgress' = anyProgress
         /\ lastRun' = lastRun /\ timestamp' = timestamp /\ passed' = passed
         /\ current # NoKernel
         /\ outcome' = "running"
         /\ active' \in {active, active \ {current}}
         /\ blocked' \in {blocked, blocked \cup {current}}
         /\ inKernel' \in BOOLEAN
         /\ \A k \in Kernels \ {current} :
              /\ stage'[k] = stage[k] /\ pos'[k] = pos[k]
              /\ madeProgress'[k] = madeProgress[k]
<1>1. /\ inKernel /\ Moves(current) /\ UNCHANGED program
      /\ UNCHANGED <<current, loop, lastRun, timestamp, passed>>
  BY DEF KernelStep, Moves
<1>2. current \in active \ blocked /\ active \in SUBSET Kernels
  BY <1>1 DEF IInv, Control, TypeOK
<1>3. outcome' = outcome
  BY <1>1, KernelMoves
<1>4. current \in Kernels /\ current # NoKernel
  BY <1>2, KernelsAssumption
<1>5. /\ active' \in {active, active \ {current}}
      /\ blocked' \in {blocked, blocked \cup {current}}
      /\ inKernel' \in BOOLEAN
  BY <1>1, <1>2 DEF Moves, BeginCall, CheckFair, CheckGreedy, Recheck, FinishCall,
     ReturnFromKernel, Block, Continue, IInv, TypeOK
<1>6. ASSUME NEW k \in Kernels \ {current}
      PROVE  /\ stage'[k] = stage[k] /\ pos'[k] = pos[k]
             /\ madeProgress'[k] = madeProgress[k]
  <2>1. /\ stage \in [Kernels -> {"begin", "check", "recheck", "go"}]
        /\ pos \in [Kernels -> Nat] /\ madeProgress \in [Kernels -> BOOLEAN]
    BY DEF IInv, TypeOK
  <2>2. stage' = stage \/ \E v : stage' = [stage EXCEPT ![current] = v]
    BY <1>1 DEF Moves, BeginCall, CheckFair, CheckGreedy, Recheck, FinishCall,
       ReturnFromKernel
  <2>3. pos' = pos \/ \E v : pos' = [pos EXCEPT ![current] = v]
    BY <1>1 DEF Moves, BeginCall, CheckFair, CheckGreedy, Recheck, FinishCall,
       ReturnFromKernel
  <2>4. madeProgress' = madeProgress \/ madeProgress' = [madeProgress EXCEPT ![current] = TRUE]
    BY <1>1 DEF Moves, BeginCall, CheckFair, CheckGreedy, Recheck, FinishCall,
       ReturnFromKernel
  <2> QED BY <2>1, <2>2, <2>3, <2>4
<1> QED BY <1>1, <1>2, <1>3, <1>4, <1>5, <1>6 DEF loop

LEMMA KernelStepKeepsTypes ==
  ASSUME IInv, outcome = "running", KernelStep
  PROVE  TypeOK'
<1>1. TypeOK
  BY DEF IInv
<1>2. Net' \in NetState
  BY KernelStepLeaves, KernelMoves
<1>3. pos' \in [Kernels -> Nat] /\ chan' \in Channels /\ active' \in SUBSET Kernels
  BY <1>2 DEF Net, NetState
<1>4. stage' \in [Kernels -> {"begin", "check", "recheck", "go"}]
  <2>1. stage' = stage \/ \E v \in {"begin", "check", "recheck", "go"} :
                            stage' = [stage EXCEPT ![current] = v]
    BY DEF KernelStep, BeginCall, CheckFair, CheckGreedy, Recheck, FinishCall,
           ReturnFromKernel
  <2> QED BY <1>1, <2>1 DEF TypeOK
<1>5. madeProgress' \in [Kernels -> BOOLEAN]
  <2>1. madeProgress' = madeProgress \/ madeProgress' = [madeProgress EXCEPT ![current] = TRUE]
    BY DEF KernelStep, BeginCall, CheckFair, CheckGreedy, Recheck, FinishCall,
           ReturnFromKernel
  <2> QED BY <1>1, <2>1 DEF TypeOK
<1>6. blocked' \in SUBSET Kernels
  BY <1>1, KernelStepLeaves DEF TypeOK
<1>7. /\ script' = script /\ algorithm' = algorithm /\ current' = current
      /\ phase' = phase /\ candidates' = candidates /\ anyProgress' = anyProgress
      /\ lastRun' = lastRun /\ timestamp' = timestamp /\ passed' = passed
      /\ outcome' = "running" /\ inKernel' \in BOOLEAN
  BY KernelStepLeaves DEF program
<1> QED BY <1>1, <1>3, <1>4, <1>5, <1>6, <1>7 DEF TypeOK

LEMMA KernelStepKeepsTracks ==
  ASSUME IInv, outcome = "running", KernelStep
  PROVE  Tracks(script, Net)'
<1>1. WellFormed(script) /\ Tracks(script, Net) /\ current \in Kernels /\ script' = script
  BY KernelStepLeaves DEF IInv, program
<1>2. /\ Cardinality(Steps(script)) \in Nat
      /\ Quiet(script, NetTrace(script)[Cardinality(Steps(script))])
  BY <1>1, TraceEnds
<1>3. Tracks(script, Net')
  <2>1. CASE Net' = Net
    BY <1>1, <2>1
  <2>2. CASE NetCan(script, Net, current) /\ StepsTo(script, Net, current, Net')
    BY <1>1, <1>2, <2>2, TracksStep
  <2> QED BY <2>1, <2>2, KernelStepLeaves, KernelMoves
<1> QED BY <1>1, <1>3

LEMMA KernelStepKeepsControl ==
  ASSUME IInv, outcome = "running", KernelStep
  PROVE  Control'
<1>1. Control
  BY DEF IInv
<1>2. inKernel' => current \in active' \ blocked'
  BY KernelStepLeaves DEF KernelStep, BeginCall, CheckFair, CheckGreedy, Recheck,
     FinishCall, ReturnFromKernel, Block, Continue
<1>3. current \in active' /\ ~inKernel' => current \in blocked'
  BY KernelStepLeaves DEF KernelStep, BeginCall, CheckFair, CheckGreedy, Recheck,
     FinishCall, ReturnFromKernel, Block, Continue
<1>4. Waiting' = Waiting /\ current \notin Waiting
  BY <1>1, KernelStepLeaves DEF Waiting, Control
<1>5. algorithm' = algorithm
  BY KernelStepLeaves DEF program
<1> QED BY <1>1, <1>2, <1>3, <1>4, <1>5, KernelStepLeaves DEF Control

(* The call the kernel is in, after its step.                              *)
LEMMA KernelStepKeepsCall ==
  ASSUME IInv, outcome = "running", KernelStep
  PROVE  /\ current \in active' =>
              /\ current \in blocked' => stage'[current] \in {"recheck", "go"}
              /\ stage'[current] # "begin" =>
                   (~AtEnd(current) /\ CallOf(current).op \in BlockingOps)'
              /\ algorithm = "fair" /\ stage'[current] \in {"recheck", "go"} =>
                   madeProgress'[current]
         /\ GoesOn'
<1> DEFINE Good == ~AtEnd(current) /\ CallOf(current).op \in BlockingOps
<1>1. /\ current' = current /\ script' = script /\ current \in active
      /\ current \in Kernels /\ current \notin blocked
      /\ stage \in [Kernels -> {"begin", "check", "recheck", "go"}]
      /\ madeProgress \in [Kernels -> BOOLEAN]
      /\ inKernel
  BY KernelStepLeaves DEF IInv, TypeOK, program
<1>2. /\ stage[current] # "begin" => Good
      /\ algorithm = "fair" /\ stage[current] \in {"recheck", "go"} => madeProgress[current]
  BY <1>1 DEF IInv, Stages
<1>3. ASSUME pos' = pos
      PROVE  Good' <=> Good
  BY <1>1, <1>3 DEF AtEnd, CallOf
<1>4. CASE BeginCall(current)
  <2>1. /\ stage'[current] = "check" /\ pos' = pos /\ blocked' = blocked
        /\ Good
    BY <1>1, <1>4 DEF BeginCall, Continue
  <2> QED BY <1>1, <1>3, <2>1 DEF GoesOn
<1>5. CASE CheckFair(current)
  <2>1. /\ stage[current] = "check" /\ stage'[current] = "recheck" /\ pos' = pos
        /\ madeProgress'[current] = TRUE /\ inKernel' = FALSE
    BY <1>1, <1>5 DEF CheckFair, Block
  <2> QED BY <1>1, <1>2, <1>3, <2>1 DEF GoesOn
<1>6. CASE CheckGreedy(current)
  <2>1. /\ stage[current] = "check" /\ stage'[current] = "go" /\ pos' = pos
        /\ chan' = chan /\ algorithm = "greedy"
        /\ inKernel' => Can(chan, CallOf(current), current)
    BY <1>1, <1>6 DEF CheckGreedy, Block, Continue
  <2>2. CallOf(current)' = CallOf(current)
    BY <1>1, <2>1 DEF CallOf
  <2> QED BY <1>1, <1>2, <1>3, <2>1, <2>2 DEF GoesOn
<1>7. CASE Recheck(current)
  <2>1. /\ stage[current] = "recheck" /\ stage'[current] = "go" /\ pos' = pos
        /\ chan' = chan /\ madeProgress' = madeProgress
        /\ inKernel' => Can(chan, CallOf(current), current)
    BY <1>1, <1>7 DEF Recheck, Block, Continue
  <2>2. CallOf(current)' = CallOf(current)
    BY <1>1, <2>1 DEF CallOf
  <2> QED BY <1>1, <1>2, <1>3, <2>1, <2>2 DEF GoesOn
<1>8. CASE FinishCall(current)
  <2>1. Can(chan, CallOf(current), current)
    BY <1>1, <1>8, NoError
  <2>2. stage'[current] = "begin" /\ blocked' = blocked
    BY <1>1, <1>8, <2>1 DEF FinishCall, Continue
  <2> QED BY <1>1, <2>2 DEF GoesOn
<1>9. CASE ReturnFromKernel(current)
  <2>1. current \notin active' /\ inKernel' = FALSE
    BY <1>9 DEF ReturnFromKernel
  <2> QED BY <2>1 DEF GoesOn
<1> QED BY <1>4, <1>5, <1>6, <1>7, <1>8, <1>9 DEF KernelStep

LEMMA KernelStepKeepsStages ==
  ASSUME IInv, outcome = "running", KernelStep
  PROVE  Stages'
<1> SUFFICES ASSUME NEW k \in active'
             PROVE  ( /\ k \in blocked => stage[k] \in {"recheck", "go"}
                      /\ k \notin blocked /\ ~(inKernel /\ k = current) => stage[k] = "begin"
                      /\ stage[k] # "begin" => ~AtEnd(k) /\ CallOf(k).op \in BlockingOps
                      /\ algorithm = "fair" /\ stage[k] \in {"recheck", "go"}
                           => madeProgress[k] )'
  BY DEF Stages
<1>1. /\ algorithm' = algorithm /\ script' = script /\ current' = current
      /\ active' \subseteq active /\ active \in SUBSET Kernels
  BY KernelStepLeaves DEF program, IInv, TypeOK
<1>2. CASE k = current
  <2>1. Control'
    BY KernelStepKeepsControl
  <2>2. k \notin blocked' => inKernel'
    BY <1>1, <1>2, <2>1 DEF Control
  <2>3. AtEnd(k)' = AtEnd(current)' /\ CallOf(k)' = CallOf(current)'
    BY <1>1, <1>2 DEF AtEnd, CallOf
  <2> QED BY <1>1, <1>2, <2>2, <2>3, KernelStepKeepsCall
<1>3. CASE k # current
  <2>1. /\ stage'[k] = stage[k] /\ pos'[k] = pos[k] /\ madeProgress'[k] = madeProgress[k]
        /\ k \in blocked' <=> k \in blocked
        /\ k \in active
    BY <1>1, <1>3, KernelStepLeaves
  <2>2. /\ AtEnd(k)' <=> AtEnd(k)
        /\ CallOf(k)' = CallOf(k)
    BY <1>1, <2>1 DEF AtEnd, CallOf
  <2> QED BY <1>1, <1>3, <2>1, <2>2 DEF IInv, Stages
<1> QED BY <1>2, <1>3

LEMMA KernelStepKeepsPassing ==
  ASSUME IInv, SoleReceivers, outcome = "running", KernelStep
  PROVE  Passing'
<1>1. /\ passed' = passed /\ candidates' = candidates /\ current' = current
      /\ lastRun' = lastRun /\ algorithm' = algorithm /\ active' \subseteq active
      /\ Waiting' = Waiting
  BY KernelStepLeaves DEF program, Waiting
<1>2. Passing
  BY DEF IInv
<1>3. ASSUME NEW k \in Kernels, passed'[k] # {}
      PROVE  MayRun(k)' /\ k # current'
  <2>1. MayRun(k) /\ k # current
    BY <1>1, <1>2, <1>3 DEF Passing
  <2> QED BY <1>1, <2>1, KernelStepLeaves, OthersStayAble
<1>4. ASSUME NEW k \in active', NEW j \in passed'[k], k \notin Waiting'
      PROVE  Before(k, j)'
  <2>1. Before(k, j)
    BY <1>1, <1>2, <1>4 DEF Passing
  <2> QED BY <1>1, <2>1 DEF Before
<1>5. ASSUME NEW k \in active', NEW j \in passed'[k],
             NEW i \in DOMAIN candidates', candidates'[i] = j
      PROVE  \E h \in DOMAIN candidates' : h < i /\ candidates'[h] = k
  BY <1>1, <1>2, <1>5 DEF Passing
<1> QED BY <1>3, <1>4, <1>5 DEF Passing

LEMMA KernelStepKeeps ==
  ASSUME IInv, SoleReceivers, outcome = "running", KernelStep
  PROVE  IInv'
<1>1. script' = script /\ algorithm' = algorithm
  BY KernelStepLeaves DEF program
<1>2. WellFormed(script)' /\ (\A k \in Kernels : script[k] \in Scripts[k])'
  BY <1>1 DEF IInv
<1>3. Verdict'
  BY KernelStepLeaves DEF Verdict
<1>4. Order'
  <2>1. Waiting' = Waiting /\ active' \subseteq active
    BY KernelStepLeaves DEF Waiting
  <2> QED BY <1>1, <2>1, KernelStepLeaves DEF IInv, Order
<1> QED BY <1>2, <1>3, <1>4, KernelStepKeepsTypes, KernelStepKeepsTracks,
           KernelStepKeepsControl, KernelStepKeepsStages, KernelStepKeepsCall,
           KernelStepKeepsPassing DEF IInv

-----------------------------------------------------------------------------
(* The scheduler.  The queue without its head.                             *)
LEMMA RestOfQueue ==
  ASSUME NEW S, NEW q \in Seq(S), q # << >>,
         \A i, j \in DOMAIN q : q[i] = q[j] => i = j
  PROVE  /\ Head(q) \in Range(q) /\ Range(q) \subseteq S
         /\ Tail(q) \in Seq(S)
         /\ 1 \in DOMAIN q /\ Head(q) = q[1]
         /\ \A i \in DOMAIN Tail(q) : i \in Nat /\ i + 1 \in DOMAIN q /\ Tail(q)[i] = q[i + 1]
         /\ \A i \in DOMAIN q : i = 1 \/ (i - 1 \in DOMAIN Tail(q) /\ Tail(q)[i - 1] = q[i])
         /\ Range(Tail(q)) = Range(q) \ {Head(q)}
         /\ \A i, j \in DOMAIN Tail(q) : Tail(q)[i] = Tail(q)[j] => i = j
<1>1. PICK n \in Nat : n = Len(q)
  OBVIOUS
<1>2. DOMAIN q = 1 .. n /\ n # 0
  BY <1>1
<1>3. Head(q) = q[1] /\ Tail(q) \in Seq(S) /\ DOMAIN Tail(q) = 1 .. n - 1
  BY <1>1, <1>2
<1>4. \A i \in 1 .. n - 1 : Tail(q)[i] = q[i + 1]
  BY <1>1, <1>2
<1>5. /\ \A i \in DOMAIN Tail(q) : i \in Nat /\ i + 1 \in DOMAIN q /\ Tail(q)[i] = q[i + 1]
      /\ \A i \in DOMAIN q : i = 1 \/ (i - 1 \in DOMAIN Tail(q) /\ Tail(q)[i - 1] = q[i])
  BY <1>2, <1>3, <1>4
<1>6. \A i, j \in DOMAIN Tail(q) : Tail(q)[i] = Tail(q)[j] => i = j
  BY <1>5
<1>7. Range(Tail(q)) = Range(q) \ {Head(q)}
  <2>1. ASSUME NEW x \in Range(Tail(q)) PROVE x \in Range(q) /\ x # Head(q)
    <3>1. PICK i \in DOMAIN Tail(q) : x = Tail(q)[i]
      BY DEF Range
    <3>2. i \in Nat /\ i + 1 \in DOMAIN q /\ x = q[i + 1]
      BY <1>5, <3>1
    <3>3. i \in 1 .. n - 1
      BY <1>3
    <3>4. i + 1 # 1 /\ 1 \in DOMAIN q
      BY <1>2, <3>3
    <3> QED BY <1>3, <3>2, <3>4 DEF Range
  <2>2. ASSUME NEW x \in Range(q), x # Head(q) PROVE x \in Range(Tail(q))
    <3>1. PICK i \in DOMAIN q : x = q[i]
      BY DEF Range
    <3>2. i # 1
      BY <1>3, <2>2, <3>1
    <3> QED BY <1>5, <3>1, <3>2, ZenonT(60) DEF Range
  <2> QED BY <2>1, <2>2
<1>8. Head(q) \in Range(q) /\ Range(q) \subseteq S /\ 1 \in DOMAIN q
  <2>1. \A i \in DOMAIN q : q[i] \in S
    OBVIOUS
  <2> QED BY <1>2, <1>3, <2>1 DEF Range
<1> QED BY <1>3, <1>5, <1>6, <1>7, <1>8

(* What no step of the scheduler changes.                                  *)
LEMMA SchedulerLeaves ==
  ASSUME IInv, UNCHANGED <<program, kernelState, active, madeProgress>>
  PROVE  /\ script' = script /\ algorithm' = algorithm /\ pos' = pos /\ stage' = stage
         /\ chan' = chan /\ active' = active /\ madeProgress' = madeProgress
         /\ WellFormed(script)' /\ Tracks(script, Net)'
         /\ (\A k \in Kernels : script[k] \in Scripts[k])'
         /\ \A k : AtEnd(k)' = AtEnd(k) /\ CallOf(k)' = CallOf(k)
         /\ \A k : MayRun(k)' <=>
              k \in active /\ (k \in blocked' => SchedulerCan(chan, CallOf(k), k))
<1>1. /\ script' = script /\ algorithm' = algorithm /\ pos' = pos /\ stage' = stage
      /\ chan' = chan /\ active' = active /\ madeProgress' = madeProgress
  BY DEF program, kernelState
<1>2. Net' = Net
  BY <1>1 DEF Net
<1>3. \A k : AtEnd(k)' = AtEnd(k) /\ CallOf(k)' = CallOf(k)
  BY <1>1 DEF AtEnd, CallOf
<1>4. \A k : MayRun(k)' <=>
         k \in active /\ (k \in blocked' => SchedulerCan(chan, CallOf(k), k))
  BY <1>1, <1>3 DEF MayRun
<1> QED BY <1>1, <1>2, <1>3, <1>4 DEF IInv

(* One kernel leaves the queue: its order, and the others' places, stay.   *)
LEMMA TakesHead ==
  ASSUME IInv, candidates # << >>, candidates' = Tail(candidates),
         UNCHANGED <<program, phase, active>>
  PROVE  /\ Head(candidates) \in active /\ Head(candidates) \in Kernels
         /\ candidates' \in Seq(Kernels)
         /\ Waiting' = Waiting \ {Head(candidates)}
         /\ phase # "top"
         /\ \A i, j \in DOMAIN candidates' : candidates'[i] = candidates'[j] => i = j
         /\ algorithm' = "greedy" =>
              /\ \A i, j \in DOMAIN candidates' :
                   i < j => Index(candidates'[i]) < Index(candidates'[j])
              /\ phase' = "pass" =>
                   \A k \in active' \ Waiting', j \in Waiting' : Index(k) < Index(j)
         /\ \A k, j :
              /\ k # Head(candidates)
              /\ \A i \in DOMAIN candidates :
                   candidates[i] = j => \E h \in DOMAIN candidates : h < i /\ candidates[h] = k
              => \A i \in DOMAIN candidates' :
                   candidates'[i] = j => \E h \in DOMAIN candidates' : h < i /\ candidates'[h] = k
<1> DEFINE q == candidates
<1>1. /\ q \in Seq(Kernels)
      /\ \A i, j \in DOMAIN q : q[i] = q[j] => i = j
      /\ Waiting \subseteq active /\ active \subseteq Kernels
      /\ phase # "top"
  BY DEF IInv, TypeOK, Control
<1>2. /\ Head(q) \in Waiting /\ 1 \in DOMAIN q /\ Head(q) = q[1]
      /\ q' \in Seq(Kernels)
      /\ \A i \in DOMAIN q' : i \in Nat /\ i + 1 \in DOMAIN q /\ q'[i] = q[i + 1]
      /\ \A i \in DOMAIN q : i = 1 \/ (i - 1 \in DOMAIN q' /\ q'[i - 1] = q[i])
      /\ Waiting' = Waiting \ {Head(q)}
      /\ \A i, j \in DOMAIN q' : q'[i] = q'[j] => i = j
  BY <1>1, RestOfQueue DEF Waiting
<1>3. DOMAIN q \subseteq Nat /\ \A i \in DOMAIN q : 1 <= i
  BY <1>1
<1>4. ASSUME algorithm' = "greedy"
      PROVE  /\ \A i, j \in DOMAIN q' : i < j => Index(q'[i]) < Index(q'[j])
             /\ phase' = "pass" =>
                  \A k \in active' \ Waiting', j \in Waiting' : Index(k) < Index(j)
  <2>1. /\ \A i, j \in DOMAIN q : i < j => Index(q[i]) < Index(q[j])
        /\ phase = "pass" =>
             \A k \in active \ Waiting, j \in Waiting : Index(k) < Index(j)
    BY <1>4 DEF IInv, Order, program
  <2>2. ASSUME NEW i \in DOMAIN q', NEW j \in DOMAIN q', i < j
        PROVE  Index(q'[i]) < Index(q'[j])
    <3>1. /\ i + 1 \in DOMAIN q /\ q'[i] = q[i + 1]
          /\ j + 1 \in DOMAIN q /\ q'[j] = q[j + 1]
          /\ i + 1 < j + 1
      BY <1>2, <2>2
    <3> QED BY <2>1, <3>1
  <2>3. ASSUME phase' = "pass", NEW k \in active' \ Waiting', NEW j \in Waiting'
        PROVE  Index(k) < Index(j)
    <3>1. CASE k = Head(q)
      <4>1. PICK i \in DOMAIN q : q[i] = j
        BY <1>2, <2>3 DEF Waiting, Range
      <4>2. i # 1
        BY <1>2, <2>3, <4>1
      <4>3. 1 < i
        BY <1>3, <4>2
      <4> QED BY <1>2, <2>1, <3>1, <4>1, <4>3
    <3>2. CASE k # Head(q)
      BY <1>2, <2>1, <2>3, <3>2
    <3> QED BY <3>1, <3>2
  <2> QED BY <2>2, <2>3
<1>5. ASSUME NEW k, NEW j, k # Head(q),
             \A i \in DOMAIN q : q[i] = j => \E h \in DOMAIN q : h < i /\ q[h] = k,
             NEW i \in DOMAIN q', q'[i] = j
      PROVE  \E h \in DOMAIN q' : h < i /\ q'[h] = k
  <2>1. i \in Nat /\ i + 1 \in DOMAIN q /\ q[i + 1] = j
    BY <1>2, <1>5
  <2>2. PICK h \in DOMAIN q : h < i + 1 /\ q[h] = k
    BY <1>5, <2>1
  <2>3. h # 1
    BY <1>2, <1>5, <2>2
  <2>4. h - 1 \in DOMAIN q' /\ q'[h - 1] = k
    BY <1>2, <2>2, <2>3
  <2>5. h - 1 < i
    BY <1>3, <2>1, <2>2
  <2> QED BY <2>4, <2>5
<1> QED BY <1>1, <1>2, <1>4, <1>5

(* g.switch(): a kernel gets control.                                      *)
LEMMA SwitchKeeps ==
  ASSUME IInv, outcome' = "running", current = NoKernel, candidates # << >>,
         Switch(Head(candidates)),
         phase = "init" \/ MayRun(Head(candidates)), SoleReceivers,
         UNCHANGED <<program, kernelState, active, madeProgress,
                     phase, anyProgress, timestamp, lastRun>>
  PROVE  IInv'
<1> DEFINE g == Head(candidates)
<1>1. /\ TypeOK /\ Control /\ Stages /\ Order /\ Passing
      /\ NetOK(script, Net)
      /\ \A k \in Kernels : script[k] \in Scripts[k]
  BY DEF IInv, Tracks
<1>2. /\ current' = g /\ inKernel' = TRUE /\ blocked' = blocked \ {g}
      /\ candidates' = Tail(candidates)
      /\ passed' = [j \in Kernels |-> IF j = g THEN {}
                                      ELSE IF MayRun(j) THEN passed[j] \cup {g}
                                      ELSE passed[j]]
      /\ phase' = phase /\ anyProgress' = anyProgress
      /\ timestamp' = timestamp /\ lastRun' = lastRun
  BY DEF Switch
<1>3. /\ g \in active /\ g \in Kernels /\ candidates' \in Seq(Kernels)
      /\ Waiting' = Waiting \ {g} /\ phase # "top"
      /\ \A i, j \in DOMAIN candidates' : candidates'[i] = candidates'[j] => i = j
  BY <1>2, TakesHead
<1>4. NoKernel \notin Kernels
  BY KernelsAssumption
<1>5. ~inKernel
  BY <1>1, <1>4 DEF Control, TypeOK
<1>6. TypeOK'
  <2>1. passed' \in [Kernels -> SUBSET Kernels]
    BY <1>1, <1>2, <1>3 DEF TypeOK
  <2> QED BY <1>1, <1>2, <1>3, <2>1, SchedulerLeaves DEF TypeOK, Party
<1>7. Control'
  BY <1>1, <1>2, <1>3, SchedulerLeaves DEF Control
<1>8. Stages'
  BY <1>1, <1>2, <1>5, SchedulerLeaves DEF Stages
<1>9. GoesOn'
  <2> SUFFICES ASSUME stage[g] = "go"
               PROVE  Can(chan, CallOf(g), g)
    BY <1>2, SchedulerLeaves DEF GoesOn, CallOf
  <2>1. g \in blocked
    BY <1>1, <1>3, <1>5 DEF Stages
  <2>2. g \in Waiting
    BY <1>1, RestOfQueue DEF Waiting, TypeOK, Control
  <2>3. phase # "init"
    BY <1>1, <2>1, <2>2 DEF Control
  <2>4. SchedulerCan(chan, CallOf(g), g)
    BY <2>1, <2>3 DEF MayRun
  <2>5. CallOf(g) \in Range(script[g])
    BY <1>1, <1>3, NextCall DEF Stages
  <2> QED BY <1>1, <1>3, <2>4, <2>5, SchedulerSees
<1>10. Verdict'
  BY <1>2, <1>3, <1>4 DEF Verdict
<1>11. Order'
  BY <1>1, <1>2, TakesHead DEF Order
<1>12. Passing'
  <2>1. ASSUME NEW k \in Kernels, passed'[k] # {}
        PROVE  MayRun(k)' /\ k # current'
    <3>1. k # g
      BY <1>2, <2>1
    <3>2. MayRun(k)
      BY <1>1, <1>2, <2>1, <3>1 DEF Passing
    <3> QED BY <1>2, <3>1, <3>2, SchedulerLeaves DEF MayRun
  <2>2. ASSUME NEW k \in active', NEW j \in passed'[k]
        PROVE  /\ \A i \in DOMAIN candidates' :
                    candidates'[i] = j => \E h \in DOMAIN candidates' : h < i /\ candidates'[h] = k
               /\ k \notin Waiting' => Before(k, j)'
    <3>1. k \in Kernels /\ k \in active /\ algorithm' = algorithm /\ active' = active
      BY <1>1, SchedulerLeaves DEF TypeOK
    <3>2. k # g
      BY <1>2, <2>2, <3>1
    <3>3. CASE j = g
      <4>1. j \notin Waiting'
        BY <1>3, <3>3
      <4>2. \A i \in DOMAIN candidates' : candidates'[i] # j
        BY <4>1 DEF Waiting, Range
      <4>3. ASSUME k \notin Waiting' PROVE Before(k, j)'
        <5>1. CASE algorithm = "fair"
          BY <1>2, <3>1, <3>3, <5>1 DEF Before
        <5>2. CASE algorithm = "greedy"
          <6>1. phase = "pass" /\ k \in active \ Waiting /\ g \in Waiting
            BY <1>1, <1>3, <3>1, <3>2, <4>3, <5>2, RestOfQueue DEF Control, TypeOK, Waiting
          <6>2. Index(k) < Index(g)
            BY <1>1, <5>2, <6>1 DEF Order
          <6> QED BY <3>1, <3>3, <5>2, <6>2 DEF Before
        <5> QED BY <1>1, <5>1, <5>2 DEF TypeOK
      <4> QED BY <4>2, <4>3
    <3>4. CASE j # g
      <4>1. j \in passed[k] /\ j \in Kernels
        <5>1. j \in passed[k]
          BY <1>2, <2>2, <3>1, <3>2, <3>4
        <5> QED BY <1>1, <3>1, <5>1 DEF TypeOK
      <4>2. \A i \in DOMAIN candidates :
              candidates[i] = j => \E h \in DOMAIN candidates : h < i /\ candidates[h] = k
        BY <1>1, <3>1, <4>1 DEF Passing
      <4>3. ASSUME k \notin Waiting' PROVE Before(k, j)'
        <5>1. k \notin Waiting
          BY <1>3, <3>2, <4>3
        <5>2. Before(k, j)
          BY <1>1, <3>1, <4>1, <5>1 DEF Passing
        <5> QED BY <1>2, <1>4, <3>1, <4>1, <5>2 DEF Before
      <4>4. \A i \in DOMAIN candidates' :
              candidates'[i] = j => \E h \in DOMAIN candidates' : h < i /\ candidates'[h] = k
        <5>1. \A x, y :
                /\ x # Head(candidates)
                /\ \A i \in DOMAIN candidates :
                     candidates[i] = y => \E h \in DOMAIN candidates : h < i /\ candidates[h] = x
                => \A i \in DOMAIN candidates' :
                     candidates'[i] = y => \E h \in DOMAIN candidates' : h < i /\ candidates'[h] = x
          BY <1>2, TakesHead
        <5> QED BY <3>2, <4>2, <5>1
      <4> QED BY <4>3, <4>4
    <3> QED BY <3>3, <3>4
  <2> QED BY <2>1, <2>2 DEF Passing
<1> QED BY <1>6, <1>7, <1>8, <1>9, <1>10, <1>11, <1>12, SchedulerLeaves DEF IInv

(* A kernel has given control back.                                        *)
LEMMA BackKeeps ==
  ASSUME IInv, outcome' = "running", current # NoKernel, ~inKernel, current' = NoKernel,
         UNCHANGED <<program, kernelState, active, madeProgress, phase, candidates,
                     blocked, inKernel, passed>>,
         \/ timestamp' = timestamp + 1 /\ lastRun' = [lastRun EXCEPT ![current] = timestamp + 1]
         \/ current \notin active /\ UNCHANGED <<timestamp, lastRun>>,
         anyProgress' \in BOOLEAN, phase = "pass" => anyProgress'
  PROVE  IInv'
<1>1. /\ TypeOK /\ Control /\ Stages /\ Order /\ Passing
      /\ NoKernel \notin Kernels /\ NoKernel \notin active
      /\ current \in Kernels
  BY KernelsAssumption DEF IInv, TypeOK, Party
<1>2. /\ Waiting' = Waiting /\ active' = active /\ algorithm' = algorithm
      /\ candidates' = candidates /\ passed' = passed /\ phase' = phase
      /\ blocked' = blocked /\ inKernel' = inKernel /\ stage' = stage
  BY DEF Waiting, program, kernelState
<1>3. lastRun \in [Kernels -> Nat] /\ timestamp \in Nat /\ \A k \in Kernels : lastRun[k] <= timestamp
  BY <1>1 DEF TypeOK, Order
<1>4. /\ lastRun' \in [Kernels -> Nat] /\ timestamp' \in Nat
      /\ \A k \in Kernels : lastRun'[k] <= timestamp'
      /\ \A k \in Kernels : k # current => lastRun'[k] = lastRun[k]
      /\ current \in active => \A k \in Kernels : k # current => lastRun'[k] < lastRun'[current]
  BY <1>1, <1>3
<1>5. TypeOK'
  BY <1>1, <1>2, <1>4, SchedulerLeaves DEF TypeOK, Party
<1>6. Control'
  BY <1>1, <1>2 DEF Control
<1>7. Stages'
  BY <1>1, <1>2, SchedulerLeaves DEF Stages
<1>8. GoesOn' /\ Verdict'
  BY <1>2 DEF GoesOn, Verdict
<1>9. Order'
  BY <1>1, <1>2, <1>4 DEF Order
<1>10. Passing'
  <2>1. ASSUME NEW k \in Kernels, passed'[k] # {}
        PROVE  MayRun(k)' /\ k # current'
    <3>1. MayRun(k)
      BY <1>1, <1>2, <2>1 DEF Passing
    <3> QED BY <1>1, <1>2, <3>1, SchedulerLeaves DEF MayRun
  <2>2. ASSUME NEW k \in active', NEW j \in passed'[k], k \notin Waiting'
        PROVE  Before(k, j)'
    <3>1. k \in Kernels /\ j \in Kernels /\ k # current /\ Before(k, j)
      BY <1>1, <1>2, <2>2 DEF TypeOK, Passing
    <3>2. CASE j \notin active
      BY <1>2, <3>2 DEF Before
    <3>3. CASE j \in active /\ algorithm = "fair"
      <4>1. CASE j = current
        BY <1>2, <1>4, <3>1, <3>3, <4>1 DEF Before
      <4>2. CASE j # current
        BY <1>2, <1>4, <3>1, <3>3, <4>2 DEF Before
      <4> QED BY <4>1, <4>2
    <3>4. CASE j \in active /\ algorithm = "greedy"
      BY <1>2, <3>1, <3>4 DEF Before
    <3> QED BY <1>1, <3>2, <3>3, <3>4 DEF TypeOK
  <2> QED BY <1>1, <1>2, <2>1, <2>2 DEF Passing
<1> QED BY <1>5, <1>6, <1>7, <1>8, <1>9, <1>10, SchedulerLeaves DEF IInv

(* A kernel that cannot run is passed over.                                *)
LEMMA SkipKeeps ==
  ASSUME IInv, outcome = "running", outcome' = "running", SkipKernel,
         UNCHANGED <<program, kernelState, active, madeProgress>>
  PROVE  IInv'
<1> DEFINE g == Head(candidates)
<1>1. /\ TypeOK /\ Control /\ Stages /\ Order /\ Passing /\ Verdict /\ GoesOn
      /\ NoKernel \notin Kernels
  BY KernelsAssumption DEF IInv
<1>2. /\ phase = "pass" /\ phase' = phase /\ current = NoKernel /\ ~MayRun(g)
      /\ candidates # << >> /\ candidates' = Tail(candidates)
      /\ anyProgress' = anyProgress /\ blocked' = blocked /\ current' = current
      /\ inKernel' = inKernel /\ timestamp' = timestamp /\ lastRun' = lastRun
      /\ passed' = passed
  BY DEF SkipKernel
<1>3. /\ g \in active /\ g \in Kernels /\ candidates' \in Seq(Kernels)
      /\ Waiting' = Waiting \ {g}
      /\ \A i, j \in DOMAIN candidates' : candidates'[i] = candidates'[j] => i = j
  BY <1>2, TakesHead
<1>4. \A k : MayRun(k)' <=> MayRun(k)
  BY <1>2, SchedulerLeaves DEF MayRun
<1>5. TypeOK'
  BY <1>1, <1>2, <1>3, SchedulerLeaves DEF TypeOK
<1>6. Control'
  BY <1>1, <1>2, <1>3, SchedulerLeaves DEF Control
<1>7. Stages'
  BY <1>1, <1>2, SchedulerLeaves DEF Stages
<1>8. GoesOn'
  BY <1>1, <1>2, SchedulerLeaves DEF GoesOn
<1>9. Verdict'
  <2>1. ASSUME ~anyProgress, NEW k \in active \ Waiting'
        PROVE  ~MayRun(k)
    BY <1>1, <1>2, <1>3, <2>1 DEF Verdict
  <2> QED BY <1>2, <1>4, <2>1, SchedulerLeaves DEF Verdict
<1>10. Order'
  BY <1>1, <1>2, TakesHead DEF Order
<1>11. Passing'
  <2>1. ASSUME NEW k \in active', NEW j \in passed'[k]
        PROVE  /\ \A i \in DOMAIN candidates' :
                    candidates'[i] = j => \E h \in DOMAIN candidates' : h < i /\ candidates'[h] = k
               /\ k \notin Waiting' => Before(k, j)'
    <3>1. k \in active /\ k \in Kernels /\ j \in passed[k] /\ k # g
      BY <1>1, <1>2, <2>1, SchedulerLeaves DEF Passing, TypeOK
    <3>2. /\ \A i \in DOMAIN candidates :
               candidates[i] = j => \E h \in DOMAIN candidates : h < i /\ candidates[h] = k
          /\ k \notin Waiting => Before(k, j)
      BY <1>1, <3>1 DEF Passing
    <3>3. \A x, y :
            /\ x # Head(candidates)
            /\ \A i \in DOMAIN candidates :
                 candidates[i] = y => \E h \in DOMAIN candidates : h < i /\ candidates[h] = x
            => \A i \in DOMAIN candidates' :
                 candidates'[i] = y => \E h \in DOMAIN candidates' : h < i /\ candidates'[h] = x
      BY <1>2, TakesHead
    <3>4. \A i \in DOMAIN candidates' :
            candidates'[i] = j => \E h \in DOMAIN candidates' : h < i /\ candidates'[h] = k
      BY <3>1, <3>2, <3>3
    <3>5. k \notin Waiting' => Before(k, j)'
      BY <1>2, <1>3, <3>1, <3>2, SchedulerLeaves DEF Before
    <3> QED BY <3>4, <3>5
  <2> QED BY <1>1, <1>2, <1>4, <2>1 DEF Passing
<1> QED BY <1>5, <1>6, <1>7, <1>8, <1>9, <1>10, <1>11, SchedulerLeaves DEF IInv

(* The order of the kernels is a number of each.                           *)
LEMMA IndexIsInjective ==
  ASSUME NEW k \in Kernels
  PROVE  /\ Index(k) \in Nat
         /\ \A j \in Kernels : Index(j) = Index(k) => j = k
<1>1. \A j \in Kernels : \E i \in DOMAIN KernelOrder : KernelOrder[i] = j
  BY DEF Kernels, Range
<1>2. \A j \in Kernels : Index(j) \in DOMAIN KernelOrder /\ KernelOrder[Index(j)] = j
  BY <1>1 DEF Index
<1>3. DOMAIN KernelOrder \subseteq Nat
  BY KernelsAssumption
<1> QED BY <1>2, <1>3

(* A pass is over all that are active, in order.                           *)
LEMMA PassIsInOrder ==
  ASSUME TypeOK, NEW rank, \A k \in Kernels : rank[k] \in Nat, NEW q \in InOrder(rank)
  PROVE  /\ q \in Seq(Kernels) /\ Range(q) = active
         /\ DOMAIN q \subseteq Nat
         /\ \A i, j \in DOMAIN q : q[i] = q[j] => i = j
         /\ \A i, j \in DOMAIN q : i < j => q[i] # q[j] /\ rank[q[i]] <= rank[q[j]]
         /\ \A i, j \in DOMAIN q : rank[q[i]] < rank[q[j]] => i < j
<1>1. active \subseteq Kernels
  BY DEF TypeOK
<1>2. PICK n \in Nat : n = Cardinality(active)
  <2>1. IsFiniteSet(active)
    BY <1>1, KernelsAreFinite, FS_Subset
  <2> QED BY <2>1, FS_CardinalityType
<1>3. /\ q \in [1 .. n -> active] /\ Range(q) = active
      /\ \A i, j \in DOMAIN q : i < j => q[i] # q[j] /\ rank[q[i]] <= rank[q[j]]
  BY <1>2 DEF InOrder
<1>4. DOMAIN q = 1 .. n /\ \A i \in 1 .. n : q[i] \in Kernels
  BY <1>1, <1>3
<1>5. q \in Seq(Kernels)
  BY <1>3, <1>4
<1>6. ASSUME NEW i \in 1 .. n, NEW j \in 1 .. n, q[i] = q[j] PROVE i = j
  <2>1. ~(i < j) /\ ~(j < i)
    BY <1>3, <1>4, <1>6
  <2> QED BY <2>1
<1>7. ASSUME NEW i \in 1 .. n, NEW j \in 1 .. n, rank[q[i]] < rank[q[j]] PROVE i < j
  <2>1. rank[q[i]] \in Nat /\ rank[q[j]] \in Nat
    BY <1>4
  <2>2. i # j
    BY <1>7, <2>1
  <2>3. ~(j < i)
    <3>1. CASE j < i
      <4>1. rank[q[j]] <= rank[q[i]]
        BY <1>3, <1>4, <3>1
      <4> QED BY <1>7, <2>1, <4>1
    <3> QED BY <3>1
  <2> QED BY <2>2, <2>3
<1> QED BY <1>3, <1>4, <1>5, <1>6, <1>7

(* The pass starts.                                                        *)
LEMMA StartKeeps ==
  ASSUME IInv, outcome = "running", outcome' = "running", StartPass,
         UNCHANGED <<program, kernelState, active, madeProgress>>
  PROVE  IInv'
<1> DEFINE rank == IF algorithm = "fair" THEN lastRun ELSE [k \in Kernels |-> Index(k)]
           q == candidates'
<1>1. /\ TypeOK /\ Control /\ Stages /\ Order /\ Passing /\ Verdict /\ GoesOn
      /\ NoKernel \notin Kernels
  BY KernelsAssumption DEF IInv
<1>2. /\ phase = "top" /\ phase' = "pass" /\ anyProgress' = FALSE
      /\ blocked' = blocked /\ current' = current
      /\ inKernel' = inKernel /\ timestamp' = timestamp /\ lastRun' = lastRun
      /\ passed' = passed
      /\ current = NoKernel
  BY <1>1 DEF StartPass, Control
<1>3. q \in InOrder(rank)
  <2>1. CASE algorithm = "fair"
    BY <2>1 DEF StartPass, FairOrder
  <2>2. CASE algorithm # "fair"
    BY <2>2 DEF StartPass, DictOrder, Index
  <2> QED BY <2>1, <2>2
<1>4. \A k \in Kernels : rank[k] \in Nat
  BY <1>1, IndexIsInjective DEF TypeOK
<1>5. /\ q \in Seq(Kernels) /\ Range(q) = active
      /\ DOMAIN q \subseteq Nat
      /\ \A i, j \in DOMAIN q : q[i] = q[j] => i = j
      /\ \A i, j \in DOMAIN q : i < j => q[i] # q[j] /\ rank[q[i]] <= rank[q[j]]
      /\ \A i, j \in DOMAIN q : rank[q[i]] < rank[q[j]] => i < j
  <2> HIDE DEF rank, q
  <2> QED BY <1>1, <1>3, <1>4, PassIsInOrder
<1>6. Waiting' = active /\ active' = active /\ algorithm' = algorithm /\ Waiting = {}
  BY <1>1, <1>2, <1>5, SchedulerLeaves DEF Waiting, Control, Range
<1>7. \A k : MayRun(k)' <=> MayRun(k)
  BY <1>2, SchedulerLeaves DEF MayRun
<1>8. TypeOK'
  BY <1>1, <1>2, <1>5, SchedulerLeaves DEF TypeOK
<1>9. Control'
  BY <1>1, <1>2, <1>5, <1>6, SchedulerLeaves DEF Control
<1>10. Stages'
  BY <1>1, <1>2, SchedulerLeaves DEF Stages
<1>11. GoesOn'
  BY <1>1, <1>2, SchedulerLeaves DEF GoesOn
<1>12. Verdict'
  BY <1>2, <1>6 DEF Verdict
<1>13. Order'
  <2>1. ASSUME algorithm = "greedy", NEW i \in DOMAIN q, NEW j \in DOMAIN q, i < j
        PROVE  Index(q[i]) < Index(q[j])
    <3>1. q[i] \in Kernels /\ q[j] \in Kernels
      BY <1>5
    <3>2. q[i] # q[j] /\ Index(q[i]) <= Index(q[j])
      BY <1>5, <2>1, <3>1
    <3> QED BY <3>1, <3>2, IndexIsInjective
  <2> QED BY <1>1, <1>2, <1>6, <2>1 DEF Order
<1>14. Passing'
  <2>1. ASSUME NEW k \in active', NEW j \in passed'[k],
               NEW i \in DOMAIN q, q[i] = j
        PROVE  \E h \in DOMAIN q : h < i /\ q[h] = k
    <3>1. k \in active /\ k \in Kernels /\ j \in passed[k] /\ j \in Kernels /\ j # NoKernel
      BY <1>1, <1>2, <1>6, <2>1 DEF TypeOK
    <3>2. Before(k, j)
      BY <1>1, <1>6, <3>1 DEF Passing
    <3>3. j \in active
      BY <1>5, <2>1 DEF Range
    <3>4. rank[k] < rank[j]
      BY <1>1, <1>2, <3>1, <3>2, <3>3 DEF Before, TypeOK
    <3>5. PICK h \in DOMAIN q : q[h] = k
      BY <1>5, <3>1 DEF Range
    <3>6. h < i
      <4> HIDE DEF rank, q
      <4> QED BY <1>5, <2>1, <3>4, <3>5
    <3> QED BY <3>5, <3>6
  <2>2. \A k \in Kernels : passed'[k] # {} => MayRun(k)' /\ k # current'
    BY <1>1, <1>2, <1>7 DEF Passing
  <2> QED BY <1>6, <2>1, <2>2 DEF Passing
<1> QED BY <1>8, <1>9, <1>10, <1>11, <1>12, <1>13, <1>14, SchedulerLeaves DEF IInv

(* The pass, or the initialization, ends.                                  *)
LEMMA EndKeeps ==
  ASSUME IInv, outcome = "running", outcome' = "running", current = NoKernel,
         candidates = << >>, phase' = "top",
         UNCHANGED <<program, kernelState, active, madeProgress, candidates, anyProgress,
                     blocked, current, inKernel, timestamp, lastRun, passed>>
  PROVE  IInv'
<1>1. /\ TypeOK /\ Control /\ Stages /\ Order /\ Passing /\ Verdict /\ GoesOn
  BY DEF IInv
<1>2. /\ \A k : MayRun(k)' <=> MayRun(k)
      /\ Waiting' = Waiting /\ active' = active /\ algorithm' = algorithm
  BY SchedulerLeaves DEF MayRun, Waiting
<1>3. TypeOK'
  BY <1>1, SchedulerLeaves DEF TypeOK
<1>4. Control' /\ Verdict'
  BY <1>1, <1>2 DEF Control, Verdict
<1>5. Stages' /\ GoesOn'
  BY <1>1, SchedulerLeaves DEF Stages, GoesOn
<1>6. Order'
  BY <1>1, <1>2 DEF Order
<1>7. Passing'
  BY <1>1, <1>2 DEF Passing, Before
<1> QED BY <1>3, <1>4, <1>5, <1>6, <1>7, SchedulerLeaves DEF IInv

(* The answer is given.                                                    *)
LEMMA TerminateKeeps ==
  ASSUME IInv, Terminate
  PROVE  IInv'
<1>1. /\ TypeOK /\ Control /\ Stages /\ Order /\ Passing /\ Verdict /\ GoesOn
  BY DEF IInv
<1>2. UNCHANGED <<program, kernelState, active, madeProgress, candidates, anyProgress,
                  blocked, current, inKernel, timestamp, lastRun, passed, phase>>
  BY DEF Terminate, loop, clock
<1>3. /\ \A k : MayRun(k)' <=> MayRun(k)
      /\ Waiting' = Waiting /\ active' = active /\ algorithm' = algorithm
  BY <1>2, SchedulerLeaves DEF MayRun, Waiting
<1>4. Verdict' /\ outcome' \in {"finished", "deadlock"}
  <2>1. CASE phase = "top" /\ active = {} /\ outcome' = "finished"
    BY <1>2, <1>3, <2>1 DEF Verdict
  <2>2. CASE /\ phase = "pass"
             /\ current = NoKernel
             /\ candidates = << >>
             /\ ~anyProgress
             /\ active # {}
             /\ outcome' = "deadlock"
    <3>1. Waiting = {}
      BY <2>2 DEF Waiting, Range
    <3>2. \A k \in active : ~MayRun(k)
      BY <1>1, <2>2, <3>1 DEF Verdict
    <3> QED BY <1>2, <1>3, <2>2, <3>2 DEF Verdict
  <2> QED BY <2>1, <2>2 DEF Terminate
<1>5. TypeOK'
  BY <1>1, <1>2, <1>4, SchedulerLeaves DEF TypeOK
<1>6. Control'
  BY <1>1, <1>2, <1>3 DEF Control
<1>7. Stages' /\ GoesOn'
  BY <1>1, <1>2, SchedulerLeaves DEF Stages, GoesOn
<1>8. Order'
  BY <1>1, <1>2, <1>3 DEF Order
<1>9. Passing'
  BY <1>1, <1>2, <1>3 DEF Passing, Before
<1> QED BY <1>2, <1>4, <1>5, <1>6, <1>7, <1>8, <1>9, SchedulerLeaves DEF IInv

LEMMA StartIsRight ==
  ASSUME OneKernelPerEnd, Init
  PROVE  IInv
<1>1. WellFormed(script)
  BY ScriptsAreWellFormed DEF Init
<1>2. Net = NetStart
  <2>1. [k \in Kernels |-> stage[k] # "begin"] = [k \in Kernels |-> FALSE]
    BY DEF Init
  <2> QED BY <2>1 DEF Init, Net, NetStart
<1>3. Tracks(script, Net) /\ Net \in NetState
  BY <1>1, <1>2, TracksStart DEF Tracks, NetOK
<1>4. KernelOrder \in Seq(Kernels) /\ Range(KernelOrder) = Kernels /\ NoKernel \notin Kernels
      /\ \A i, j \in DOMAIN KernelOrder : KernelOrder[i] = KernelOrder[j] => i = j
  BY KernelsAssumption DEF Kernels
<1>5. TypeOK
  <2>1. script \in [Kernels -> Seq(Call)]
    BY <1>1 DEF WellFormed
  <2>2. chan \in Channels
    BY <1>3 DEF Net, NetState
  <2>3. candidates \in Seq(Kernels)
    BY <1>4 DEF Init
  <2> QED BY <2>1, <2>2, <2>3 DEF Init, TypeOK, Party
<1>6. Waiting \in {{}, Kernels} /\ (Waiting = Kernels \/ candidates = << >>)
  BY <1>4, SMTT(30) DEF Init, Waiting, Range
<1>7. Control
  BY <1>4, <1>6 DEF Init, Control
<1>8. Stages /\ GoesOn
  BY DEF Init, Stages, GoesOn
<1>9. Verdict
  BY DEF Init, Verdict
<1>10. Order
  BY <1>6 DEF Init, Order
<1>11. Passing
  BY <1>6 DEF Init, Passing
<1> QED BY <1>1, <1>3, <1>5, <1>7, <1>8, <1>9, <1>10, <1>11 DEF IInv, Init

LEMMA StepKeeps ==
  ASSUME SoleReceivers, IInv, [Next]_vars
  PROVE  IInv'
<1>1. CASE outcome = "running" /\ KernelStep
  BY <1>1, KernelStepKeeps
<1>2. CASE SchedulerStep
  <2>1. /\ outcome = "running" /\ outcome' = "running"
        /\ UNCHANGED <<program, kernelState, active, madeProgress>>
    BY <1>2 DEF SchedulerStep
  <2>2. CASE InitialSwitch
    <3>1. current = NoKernel /\ candidates # << >> /\ Switch(Head(candidates))
          /\ phase = "init" /\ UNCHANGED <<phase, anyProgress, timestamp, lastRun>>
      BY <2>2 DEF InitialSwitch
    <3>2. UNCHANGED <<program, kernelState, active, madeProgress,
                      phase, anyProgress, timestamp, lastRun>>
      BY <2>1, <3>1
    <3> QED BY <2>1, <3>1, <3>2, SwitchKeeps
  <2>3. CASE AfterInitialSwitch
    <3>1. /\ current # NoKernel /\ ~inKernel /\ current' = NoKernel /\ phase = "init"
          /\ UNCHANGED <<blocked, inKernel, loop, passed>>
      BY <2>3 DEF AfterInitialSwitch
    <3>2. UNCHANGED <<program, kernelState, active, madeProgress, phase, candidates,
                      blocked, inKernel, passed>>
      BY <2>1, <3>1 DEF loop
    <3>3. current \in active => madeProgress[current]
      BY <3>1 DEF IInv, Control, Stages
    <3>4. \/ timestamp' = timestamp + 1 /\ lastRun' = [lastRun EXCEPT ![current] = timestamp + 1]
          \/ current \notin active /\ UNCHANGED <<timestamp, lastRun>>
      BY <2>3, <3>3 DEF AfterInitialSwitch
    <3>5. anyProgress' \in BOOLEAN /\ (phase = "pass" => anyProgress')
      BY <3>1 DEF loop, IInv, TypeOK
    <3> QED BY <2>1, <3>1, <3>2, <3>4, <3>5, BackKeeps
  <2>4. CASE EndInitialization
    <3>1. /\ current = NoKernel /\ candidates = << >> /\ phase' = "top"
          /\ UNCHANGED <<blocked, current, inKernel, candidates, anyProgress, timestamp,
                         lastRun, passed>>
      BY <2>4 DEF EndInitialization
    <3>2. UNCHANGED <<program, kernelState, active, madeProgress, candidates, anyProgress,
                      blocked, current, inKernel, timestamp, lastRun, passed>>
      BY <2>1, <3>1
    <3> QED BY <2>1, <3>1, <3>2, EndKeeps
  <2>5. CASE StartPass
    BY <2>1, <2>5, StartKeeps
  <2>6. CASE SkipKernel
    BY <2>1, <2>6, SkipKeeps
  <2>7. CASE RunKernel
    <3>1. current = NoKernel /\ candidates # << >> /\ Switch(Head(candidates))
          /\ MayRun(Head(candidates)) /\ UNCHANGED <<phase, anyProgress, timestamp, lastRun>>
      BY <2>7 DEF RunKernel
    <3>2. UNCHANGED <<program, kernelState, active, madeProgress,
                      phase, anyProgress, timestamp, lastRun>>
      BY <2>1, <3>1
    <3> QED BY <2>1, <3>1, <3>2, SwitchKeeps
  <2>8. CASE AfterSwitch
    <3>1. /\ current # NoKernel /\ ~inKernel /\ current' = NoKernel
          /\ timestamp' = timestamp + 1
          /\ lastRun' = [lastRun EXCEPT ![current] = timestamp + 1]
          /\ anyProgress' = TRUE
          /\ UNCHANGED <<phase, candidates, blocked, inKernel, passed>>
      BY <2>8 DEF AfterSwitch
    <3>2. UNCHANGED <<program, kernelState, active, madeProgress, phase, candidates,
                      blocked, inKernel, passed>>
      BY <2>1, <3>1
    <3> QED BY <2>1, <3>1, <3>2, BackKeeps
  <2>9. CASE EndPass
    <3>1. /\ current = NoKernel /\ candidates = << >> /\ phase' = "top"
          /\ UNCHANGED <<blocked, current, inKernel, candidates, anyProgress, timestamp,
                         lastRun, passed>>
      BY <2>9 DEF EndPass
    <3>2. UNCHANGED <<program, kernelState, active, madeProgress, candidates, anyProgress,
                      blocked, current, inKernel, timestamp, lastRun, passed>>
      BY <2>1, <3>1
    <3> QED BY <2>1, <3>1, <3>2, EndKeeps
  <2> QED BY <1>2, <2>2, <2>3, <2>4, <2>5, <2>6, <2>7, <2>8, <2>9 DEF SchedulerStep
<1>3. CASE Terminate
  BY <1>3, TerminateKeeps
<1>4. CASE UNCHANGED vars
  <2>1. UNCHANGED <<program, kernelState, active, madeProgress>>
    BY <1>4 DEF vars, clock
  <2>2. UNCHANGED <<candidates, anyProgress, blocked, current, inKernel, timestamp,
                    lastRun, passed, phase, outcome>>
    BY <1>4 DEF vars, clock, loop
  <2>3. /\ \A k : MayRun(k)' <=> MayRun(k)
        /\ Waiting' = Waiting /\ active' = active /\ algorithm' = algorithm
    BY <2>1, <2>2, SchedulerLeaves DEF MayRun, Waiting
  <2>4. TypeOK' /\ Control' /\ Stages' /\ GoesOn' /\ Verdict' /\ Order' /\ Passing'
    <3>1. TypeOK'
      BY <2>1, <2>2, <2>3, SchedulerLeaves DEF IInv, TypeOK
    <3>2. Control'
      BY <2>1, <2>2, <2>3, SchedulerLeaves DEF IInv, Control
    <3>3. Stages'
      BY <2>1, <2>2, <2>3, SchedulerLeaves DEF IInv, Stages
    <3>4. GoesOn'
      BY <2>1, <2>2, <2>3, SchedulerLeaves DEF IInv, GoesOn
    <3>5. Verdict'
      BY <2>1, <2>2, <2>3, SchedulerLeaves DEF IInv, Verdict
    <3>6. Order'
      BY <2>1, <2>2, <2>3, SchedulerLeaves DEF IInv, Order, Before
    <3>7. Passing'
      BY <2>1, <2>2, <2>3, SchedulerLeaves DEF IInv, Passing, Before
    <3> QED BY <3>1, <3>2, <3>3, <3>4, <3>5, <3>6, <3>7
  <2> QED BY <2>1, <2>4, SchedulerLeaves DEF IInv
<1> QED BY <1>1, <1>2, <1>3, <1>4 DEF Next

-----------------------------------------------------------------------------
(* The inductive invariant: every step of the simulator is a step of the   *)
(* kernels' network, and the scheduler knows who can go on.                *)
THEOREM Invariance ==
  ASSUME OneKernelPerEnd, SoleReceivers
  PROVE  Spec => []IInv
<1>1. Init => IInv
  BY StartIsRight
<1>2. IInv /\ [Next]_vars => IInv'
  BY StepKeeps
<1> QED BY <1>1, <1>2, PTL DEF Spec

(* A run that is over is one in which no kernel can go on.                 *)
LEMMA OverIsQuiet ==
  ASSUME IInv, SoleReceivers, outcome \in {"finished", "deadlock"}
  PROVE  Quiet(script, Net)
<1> SUFFICES ASSUME NEW k \in Kernels, NetCan(script, Net, k)
             PROVE  FALSE
  BY DEF Quiet
<1>1. k \in active
  BY SameNames
<1>2. outcome = "deadlock" /\ ~MayRun(k)
  BY <1>1 DEF IInv, Verdict
<1>3. k \in blocked /\ ~SchedulerCan(chan, CallOf(k), k)
  BY <1>1, <1>2 DEF MayRun
<1>4. ~AtEnd(k) /\ stage[k] # "begin"
  BY <1>1, <1>3 DEF IInv, Stages
<1>5. CallOf(k) \in Range(script[k])
  BY <1>4, NextCall DEF IInv, Tracks
<1>6. ~Can(chan, CallOf(k), k)
  BY <1>3, <1>5, SchedulerSees DEF IInv
<1> QED BY <1>4, <1>6, SameNames

LEMMA AnswerFollows ==
  ASSUME IInv, SoleReceivers
  PROVE  AnswerIsRight
<1> SUFFICES ASSUME outcome \in {"finished", "deadlock"}
             PROVE  /\ outcome = "finished" <=> Settle(script).left = {}
                    /\ active = Settle(script).left
                    /\ pos = Settle(script).pos
                    /\ chan = Settle(script).chan
  BY DEF AnswerIsRight
<1>1. WellFormed(script) /\ Tracks(script, Net)
  BY DEF IInv
<1>2. /\ Cardinality(Steps(script)) \in Nat
      /\ Quiet(script, Settle(script))
  BY <1>1, TraceEnds DEF Settle
<1>3. \A x \in Party : SameFor(script, x, Net, Settle(script))
  BY <1>1, <1>2, OverIsQuiet, TracksEnd DEF Settle
<1>4. Settle(script) \in NetState /\ Net \in NetState
  BY <1>1, <1>2, TraceSteps DEF Settle, NetOK, Tracks
<1>5. Net.pos = Settle(script).pos /\ Net.left = Settle(script).left
      /\ Net.chan = Settle(script).chan
  BY <1>3, <1>4, SameForAll
<1>6. Net.pos = pos /\ Net.left = active /\ Net.chan = chan
  BY DEF Net
<1>7. outcome = "finished" <=> active = {}
  BY DEF IInv, Verdict
<1> QED BY <1>5, <1>6, <1>7

(* A run that ends says whether the program can complete: where it stops,  *)
(* every kernel is as far, and every buffer and pipe as it is, as after    *)
(* any other schedule; so both algorithms of greenlet_scheduler.py give    *)
(* the same answer, for every program whose ends belong to one kernel.     *)
THEOREM AnswerRight ==
  ASSUME OneKernelPerEnd, SoleReceivers
  PROVE  Spec => []AnswerIsRight
<1>1. IInv => AnswerIsRight
  BY AnswerFollows
<1> QED BY <1>1, Invariance, PTL

(* A kernel is resumed only when its call can proceed: what the comment at *)
(* copyhandlers.py:307-308 relies on.                                      *)
THEOREM ResumedSucceed ==
  ASSUME OneKernelPerEnd, SoleReceivers
  PROVE  Spec => []ResumedCallsSucceed
<1>1. IInv => ResumedCallsSucceed
  BY DEF IInv, Verdict, ResumedCallsSucceed
<1> QED BY <1>1, Invariance, PTL

(* No kernel starves, under the fair order of least recently run and under *)
(* the order of the dict.                                                  *)
THEOREM PassedOnce ==
  ASSUME OneKernelPerEnd, SoleReceivers
  PROVE  Spec => PassedAtMostOnce
<1> DEFINE Once == \A j, k \in Kernels :
                     current = NoKernel /\ current' = j /\ j # k /\ MayRun(k)
                       => j \notin passed[k]
<1>1. ASSUME IInv, [Next]_vars
      PROVE  [Once]_vars
  <2> SUFFICES ASSUME NEW j \in Kernels, NEW k \in Kernels,
                      current = NoKernel, current' = j, j # k, MayRun(k), j \in passed[k]
               PROVE  FALSE
    OBVIOUS
  <2>1. j # NoKernel
    BY KernelsAssumption
  <2>2. candidates # << >> /\ j = Head(candidates)
    <3>1. InitialSwitch \/ RunKernel
      BY <1>1, <2>1 DEF Next, KernelStep, SchedulerStep, Terminate, vars, AfterInitialSwitch,
         EndInitialization, StartPass, SkipKernel, AfterSwitch, EndPass
    <3> QED BY <3>1 DEF InitialSwitch, RunKernel, Switch
  <2>3. candidates \in Seq(Kernels) /\ k \in active
    BY <1>1 DEF IInv, TypeOK, MayRun
  <2>4. 1 \in DOMAIN candidates /\ candidates[1] = j
    BY <2>2, <2>3
  <2>5. PICK h \in DOMAIN candidates : h < 1
    BY <1>1, <2>3, <2>4 DEF IInv, Passing
  <2> QED BY <2>3, <2>5
<1> QED BY <1>1, Invariance, PTL DEF Spec, PassedAtMostOnce
=============================================================================
