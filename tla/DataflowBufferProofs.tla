------------------------ MODULE DataflowBufferProofs ------------------------
(***************************************************************************)
(* The safety of the ring, for every capacity, every data set and every    *)
(* assignment of roles, with one or two kernels and with or without stale  *)
(* handles.                                                                *)
(*                                                                         *)
(* The invariant is about the ring and the two blocks handed out, and is   *)
(* stated of arbitrary values (RingOK, Held) so that the push and the pop  *)
(* that a returning kernel performs in one step compose.                   *)
(*                                                                         *)
(* From it follows that the buffer implements BlockChannel, as long as no  *)
(* kernel pops through a handle whose block it has already given back: the *)
(* last part of the module is first about the queue that the ring stands   *)
(* for (what pushing, popping and overwriting do to it) and then maps each *)
(* step of the buffer to a step of the channel.                            *)
(***************************************************************************)
EXTENDS DataflowBuffer, BlockStateProofs, SequenceTheorems

At(h, i) == (h + i) % Cap

(* The block b, if any, was acquired by this kernel in this way.           *)
Held(b, acquisition, k) ==
  b # NoBlock =>
    /\ b \in Block
    /\ b.owner = k
    /\ b.sm.acquisition = acquisition
    /\ Consistent(b.sm)
    /\ TracksCopies(b.sm, b.reads, b.writing)

RingOK(h, v, r, c, rb, wb) ==
  /\ h \in Slots /\ v \in 0 .. Cap /\ r \in 0 .. Cap /\ c \in [Slots -> Content]
  /\ v + r <= Cap
  /\ r = IF rb # NoBlock THEN 1 ELSE 0
  /\ rb # NoBlock => rb.slot = At(h, v)
  /\ wb # NoBlock => wb.slot = h /\ v >= 1
  /\ \A i \in Slots :
       /\ i < v => c[At(h, i)] \in Data
       /\ i >= v + r => c[At(h, i)] = Empty
  /\ rb # NoBlock /\ rb.sm.access \in {"MR", "RW", "ROR"} => c[rb.slot] \in Data

PcShape ==
  /\ pc \in [Kernels -> {"running", "reserve", "wait", "done"}]
  /\ reservedBlock # NoBlock => pc[Producer] \notin {"reserve", "done"}
  /\ waitedBlock # NoBlock => pc[Consumer] \notin {"wait", "done"}
  /\ \A k \in Kernels : /\ pc[k] = "reserve" => k = Producer
                        /\ pc[k] = "wait" => k = Consumer

IInv ==
  /\ RingOK(head, visible, reserved, buf, reservedBlock, waitedBlock)
  /\ Held(reservedBlock, "RESERVE", Producer)
  /\ Held(waitedBlock, "WAIT", Consumer)
  /\ PcShape
  /\ popped \in BOOLEAN
  /\ kernelType \in [Kernels -> KernelType]

-----------------------------------------------------------------------------
(* Positions in the ring: they stay in it, are different for different     *)
(* distances from the head, and move by one when the head does.            *)
LEMMA ModSmall ==
  ASSUME NEW n \in Nat, NEW m \in Nat, n < m
  PROVE  n % m = n
  OBVIOUS

(* Past the end of the ring, the remainder takes one capacity off.         *)
LEMMA ModWrap ==
  ASSUME NEW n \in Nat, NEW m \in Nat, m <= n, n < m + m
  PROVE  n % m = n - m
  OBVIOUS

(* A position in the ring, without the remainder.                          *)
LEMMA AtValue ==
  ASSUME NEW h \in Slots, NEW i \in 0 .. Cap
  PROVE  At(h, i) = IF h + i < Cap THEN h + i ELSE h + i - Cap
<1>1. h \in Nat /\ i \in Nat /\ Cap \in Nat /\ h < Cap /\ h + i < Cap + Cap
  BY CapAssumption DEF Slots
<1>2. CASE h + i < Cap
  BY <1>1, <1>2, ModSmall DEF At
<1>3. CASE ~(h + i < Cap)
  <2>1. h + i \in Nat /\ Cap <= h + i
    BY <1>1, <1>3
  <2>2. (h + i) % Cap = (h + i) - Cap
    BY <1>1, <2>1, ModWrap
  <2> QED
    BY <1>1, <1>3, <2>2 DEF At
<1> QED
  BY <1>2, <1>3

(* Positions up to one whole turn are slots.                               *)
LEMMA AtInRing ==
  ASSUME NEW h \in Slots, NEW i \in 0 .. Cap
  PROVE  At(h, i) \in Slots
  BY AtValue, CapAssumption DEF Slots

(* Positions less than one turn away are slots.                            *)
LEMMA AtSlot ==
  ASSUME NEW h \in Slots, NEW i \in Slots
  PROVE  At(h, i) \in Slots
<1>1. i \in 0 .. Cap
  BY CapAssumption DEF Slots
<1> QED
  BY <1>1, AtInRing

(* Different distances from the head are different slots.                  *)
LEMMA AtInjective ==
  ASSUME NEW h \in Slots, NEW i \in Slots, NEW j \in Slots, At(h, i) = At(h, j)
  PROVE  i = j
<1>1. i \in 0 .. Cap /\ j \in 0 .. Cap
  BY CapAssumption DEF Slots
<1> QED
  BY <1>1, AtValue, CapAssumption DEF Slots

(* No distance, and one whole turn, are the head itself.                   *)
LEMMA AtZero ==
  ASSUME NEW h \in Slots
  PROVE  At(h, 0) = h /\ 0 \in Slots /\ At(h, Cap) = h
<1>1. 0 \in 0 .. Cap /\ Cap \in 0 .. Cap
  BY CapAssumption
<1> QED
  BY <1>1, AtValue, CapAssumption DEF Slots

(* Counting from the next slot is counting one further from this one.      *)
LEMMA AtNext ==
  ASSUME NEW h \in Slots, NEW i \in Slots
  PROVE  /\ At(h, 1) \in Slots
         /\ At(At(h, 1), i) = At(h, i + 1)
<1>1. 1 \in 0 .. Cap /\ i \in 0 .. Cap /\ i + 1 \in 0 .. Cap
  BY CapAssumption DEF Slots
<1>2. At(h, 1) \in Slots
  BY <1>1, AtInRing
<1> QED
  BY <1>1, <1>2, AtValue, CapAssumption, SMTT(30) DEF Slots

-----------------------------------------------------------------------------
(* What the buffer does to the ring keeps it.                              *)
LEMMA PushKeepsRing ==
  ASSUME NEW h, NEW v, NEW r, NEW c, NEW rb, NEW wb,
         RingOK(h, v, r, c, rb, wb), Held(rb, "RESERVE", Producer),
         r >= 1, AcceptsPush(rb.sm)
  PROVE  RingOK(h, v + 1, r - 1, c, NoBlock, wb)
<1>1. rb # NoBlock /\ r = 1 /\ h \in Slots /\ v \in 0 .. Cap /\ c \in [Slots -> Content]
      /\ v + 1 <= Cap
  BY CapAssumption DEF RingOK
<1>2. c[At(h, v)] \in Data
  <2>1. rb.sm.access \in {"MR", "RW"}
    BY <1>1, ReleaseState DEF Held
  <2> QED
    BY <1>1, <2>1 DEF RingOK
<1>3. v + 1 \in 0 .. Cap /\ r - 1 \in 0 .. Cap /\ r - 1 = 0
  BY <1>1, CapAssumption
<1>4. wb # NoBlock => wb.slot = h /\ v + 1 >= 1
  BY <1>1, CapAssumption DEF RingOK
<1>5. ASSUME NEW i \in Slots
      PROVE  /\ i < v + 1 => c[At(h, i)] \in Data
             /\ i >= v + 1 + (r - 1) => c[At(h, i)] = Empty
  <2>1. i \in Nat /\ v \in Nat
    BY <1>1, CapAssumption DEF Slots
  <2>2. (i < v => c[At(h, i)] \in Data) /\ (i >= v + r => c[At(h, i)] = Empty)
    BY DEF RingOK
  <2> QED
    BY <1>1, <1>2, <2>1, <2>2
<1> QED
  BY <1>1, <1>3, <1>4, <1>5, CapAssumption DEF RingOK

(* pop_block() keeps the ring: the head moves and its old slot, now the    *)
(* last, is empty.                                                         *)
LEMMA PopKeepsRing ==
  ASSUME NEW h, NEW v, NEW r, NEW c, NEW rb, NEW wb,
         RingOK(h, v, r, c, rb, wb), Held(rb, "RESERVE", Producer), v >= 1
  PROVE  RingOK(At(h, 1), v - 1, r, [c EXCEPT ![h] = Empty], rb, NoBlock)
<1> DEFINE h2 == At(h, 1)
           c2 == [c EXCEPT ![h] = Empty]
<1>1. h \in Slots /\ v \in 0 .. Cap /\ r \in 0 .. Cap /\ c \in [Slots -> Content]
      /\ v + r <= Cap /\ r = IF rb # NoBlock THEN 1 ELSE 0
  BY DEF RingOK
<1>2. h2 \in Slots /\ v - 1 \in 0 .. Cap /\ v - 1 + r <= Cap
  BY <1>1, AtZero, AtNext, CapAssumption
<1>3. c2 \in [Slots -> Content]
  BY <1>1 DEF Content
<1>4. ASSUME NEW i \in Slots
      PROVE  At(h2, i) = At(h, i + 1)
  BY <1>1, <1>4, AtNext
<1>5. ASSUME NEW j \in Slots, j >= 1
      PROVE  At(h, j) \in Slots /\ At(h, j) # h /\ c2[At(h, j)] = c[At(h, j)]
  <2>1. At(h, j) # h
    BY <1>1, <1>5, AtZero, AtInjective
  <2>2. At(h, j) \in Slots
    BY <1>1, AtSlot
  <2> QED
    BY <1>1, <2>1, <2>2
<1>6. c2[h] = Empty
  BY <1>1
<1>7. rb # NoBlock => v \in Slots /\ v - 1 \in Slots /\ rb.slot = At(h, v)
  BY <1>1, CapAssumption DEF RingOK, Slots
<1>8. rb # NoBlock => rb.slot = At(h2, v - 1) /\ c2[rb.slot] = c[rb.slot]
  <2> SUFFICES ASSUME rb # NoBlock
               PROVE  rb.slot = At(h2, v - 1) /\ c2[rb.slot] = c[rb.slot]
    OBVIOUS
  <2>1. At(h2, v - 1) = At(h, v)
    <3>1. (v - 1) + 1 = v
      BY <1>1, CapAssumption
    <3> HIDE DEF h2
    <3> QED
      BY <1>4, <1>7, <3>1
  <2>2. c2[At(h, v)] = c[At(h, v)]
    BY <1>5, <1>7
  <2> QED
    BY <1>7, <2>1, <2>2
<1>9. ASSUME NEW i \in Slots
      PROVE  /\ i < v - 1 => c2[At(h2, i)] \in Data
             /\ i >= v - 1 + r => c2[At(h2, i)] = Empty
  <2>1. i \in Nat /\ v \in Nat /\ r \in Nat /\ i + 1 >= 1 /\ i + 1 <= Cap /\ Cap \in Nat
    BY <1>1, CapAssumption DEF Slots
  <2>2. CASE i + 1 = Cap
    <3>1. At(h2, i) = h
      BY <1>1, <1>4, <2>2, AtZero
    <3>2. ~(i < v - 1)
      BY <1>1, <2>1, <2>2
    <3> QED
      BY <1>6, <3>1, <3>2
  <2>3. CASE i + 1 # Cap
    <3>1. i + 1 \in Slots
      BY <2>1, <2>3 DEF Slots
    <3>2. c2[At(h2, i)] = c[At(h, i + 1)]
      BY <1>4, <1>5, <2>1, <3>1
    <3>3. (i + 1 < v => c[At(h, i + 1)] \in Data)
          /\ (i + 1 >= v + r => c[At(h, i + 1)] = Empty)
      BY <3>1 DEF RingOK
    <3>4. (i < v - 1 => i + 1 < v) /\ (i >= v - 1 + r => i + 1 >= v + r)
      BY <2>1
    <3> QED
      BY <3>2, <3>3, <3>4
  <2> QED
    BY <2>2, <2>3
<1>10. rb # NoBlock /\ rb.sm.access \in {"MR", "RW", "ROR"} => c2[rb.slot] \in Data
  BY <1>8 DEF RingOK
<1> HIDE DEF h2, c2
<1>11. RingOK(h2, v - 1, r, c2, rb, NoBlock)
  BY <1>1, <1>2, <1>3, <1>8, <1>9, <1>10 DEF RingOK
<1> QED
  BY <1>11 DEF h2, c2

(* reserve() keeps the ring: the first free slot is zeroed and handed out. *)
LEMMA ReserveKeepsRing ==
  ASSUME NEW h, NEW v, NEW r, NEW c, NEW wb, NEW b,
         RingOK(h, v, r, c, NoBlock, wb), Cap - v - r >= 1,
         b # NoBlock, b.slot = At(h, v), b.sm.access = "MW"
  PROVE  RingOK(h, v, r + 1, [c EXCEPT ![At(h, v)] = Zero], b, wb)
<1> DEFINE c2 == [c EXCEPT ![At(h, v)] = Zero]
<1>1. h \in Slots /\ v \in 0 .. Cap /\ r = 0 /\ c \in [Slots -> Content]
  BY DEF RingOK
<1>2. v \in Slots /\ v + 1 <= Cap
  BY <1>1, CapAssumption DEF Slots
<1>3. c2 \in [Slots -> Content]
  BY <1>1 DEF Content
<1>4. ASSUME NEW i \in Slots
      PROVE  /\ i < v => c2[At(h, i)] \in Data
             /\ i >= v + (r + 1) => c2[At(h, i)] = Empty
  <2>1. i # v => At(h, i) # At(h, v)
    BY <1>1, <1>2, AtInjective
  <2>2. At(h, i) \in Slots
    BY <1>1, AtSlot
  <2>3. i # v => c2[At(h, i)] = c[At(h, i)]
    BY <1>1, <2>1, <2>2
  <2>4. (i < v => c[At(h, i)] \in Data) /\ (i >= v + r => c[At(h, i)] = Empty)
    BY DEF RingOK
  <2>5. (i < v => i # v) /\ (i >= v + (r + 1) => i # v /\ i >= v + r)
    BY <1>1, CapAssumption DEF Slots
  <2> QED
    BY <2>3, <2>4, <2>5
<1>5. wb # NoBlock => wb.slot = h /\ v >= 1
  BY DEF RingOK
<1>6. r + 1 \in 0 .. Cap /\ v + (r + 1) <= Cap /\ r + 1 = 1
  BY <1>1, <1>2, CapAssumption
<1> HIDE DEF c2
<1>7. RingOK(h, v, r + 1, c2, b, wb)
  BY <1>1, <1>3, <1>4, <1>5, <1>6 DEF RingOK
<1> QED
  BY <1>7 DEF c2

(* A write into the slot of a block that has been handed out.              *)
LEMMA WriteKeepsRing ==
  ASSUME NEW h, NEW v, NEW r, NEW c, NEW rb, NEW wb,
         RingOK(h, v, r, c, rb, wb), NEW d \in Data, NEW s,
         \/ rb # NoBlock /\ s = rb.slot
         \/ wb # NoBlock /\ s = wb.slot
  PROVE  RingOK(h, v, r, [c EXCEPT ![s] = d], rb, wb)
<1> DEFINE c2 == [c EXCEPT ![s] = d]
<1>1. h \in Slots /\ v \in 0 .. Cap /\ r \in 0 .. Cap /\ c \in [Slots -> Content]
      /\ v + r <= Cap /\ r = IF rb # NoBlock THEN 1 ELSE 0
  BY DEF RingOK
<1>2. PICK n \in Slots : s = At(h, n) /\ n < v + r
  <2>1. CASE rb # NoBlock /\ s = rb.slot
    <3>1. v \in Slots /\ v < v + r
      BY <1>1, <2>1, CapAssumption DEF Slots
    <3> QED
      BY <2>1, <3>1 DEF RingOK
  <2>2. CASE wb # NoBlock /\ s = wb.slot
    <3>1. s = At(h, 0) /\ 0 \in Slots /\ v >= 1
      BY <1>1, <2>2, AtZero DEF RingOK
    <3>2. 0 < v + r
      BY <1>1, <3>1, CapAssumption
    <3> QED
      BY <3>1, <3>2
  <2> QED
    BY <2>1, <2>2
<1>3. s \in Slots
  BY <1>1, <1>2, AtSlot
<1>4. c2 \in [Slots -> Content] /\ c2[s] = d
  BY <1>1, <1>3 DEF Content
<1>5. ASSUME NEW t \in Slots, t # s
      PROVE  c2[t] = c[t]
  BY <1>1, <1>5
<1>6. ASSUME NEW i \in Slots
      PROVE  /\ i < v => c2[At(h, i)] \in Data
             /\ i >= v + r => c2[At(h, i)] = Empty
  <2>1. At(h, i) \in Slots
    BY <1>1, AtSlot
  <2>2. (i < v => c[At(h, i)] \in Data) /\ (i >= v + r => c[At(h, i)] = Empty)
    BY DEF RingOK
  <2>3. i >= v + r => i # n
    BY <1>1, <1>2, CapAssumption DEF Slots
  <2>4. i # n => At(h, i) # s
    BY <1>1, <1>2, AtInjective
  <2> HIDE DEF c2
  <2> QED
    BY <1>4, <1>5, <2>1, <2>2, <2>3, <2>4
<1>7. rb # NoBlock /\ rb.sm.access \in {"MR", "RW", "ROR"} => c2[rb.slot] \in Data
  <2>1. rb # NoBlock => rb.slot \in Slots
    BY <1>1, AtInRing DEF RingOK
  <2> HIDE DEF c2
  <2> QED
    BY <1>4, <1>5, <2>1 DEF RingOK
<1> HIDE DEF c2
<1>8. RingOK(h, v, r, c2, rb, wb)
  BY <1>1, <1>4, <1>6, <1>7 DEF RingOK
<1> QED
  BY <1>8 DEF c2

-----------------------------------------------------------------------------
(* What a kernel does with a block it holds keeps the block, its slot and  *)
(* the agreement of its state with its copies; and its tensor changes only *)
(* by being written.                                                       *)
LEMMA UseKeepsBlock ==
  ASSUME NEW b, NEW after, NEW acquisition, NEW k,
         b # NoBlock, Held(b, acquisition, k), UseBlock(b, after)
  PROVE  /\ after # NoBlock
         /\ Held(after, acquisition, k)
         /\ after.slot = b.slot
         /\ \/ /\ UNCHANGED buf
               /\ after.sm.access \in {"MR", "RW", "ROR"}
                    => b.sm.access \in {"MR", "RW", "ROR"}
            \/ \E v \in Data : buf' = [buf EXCEPT ![b.slot] = v]
<1>1. /\ b \in Block /\ b.owner = k /\ b.sm.acquisition = acquisition
      /\ Consistent(b.sm) /\ TracksCopies(b.sm, b.reads, b.writing)
      /\ b.reads \in Nat /\ b.writing \in BOOLEAN /\ b.sm \in Machine
  BY DEF Held, Block
<1>2. ASSUME NEW t, NEW n \in Nat, NEW w \in BOOLEAN, Keeps(b.sm, t, n, w),
             after = [b EXCEPT !.sm = t, !.reads = n, !.writing = w]
      PROVE  /\ after # NoBlock /\ Held(after, acquisition, k)
             /\ after.slot = b.slot /\ after.sm = t
  <2>1. t \in Machine
    BY <1>2 DEF Keeps, Consistent
  <2>2. /\ after \in Block /\ after.owner = b.owner /\ after.slot = b.slot
        /\ after.sm = t /\ after.reads = n /\ after.writing = w
    BY <1>1, <1>2, <2>1 DEF Block
  <2>3. after # NoBlock
    BY <2>2, NoBlockAssumption
  <2> QED
    BY <1>1, <1>2, <2>2, <2>3 DEF Held, Keeps
<1>3. CASE StartCopyOut(b, after)
  <2> DEFINE t == Transition(b.sm, "copy_src")
  <2>1. Keeps(b.sm, t, b.reads + 1, b.writing) /\ b.sm.access \in {"MR", "RW", "ROR"}
    BY <1>1, <1>3, CopySrcStep DEF StartCopyOut
  <2>2. after = [b EXCEPT !.sm = t, !.reads = b.reads + 1, !.writing = b.writing]
    BY <1>1, <1>3 DEF StartCopyOut, Block
  <2>3. b.reads + 1 \in Nat
    BY <1>1
  <2> HIDE DEF t
  <2>4. PICK n, w : n = b.reads + 1 /\ w = b.writing
    OBVIOUS
  <2>5. /\ n \in Nat /\ w \in BOOLEAN /\ Keeps(b.sm, t, n, w)
        /\ after = [b EXCEPT !.sm = t, !.reads = n, !.writing = w]
    BY <1>1, <2>1, <2>2, <2>3, <2>4
  <2>8. after # NoBlock /\ Held(after, acquisition, k)
        /\ after.slot = b.slot /\ after.sm = t
    BY <1>2, <2>5
  <2>9. UNCHANGED buf
    BY <1>3 DEF StartCopyOut
  <2> QED
    BY <2>8, <2>9, <2>1
<1>4. CASE FinishCopyOut(b, after)
  <2> DEFINE t == Transition(b.sm, "tx_wait")
  <2>1. Keeps(b.sm, t, b.reads - 1, b.writing) /\ b.sm.access = "ROR"
    BY <1>1, <1>4, TxWaitReadStep DEF FinishCopyOut
  <2>2. after = [b EXCEPT !.sm = t, !.reads = b.reads - 1, !.writing = b.writing]
    BY <1>1, <1>4 DEF FinishCopyOut, Block
  <2>3. b.reads - 1 \in Nat
    BY <1>1, <1>4 DEF FinishCopyOut
  <2> HIDE DEF t
  <2>4. PICK n, w : n = b.reads - 1 /\ w = b.writing
    OBVIOUS
  <2>5. /\ n \in Nat /\ w \in BOOLEAN /\ Keeps(b.sm, t, n, w)
        /\ after = [b EXCEPT !.sm = t, !.reads = n, !.writing = w]
    BY <1>1, <2>1, <2>2, <2>3, <2>4
  <2>8. after # NoBlock /\ Held(after, acquisition, k)
        /\ after.slot = b.slot /\ after.sm = t
    BY <1>2, <2>5
  <2>9. UNCHANGED buf
    BY <1>4 DEF FinishCopyOut
  <2> QED
    BY <2>8, <2>9, <2>1
<1>5. CASE StartCopyIn(b, after)
  <2> DEFINE t == Transition(b.sm, "copy_dst")
  <2>1. Keeps(b.sm, t, b.reads, TRUE) /\ t.access = "NAW"
    BY <1>1, <1>5, CopyDstStep DEF StartCopyIn
  <2>2. after = [b EXCEPT !.sm = t, !.reads = b.reads, !.writing = TRUE]
    BY <1>1, <1>5 DEF StartCopyIn, Block
  <2> HIDE DEF t
  <2>3. after # NoBlock /\ Held(after, acquisition, k)
        /\ after.slot = b.slot /\ after.sm = t
    BY <1>1, <1>2, <2>1, <2>2
  <2> QED
    BY <1>5, <2>1, <2>3 DEF StartCopyIn
<1>6. CASE FinishCopyIn(b, after)
  <2> DEFINE t == Transition(b.sm, "tx_wait")
  <2>1. Keeps(b.sm, t, b.reads, FALSE)
    BY <1>1, <1>6, TxWaitWriteStep DEF FinishCopyIn
  <2>2. after = [b EXCEPT !.sm = t, !.reads = b.reads, !.writing = FALSE]
    BY <1>1, <1>6 DEF FinishCopyIn, Block
  <2> HIDE DEF t
  <2>8. after # NoBlock /\ Held(after, acquisition, k)
        /\ after.slot = b.slot /\ after.sm = t
    BY <1>1, <1>2, <2>1, <2>2
  <2>9. \E v \in Data : buf' = [buf EXCEPT ![b.slot] = v]
    BY <1>6 DEF FinishCopyIn
  <2> QED
    BY <2>8, <2>9, <2>1
<1>7. CASE StoreInto(b, after)
  <2> DEFINE t == Transition(b.sm, "store_dst")
  <2>1. Keeps(b.sm, t, b.reads, b.writing)
    BY <1>1, <1>7, StoreDstStep DEF StoreInto
  <2>2. after = [b EXCEPT !.sm = t, !.reads = b.reads, !.writing = b.writing]
    BY <1>1, <1>7 DEF StoreInto, Block
  <2> HIDE DEF t
  <2>8. after # NoBlock /\ Held(after, acquisition, k)
        /\ after.slot = b.slot /\ after.sm = t
    BY <1>1, <1>2, <2>1, <2>2
  <2>9. \E v \in Data : buf' = [buf EXCEPT ![b.slot] = v]
    BY <1>7 DEF StoreInto
  <2> QED
    BY <2>8, <2>9, <2>1
<1>8. CASE ReadOperand(b, after)
  <2>1. PICK op \in {"assign_src", "store_src"} :
          Accepts(b.sm, op) /\ after = [b EXCEPT !.sm = Transition(b.sm, op)]
    BY <1>8 DEF ReadOperand
  <2> DEFINE t == Transition(b.sm, op)
  <2>2. Keeps(b.sm, t, b.reads, b.writing) /\ b.sm.access \in {"MR", "RW"}
    BY <1>1, <2>1, ReadSrcStep
  <2>3. after = [b EXCEPT !.sm = t, !.reads = b.reads, !.writing = b.writing]
    BY <1>1, <2>1 DEF Block
  <2> HIDE DEF t
  <2>8. after # NoBlock /\ Held(after, acquisition, k)
        /\ after.slot = b.slot /\ after.sm = t
    <3>1. PICK n, w : n = b.reads /\ w = b.writing
      OBVIOUS
    <3>2. /\ n \in Nat /\ w \in BOOLEAN /\ Keeps(b.sm, t, n, w)
          /\ after = [b EXCEPT !.sm = t, !.reads = n, !.writing = w]
      BY <1>1, <2>2, <2>3, <3>1
    <3> QED BY <1>2, <3>2
  <2>9. UNCHANGED buf
    BY <1>8 DEF ReadOperand
  <2> QED
    BY <2>8, <2>9, <2>2
<1> QED
  BY <1>3, <1>4, <1>5, <1>6, <1>7, <1>8 DEF UseBlock

-----------------------------------------------------------------------------
(* The conjuncts of IInv that a step can disturb, apart from pc.           *)
RingInv ==
  /\ RingOK(head, visible, reserved, buf, reservedBlock, waitedBlock)
  /\ Held(reservedBlock, "RESERVE", Producer)
  /\ Held(waitedBlock, "WAIT", Consumer)
  /\ popped \in BOOLEAN

(* push_block() is possible only on a reserved block the machine lets go.  *)
LEMMA MayPushImplies ==
  ASSUME RingInv, MayPush
  PROVE  reserved >= 1 /\ AcceptsPush(reservedBlock.sm) /\ reservedBlock # NoBlock
  BY DEF MayPush, RingInv, RingOK

(* push_block(), as an action, keeps the invariant of the ring.            *)
LEMMA PushKeepsInv ==
  ASSUME RingInv, PushBlock
  PROVE  RingInv'
<1>1. RingOK(head, visible + 1, reserved - 1, buf, NoBlock, waitedBlock)
  BY MayPushImplies, PushKeepsRing DEF PushBlock, RingInv
<1> QED
  BY <1>1 DEF PushBlock, RingInv, Held

(* pop_block(), as an action, keeps the invariant of the ring.             *)
LEMMA PopKeepsInv ==
  ASSUME RingInv, PopBlock
  PROVE  RingInv'
<1>1. visible >= 1
  BY DEF PopBlock, MayPop
<1>2. RingOK(At(head, 1), visible - 1, reserved, [buf EXCEPT ![head] = Empty],
             reservedBlock, NoBlock)
  BY <1>1, PopKeepsRing DEF RingInv
<1> QED
  BY <1>2 DEF PopBlock, RingInv, Held, At

(* The push and the pop of a returning kernel keep it together.            *)
LEMMA PushAndPopKeepsInv ==
  ASSUME RingInv, PushAndPopBlock
  PROVE  RingInv'
<1>1. RingOK(head, visible + 1, reserved - 1, buf, NoBlock, waitedBlock)
  BY MayPushImplies, PushKeepsRing DEF PushAndPopBlock, RingInv
<1>2. visible + 1 >= 1 /\ (visible + 1) - 1 = visible
  BY CapAssumption DEF RingInv, RingOK
<1>3. Held(NoBlock, "RESERVE", Producer)
  BY DEF Held
<1>4. RingOK(At(head, 1), (visible + 1) - 1, reserved - 1, [buf EXCEPT ![head] = Empty],
             NoBlock, NoBlock)
  BY <1>1, <1>2, <1>3, PopKeepsRing
<1> QED
  BY <1>2, <1>4 DEF PushAndPopBlock, RingInv, Held, At

(* The automatic push and pop keep it, whether they act or not.            *)
LEMMA AutoKeepsInv ==
  ASSUME RingInv, NEW k, AutoPushBlock(k) \/ AutoPopBlock(k)
  PROVE  RingInv'
<1>1. CASE UNCHANGED <<ring, blocks>>
  BY <1>1 DEF ring, blocks, RingInv
<1> QED
  BY <1>1, PushKeepsInv, PopKeepsInv DEF AutoPushBlock, AutoPopBlock

(* A block just handed out is consistent, quiet and its kernel's own.      *)
LEMMA NewBlockHeld ==
  ASSUME NEW acquisition \in BlockAcquisition, NEW k \in Kernels, NEW s \in Slots,
         kernelType \in [Kernels -> KernelType]
  PROVE  LET b == NewBlock(acquisition, k, s)
         IN  /\ b # NoBlock
             /\ b.slot = s
             /\ b.sm.access = IF acquisition = "RESERVE" THEN "MW" ELSE "MR"
             /\ Held(b, acquisition, k)
<1> DEFINE m == Initialize(acquisition, kernelType[k])
           b == NewBlock(acquisition, k, s)
<1>1. /\ Consistent(m) /\ TracksCopies(m, 0, FALSE) /\ m.acquisition = acquisition
      /\ m.access = IF acquisition = "RESERVE" THEN "MW" ELSE "MR"
  <2>1. kernelType[k] \in KernelType
    OBVIOUS
  <2>2. LET x == Initialize(acquisition, kernelType[k])
        IN  /\ Consistent(x) /\ TracksCopies(x, 0, FALSE) /\ x.acquisition = acquisition
            /\ x.access = IF acquisition = "RESERVE" THEN "MW" ELSE "MR"
    BY <2>1, InitializeConsistent, ZenonT(60)
  <2> QED
    BY <2>2
<1>2. b = [sm |-> m, owner |-> k, slot |-> s, reads |-> 0, writing |-> FALSE]
  BY DEF NewBlock
<1> HIDE DEF m, b
<1>3. b \in Block
  BY <1>1, <1>2 DEF Block, Consistent
<1>4. b # NoBlock
  BY <1>3, NoBlockAssumption
<1>5. Held(b, acquisition, k)
  BY <1>1, <1>2, <1>3 DEF Held
<1> QED
  BY <1>1, <1>2, <1>4, <1>5 DEF b

-----------------------------------------------------------------------------
(* An empty buffer satisfies the invariant.                                *)
LEMMA InitIInv == Init => IInv
<1> SUFFICES ASSUME Init PROVE IInv
  OBVIOUS
<1>1. head = 0 /\ visible = 0 /\ reserved = 0 /\ buf = [s \in Slots |-> Empty]
      /\ reservedBlock = NoBlock /\ waitedBlock = NoBlock
  BY DEF Init
<1>2. 0 \in Slots
  BY CapAssumption DEF Slots
<1>3. RingOK(head, visible, reserved, buf, reservedBlock, waitedBlock)
  <2>1. buf \in [Slots -> Content]
    BY <1>1 DEF Content
  <2>2. ASSUME NEW i \in Slots
        PROVE  ~(i < visible) /\ buf[At(head, i)] = Empty
    BY <1>1, <1>2, AtSlot, CapAssumption DEF Slots
  <2> QED
    BY <1>1, <1>2, <2>1, <2>2, CapAssumption DEF RingOK
<1>4. PcShape
  BY <1>1 DEF Init, PcShape
<1> QED
  BY <1>1, <1>3, <1>4 DEF IInv, Held, Init

(* Both halves of reserve() keep it.                                       *)
LEMMA ReserveKeepsInv ==
  ASSUME NEW k \in Kernels, IInv, ReserveBegin(k) \/ ReserveEnd(k)
  PROVE  IInv'
<1> USE DEF IInv
<1>1. CASE ReserveBegin(k)
  <2>1. RingInv'
    BY <1>1, AutoKeepsInv DEF ReserveBegin, RingInv
  <2>2. reservedBlock' = NoBlock /\ waitedBlock' = waitedBlock
    BY <1>1 DEF ReserveBegin, AutoPushBlock, HasReserved, PushBlock, blocks, Held
  <2>3. PcShape'
    BY <1>1, <2>2 DEF ReserveBegin, PcShape, Kernels
  <2> QED
    BY <1>1, <2>1, <2>3 DEF ReserveBegin, RingInv
<1>2. CASE ReserveEnd(k)
  <2> DEFINE b == NewBlock("RESERVE", k, BackSlot)
  <2>1. k = Producer /\ reservedBlock = NoBlock
    BY <1>2 DEF ReserveEnd, PcShape
  <2>2. head \in Slots /\ visible \in 0 .. Cap /\ BackSlot = At(head, visible)
        /\ Cap - visible - reserved >= 1
    BY <1>2 DEF RingOK, BackSlot, At, ReserveEnd, CanReserve, Free
  <2>3. BackSlot \in Slots
    BY <2>2, AtInRing
  <2>4. b # NoBlock /\ b.slot = BackSlot /\ b.sm.access = "MW" /\ Held(b, "RESERVE", k)
    BY <2>3, NewBlockHeld DEF BlockAcquisition
  <2>5. UNCHANGED <<head, visible, waitedBlock, popped, kernelType>>
        /\ reserved' = reserved + 1 /\ reservedBlock' = b
        /\ buf' = [buf EXCEPT ![At(head, visible)] = Zero]
        /\ pc' = [pc EXCEPT ![k] = "running"]
    BY <1>2, <2>2 DEF ReserveEnd
  <2> HIDE DEF b
  <2>6. RingOK(head, visible, reserved + 1, [buf EXCEPT ![At(head, visible)] = Zero],
               b, waitedBlock)
    BY <2>1, <2>2, <2>4, ReserveKeepsRing
  <2>7. RingOK(head, visible, reserved, buf, reservedBlock, waitedBlock)'
    BY <2>5, <2>6
  <2>8. PcShape'
    BY <2>1, <2>5 DEF PcShape, Kernels
  <2>9. Held(reservedBlock, "RESERVE", Producer)' /\ Held(waitedBlock, "WAIT", Consumer)'
    BY <2>1, <2>4, <2>5 DEF Held
  <2> QED
    BY <2>5, <2>7, <2>8, <2>9
<1> QED
  BY <1>1, <1>2

(* Both halves of wait() keep it.                                          *)
LEMMA WaitKeepsInv ==
  ASSUME NEW k \in Kernels, IInv, WaitBegin(k) \/ WaitEnd(k)
  PROVE  IInv'
<1> USE DEF IInv
<1>1. CASE WaitBegin(k)
  <2>1. RingInv'
    BY <1>1, AutoKeepsInv DEF WaitBegin, RingInv
  <2>2. waitedBlock' = NoBlock /\ reservedBlock' = reservedBlock
    BY <1>1 DEF WaitBegin, AutoPopBlock, HasWaited, PopBlock, blocks, Held
  <2>3. PcShape'
    BY <1>1, <2>2 DEF WaitBegin, PcShape, Kernels
  <2> QED
    BY <1>1, <2>1, <2>3 DEF WaitBegin, RingInv
<1>2. CASE WaitEnd(k)
  <2> DEFINE b == NewBlock("WAIT", k, head)
  <2>1. k = Consumer /\ waitedBlock = NoBlock
    BY <1>2 DEF WaitEnd, PcShape
  <2>2. head \in Slots /\ visible >= 1
    BY <1>2 DEF RingOK, WaitEnd, CanWait
  <2>3. b # NoBlock /\ b.slot = head /\ Held(b, "WAIT", k)
    BY <2>2, NewBlockHeld DEF BlockAcquisition
  <2>4. UNCHANGED <<head, visible, reserved, buf, reservedBlock, popped, kernelType>>
        /\ waitedBlock' = b /\ pc' = [pc EXCEPT ![k] = "running"]
    BY <1>2 DEF WaitEnd, ring
  <2> HIDE DEF b
  <2>5. RingOK(head, visible, reserved, buf, reservedBlock, b)
    BY <2>1, <2>2, <2>3 DEF RingOK
  <2>6. PcShape'
    BY <2>1, <2>4 DEF PcShape, Kernels
  <2>7. Held(reservedBlock, "RESERVE", Producer)' /\ Held(waitedBlock, "WAIT", Consumer)'
    BY <2>1, <2>3, <2>4 DEF Held
  <2>8. RingOK(head, visible, reserved, buf, reservedBlock, waitedBlock)'
    BY <2>4, <2>5
  <2> QED
    BY <2>4, <2>6, <2>7, <2>8
<1> QED
  BY <1>1, <1>2

(* push(), pop() through any handle, and the return of a kernel keep it.   *)
LEMMA ReleaseKeepsInv ==
  ASSUME NEW k \in Kernels, IInv, Push(k) \/ Pop(k) \/ StalePop(k) \/ Return(k)
  PROVE  IInv'
<1> USE DEF IInv
<1>1. CASE Push(k)
  <2>1. RingInv'
    BY <1>1, PushKeepsInv DEF Push, RingInv
  <2>2. PcShape'
    BY <1>1 DEF Push, PushBlock, PcShape
  <2> QED
    BY <1>1, <2>1, <2>2 DEF Push, RingInv
<1>2. CASE Pop(k) \/ StalePop(k)
  <2>1. RingInv' /\ UNCHANGED <<pc, kernelType>>
    BY <1>2, PopKeepsInv DEF Pop, StalePop, RingInv
  <2>2. PcShape'
    BY <1>2 DEF Pop, StalePop, PopBlock, PcShape
  <2> QED
    BY <2>1, <2>2 DEF RingInv
<1>3. CASE Return(k)
  <2>1. RingInv'
    BY <1>3, PushKeepsInv, PushAndPopKeepsInv, AutoKeepsInv DEF Return, RingInv
  <2>2. /\ reservedBlock' \in {reservedBlock, NoBlock}
        /\ waitedBlock' \in {waitedBlock, NoBlock}
        /\ k = Producer => reservedBlock' = NoBlock
        /\ k = Consumer => waitedBlock' = NoBlock
    BY <1>3 DEF Return, HasReserved, HasWaited, AutoPopBlock, PushAndPopBlock,
                PushBlock, PopBlock, blocks, Held
  <2>3. PcShape'
    BY <1>3, <2>2 DEF Return, PcShape, Kernels
  <2> QED
    BY <1>3, <2>1, <2>3 DEF Return, RingInv
<1> QED
  BY <1>1, <1>2, <1>3

(* What a kernel does with a block it holds keeps it.                      *)
LEMMA UseKeepsInv ==
  ASSUME NEW k \in Kernels, IInv, UseReserved(k) \/ UseWaited(k)
  PROVE  IInv'
<1> USE DEF IInv
<1>0. RingOK(head, visible, reserved, buf, reservedBlock, waitedBlock)
  OBVIOUS
<1>1. CASE UseReserved(k)
  <2>1. /\ reservedBlock # NoBlock /\ UseBlock(reservedBlock, reservedBlock')
        /\ UNCHANGED <<head, visible, reserved, waitedBlock, popped, pc, kernelType>>
    BY <1>1 DEF UseReserved, HasReserved
  <2>2. /\ reservedBlock' # NoBlock
        /\ Held(reservedBlock', "RESERVE", Producer)
        /\ reservedBlock'.slot = reservedBlock.slot
        /\ \/ /\ UNCHANGED buf
              /\ reservedBlock'.sm.access \in {"MR", "RW", "ROR"}
                   => reservedBlock.sm.access \in {"MR", "RW", "ROR"}
           \/ \E v \in Data : buf' = [buf EXCEPT ![reservedBlock.slot] = v]
    BY <2>1, UseKeepsBlock
  <2>3. ASSUME UNCHANGED buf,
               reservedBlock'.sm.access \in {"MR", "RW", "ROR"}
                  => reservedBlock.sm.access \in {"MR", "RW", "ROR"}
        PROVE  RingOK(head, visible, reserved, buf', reservedBlock', waitedBlock)
    <3>1. RingOK(head, visible, reserved, buf, reservedBlock', waitedBlock)
      BY <1>0, <2>1, <2>2, <2>3 DEF RingOK
    <3> QED
      BY <2>1, <2>3, <3>1
  <2>4. ASSUME \E v \in Data : buf' = [buf EXCEPT ![reservedBlock.slot] = v]
        PROVE  RingOK(head, visible, reserved, buf', reservedBlock', waitedBlock)
    <3>1. PICK v \in Data : buf' = [buf EXCEPT ![reservedBlock.slot] = v]
      BY <2>4
    <3>2. RingOK(head, visible, reserved, buf', reservedBlock, waitedBlock)
      BY <2>1, <3>1, WriteKeepsRing
    <3>3. buf'[reservedBlock.slot] \in Data
      <4>1. reservedBlock.slot \in Slots /\ buf \in [Slots -> Content]
        BY <1>0, <2>1, AtInRing DEF RingOK
      <4> QED
        BY <3>1, <4>1
    <3>4. RingOK(head, visible, reserved, buf', reservedBlock', waitedBlock)
      BY <2>1, <2>2, <3>2, <3>3 DEF RingOK
    <3> QED
      BY <3>4
  <2>5. RingOK(head, visible, reserved, buf, reservedBlock, waitedBlock)'
    BY <2>1, <2>2, <2>3, <2>4
  <2>6. PcShape'
    BY <2>1, <2>2 DEF PcShape
  <2> QED
    BY <2>1, <2>2, <2>5, <2>6 DEF Held
<1>2. CASE UseWaited(k)
  <2>1. /\ waitedBlock # NoBlock /\ UseBlock(waitedBlock, waitedBlock')
        /\ UNCHANGED <<head, visible, reserved, reservedBlock, popped, pc, kernelType>>
    BY <1>2 DEF UseWaited, HasWaited
  <2>2. /\ waitedBlock' # NoBlock
        /\ Held(waitedBlock', "WAIT", Consumer)
        /\ waitedBlock'.slot = waitedBlock.slot
        /\ \/ UNCHANGED buf
           \/ \E v \in Data : buf' = [buf EXCEPT ![waitedBlock.slot] = v]
    BY <2>1, UseKeepsBlock
  <2>3. RingOK(head, visible, reserved, buf', reservedBlock, waitedBlock)
    <3>1. CASE UNCHANGED buf
      BY <1>0, <3>1
    <3>2. CASE \E v \in Data : buf' = [buf EXCEPT ![waitedBlock.slot] = v]
      <4>1. PICK v \in Data : buf' = [buf EXCEPT ![waitedBlock.slot] = v]
        BY <3>2
      <4>2. RingOK(head, visible, reserved, [buf EXCEPT ![waitedBlock.slot] = v],
                   reservedBlock, waitedBlock)
        BY <1>0, <2>1, WriteKeepsRing
      <4> QED
        BY <4>1, <4>2
    <3> QED
      BY <2>2, <3>1, <3>2
  <2>4. RingOK(head, visible, reserved, buf', reservedBlock, waitedBlock')
    BY <2>1, <2>2, <2>3 DEF RingOK
  <2>5. PcShape'
    BY <2>1, <2>2 DEF PcShape
  <2> QED
    BY <2>1, <2>2, <2>4, <2>5 DEF Held
<1> QED
  BY <1>1, <1>2

(* Every step of the buffer keeps the invariant.                           *)
LEMMA NextIInv == IInv /\ [Next]_vars => IInv'
<1> SUFFICES ASSUME IInv, [Next]_vars PROVE IInv'
  OBVIOUS
<1>1. CASE UNCHANGED vars
  BY <1>1 DEF vars, ring, blocks, IInv, PcShape
<1>2. ASSUME NEW k \in Kernels, ReserveBegin(k) \/ ReserveEnd(k)
      PROVE  IInv'
  BY <1>2, ReserveKeepsInv
<1>3. ASSUME NEW k \in Kernels, WaitBegin(k) \/ WaitEnd(k)
      PROVE  IInv'
  BY <1>3, WaitKeepsInv
<1>4. ASSUME NEW k \in Kernels, Push(k) \/ Pop(k) \/ StalePop(k) \/ Return(k)
      PROVE  IInv'
  BY <1>4, ReleaseKeepsInv
<1>5. ASSUME NEW k \in Kernels, UseReserved(k) \/ UseWaited(k)
      PROVE  IInv'
  BY <1>5, UseKeepsInv
<1> QED
  BY <1>1, <1>2, <1>3, <1>4, <1>5 DEF Next

-----------------------------------------------------------------------------
(* The strengthened invariant holds of every behaviour.                    *)
THEOREM Invariance == Spec => []IInv
<1>1. Init => IInv
  BY InitIInv
<1>2. IInv /\ [Next]_vars => IInv'
  BY NextIInv
<1> QED
  BY <1>1, <1>2, PTL DEF Spec

(* Every field of the buffer keeps its type; in particular the counters    *)
(* stay between 0 and the capacity.                                        *)
THEOREM TypeCorrect == Spec => []TypeOK
<1>1. IInv => TypeOK
  BY DEF IInv, RingOK, Held, PcShape, TypeOK
<1> QED
  BY <1>1, Invariance, PTL

(* The counters agree with the blocks handed out, whatever the capacity:   *)
(* never more than one reserved slot, never more promised than there is.   *)
THEOREM CountersAgree == Spec => []CountersMatchHandles
<1>1. IInv => CountersMatchHandles
  BY DEF IInv, RingOK, CountersMatchHandles
<1> QED
  BY <1>1, Invariance, PTL

(* A handle follows its slot while the other kernel moves the ring, and    *)
(* the two ends of the ring never hold the same slot.                      *)
THEOREM HandlesAgree == Spec => []HandlesFollowRing
<1>1. IInv => HandlesFollowRing
  <2> SUFFICES ASSUME IInv PROVE HandlesFollowRing
    OBVIOUS
  <2>1. /\ reservedBlock # NoBlock => reservedBlock.slot = BackSlot
        /\ waitedBlock # NoBlock => waitedBlock.slot = head /\ visible >= 1
    BY DEF IInv, RingOK, BackSlot, At
  <2>2. ASSUME reservedBlock # NoBlock, NEW i \in 0 .. visible - 1
        PROVE  reservedBlock.slot # Slot(i)
    <3>1. /\ head \in Slots /\ visible \in 0 .. Cap /\ visible + 1 <= Cap
          /\ reservedBlock.slot = At(head, visible)
      BY <2>2, CapAssumption DEF IInv, RingOK
    <3>2. visible \in Slots /\ i \in Slots /\ i # visible
      BY <3>1, CapAssumption DEF Slots
    <3> QED
      BY <3>1, <3>2, AtInjective DEF Slot, At
  <2> QED
    BY <2>1, <2>2 DEF HandlesFollowRing, SlotsAreExclusive
<1> QED
  BY <1>1, Invariance, PTL

(* wait() never finds an empty or an unwritten slot.                       *)
THEOREM SlotsAgree == Spec => []SlotsMatchCounters
<1>1. IInv => SlotsMatchCounters
  BY DEF IInv, RingOK, SlotsMatchCounters, Slot, At
<1> QED
  BY <1>1, Invariance, PTL

(* No block is pending once both kernels have returned.                    *)
THEOREM CleanExit == Spec => []NothingPendingAtExit
<1>1. IInv => NothingPendingAtExit
  BY DEF IInv, PcShape, NothingPendingAtExit, ValidateNoPendingBlocks, Kernels
<1> QED
  BY <1>1, Invariance, PTL

(* What is read through a handle stays while only another slot changes.    *)
LEMMA SeenElsewhere ==
  ASSUME NEW b, NEW s, NEW v, buf \in [Slots -> Content], b # NoBlock => b.slot \in Slots /\ b.slot # s,
         buf' = [buf EXCEPT ![s] = v]
  PROVE  (IF b = NoBlock THEN Empty ELSE buf'[b.slot]) = Seen(b)
  BY DEF Seen

(* The slot at the head and the slot behind the visible ones differ.       *)
LEMMA HeadIsNotBack ==
  ASSUME IInv, visible >= 1, visible + 1 <= Cap
  PROVE  head # BackSlot
<1>1. head \in Slots /\ visible \in Slots /\ 0 \in Slots /\ visible # 0
  BY CapAssumption DEF IInv, RingOK, Slots
<1>2. head = At(head, 0) /\ BackSlot = At(head, visible)
  BY <1>1, AtZero DEF BackSlot, At
<1> QED
  BY <1>1, <1>2, AtInjective

(* A pop, or the push and the pop of a kernel at both ends, leaves the     *)
(* reserved block and its slot alone when it is not the producer's.        *)
LEMMA PopLeavesReserved ==
  ASSUME IInv, PopBlock
  PROVE  reservedBlock' = reservedBlock /\ Seen(reservedBlock)' = Seen(reservedBlock)
<1>1. visible >= 1 /\ reservedBlock' = reservedBlock /\ buf' = [buf EXCEPT ![head] = Empty]
  BY DEF PopBlock, MayPop
<1>2. reservedBlock # NoBlock => reservedBlock.slot \in Slots /\ reservedBlock.slot # head
  <2> SUFFICES ASSUME reservedBlock # NoBlock
               PROVE  reservedBlock.slot \in Slots /\ reservedBlock.slot # head
    OBVIOUS
  <2>1. visible + 1 <= Cap /\ reservedBlock.slot = BackSlot
    BY DEF IInv, RingOK, BackSlot, At
  <2>2. reservedBlock.slot \in Slots
    BY DEF IInv, Held, Block
  <2> QED
    BY <1>1, <2>1, <2>2, HeadIsNotBack
<1>3. buf \in [Slots -> Content]
  BY DEF IInv, RingOK
<1> QED
  BY <1>1, <1>2, <1>3, SeenElsewhere DEF Seen

(* The two kernels of a buffer never reach into each other's end.          *)
THEOREM EndsAreApart == Spec => OneEndAtATime
<1> DEFINE Apart == Producer # Consumer => UNCHANGED ReservedEnd \/ UNCHANGED WaitedEnd
<1>1. IInv /\ [Next]_vars => [Apart]_vars
  <2> SUFFICES ASSUME IInv, Producer # Consumer, NEW k \in Kernels,
                      \/ ReserveBegin(k) \/ ReserveEnd(k)
                      \/ WaitBegin(k) \/ WaitEnd(k)
                      \/ Push(k) \/ Pop(k) \/ StalePop(k)
                      \/ UseReserved(k) \/ UseWaited(k)
                      \/ Return(k)
               PROVE  UNCHANGED ReservedEnd \/ UNCHANGED WaitedEnd
    BY DEF Next
  <2>1. /\ pc \in [Kernels -> {"running", "reserve", "wait", "done"}]
        /\ HasReserved(k) => k = Producer
        /\ HasWaited(k) => k = Consumer
        /\ pc[k] = "reserve" => k = Producer
        /\ pc[k] = "wait" => k = Consumer
    BY DEF IInv, PcShape, Held, HasReserved, HasWaited
  <2>2. ASSUME UNCHANGED <<waitedBlock, buf>>, pc'[Consumer] = pc[Consumer]
        PROVE  UNCHANGED WaitedEnd
    BY <2>2 DEF WaitedEnd, Seen
  <2>3. ASSUME UNCHANGED <<reservedBlock, buf>>, pc'[Producer] = pc[Producer]
        PROVE  UNCHANGED ReservedEnd
    BY <2>3 DEF ReservedEnd, Seen
  <2>4. ASSUME PopBlock, pc'[Producer] = pc[Producer]
        PROVE  UNCHANGED ReservedEnd
    BY <2>4, PopLeavesReserved DEF ReservedEnd
  <2>5. CASE ReserveBegin(k)
    BY <2>1, <2>2, <2>5 DEF ReserveBegin, AutoPushBlock, PushBlock, ring, blocks, Kernels
  <2>6. CASE ReserveEnd(k)
    <3>1. /\ buf' = [buf EXCEPT ![BackSlot] = Zero] /\ waitedBlock' = waitedBlock
          /\ pc'[Consumer] = pc[Consumer] /\ visible + reserved + 1 <= Cap
      BY <2>1, <2>6, CapAssumption DEF ReserveEnd, CanReserve, Free, Kernels, IInv, RingOK
    <3>2. waitedBlock # NoBlock => waitedBlock.slot \in Slots /\ waitedBlock.slot # BackSlot
      <4> SUFFICES ASSUME waitedBlock # NoBlock
                   PROVE  waitedBlock.slot \in Slots /\ waitedBlock.slot # BackSlot
        OBVIOUS
      <4>1. waitedBlock.slot = head /\ visible >= 1 /\ head \in Slots /\ visible + 1 <= Cap
        BY <3>1, CapAssumption DEF IInv, RingOK
      <4> QED
        BY <4>1, HeadIsNotBack
    <3>3. buf \in [Slots -> Content]
      BY DEF IInv, RingOK
    <3> QED
      BY <3>1, <3>2, <3>3, SeenElsewhere DEF WaitedEnd, Seen
  <2>7. CASE WaitBegin(k)
    BY <2>1, <2>3, <2>4, <2>7 DEF WaitBegin, AutoPopBlock, ring, blocks, Kernels
  <2>8. CASE WaitEnd(k)
    BY <2>1, <2>3, <2>8 DEF WaitEnd, ring, Kernels
  <2>9. CASE Push(k)
    BY <2>1, <2>2, <2>9 DEF Push, PushBlock
  <2>10. CASE Pop(k) \/ StalePop(k)
    BY <2>4, <2>10 DEF Pop, StalePop
  <2>11. CASE UseReserved(k)
    <3>1. waitedBlock' = waitedBlock /\ pc' = pc /\ reservedBlock # NoBlock
      BY <2>11 DEF UseReserved, HasReserved
    <3>2. \/ buf' = buf
          \/ \E v \in Data : buf' = [buf EXCEPT ![reservedBlock.slot] = v]
      BY <2>11 DEF UseReserved, UseBlock, StartCopyOut, FinishCopyOut, StartCopyIn, FinishCopyIn,
                  StoreInto, ReadOperand
    <3>3. waitedBlock # NoBlock => waitedBlock.slot \in Slots /\ waitedBlock.slot # reservedBlock.slot
      <4> SUFFICES ASSUME waitedBlock # NoBlock
                   PROVE  waitedBlock.slot \in Slots /\ waitedBlock.slot # reservedBlock.slot
        OBVIOUS
      <4>1. waitedBlock.slot = head /\ visible >= 1 /\ head \in Slots /\ visible + 1 <= Cap
        BY <3>1, CapAssumption DEF IInv, RingOK
      <4>2. reservedBlock.slot = BackSlot
        BY <3>1 DEF IInv, RingOK, BackSlot, At
      <4> QED
        BY <4>1, <4>2, HeadIsNotBack
    <3>4. buf \in [Slots -> Content]
      BY DEF IInv, RingOK
    <3> QED
      BY <2>2, <3>1, <3>2, <3>3, <3>4, SeenElsewhere DEF WaitedEnd, Seen
  <2>12. CASE UseWaited(k)
    <3>1. reservedBlock' = reservedBlock /\ pc' = pc /\ waitedBlock # NoBlock
      BY <2>12 DEF UseWaited, HasWaited
    <3>2. \/ buf' = buf
          \/ \E v \in Data : buf' = [buf EXCEPT ![waitedBlock.slot] = v]
      BY <2>12 DEF UseWaited, UseBlock, StartCopyOut, FinishCopyOut, StartCopyIn, FinishCopyIn,
                  StoreInto, ReadOperand
    <3>3. reservedBlock # NoBlock => reservedBlock.slot \in Slots /\ reservedBlock.slot # waitedBlock.slot
      <4> SUFFICES ASSUME reservedBlock # NoBlock
                   PROVE  reservedBlock.slot \in Slots /\ reservedBlock.slot # waitedBlock.slot
        OBVIOUS
      <4>1. waitedBlock.slot = head /\ visible >= 1 /\ visible + 1 <= Cap
        BY <3>1, CapAssumption DEF IInv, RingOK
      <4>2. reservedBlock.slot = BackSlot /\ reservedBlock.slot \in Slots
        BY DEF IInv, RingOK, Held, Block, BackSlot, At
      <4> QED
        BY <4>1, <4>2, HeadIsNotBack
    <3>4. buf \in [Slots -> Content]
      BY DEF IInv, RingOK
    <3> QED
      BY <2>3, <3>1, <3>2, <3>3, <3>4, SeenElsewhere DEF ReservedEnd, Seen
  <2>13. CASE Return(k)
    <3>1. CASE k = Producer
      <4>1. ~HasWaited(k)
        BY <2>1, <3>1
      <4> QED
        BY <2>1, <2>2, <2>13, <3>1, <4>1 DEF Return, PushBlock, AutoPopBlock, ring, blocks, Kernels
    <3>2. CASE k = Consumer
      <4>1. ~HasReserved(k)
        BY <2>1, <3>2
      <4> QED
        BY <2>1, <2>3, <2>4, <2>13, <3>2, <4>1 DEF Return, AutoPopBlock, ring, blocks, Kernels
    <3> QED
      BY <3>1, <3>2 DEF Kernels
  <2> QED
    BY <2>5, <2>6, <2>7, <2>8, <2>9, <2>10, <2>11, <2>12, <2>13
<1> QED
  BY <1>1, Invariance, PTL DEF Spec, OneEndAtATime

-----------------------------------------------------------------------------
(* The blocks of a ring c with head h and v visible slots, oldest first.   *)
Blocks(h, v, c) == [i \in 1 .. v |-> c[At(h, i - 1)]]

(* A waited block in one of these states has been read since its data      *)
(* were last written.                                                      *)
ReadStates == {"ROR", "RW", "NAW"}

-----------------------------------------------------------------------------
(* The visible blocks are a sequence of data, one for each visible slot.   *)
LEMMA BlocksAreData ==
  ASSUME NEW h, NEW v, NEW r, NEW c, NEW rb, NEW wb, RingOK(h, v, r, c, rb, wb)
  PROVE  /\ v \in Nat
         /\ Blocks(h, v, c) \in Seq(Data)
         /\ Len(Blocks(h, v, c)) = v
         /\ \A i \in 1 .. v : Blocks(h, v, c)[i] = c[At(h, i - 1)]
<1>1. v \in Nat /\ v <= Cap /\ Cap \in Nat
  BY CapAssumption DEF RingOK
<1>2. ASSUME NEW i \in 1 .. v
      PROVE  c[At(h, i - 1)] \in Data
  <2>1. i - 1 \in Slots /\ i - 1 < v
    BY <1>1 DEF Slots
  <2> QED
    BY <2>1 DEF RingOK
<1>3. Blocks(h, v, c) \in [1 .. v -> Data]
  BY <1>2 DEF Blocks
<1>4. Blocks(h, v, c) \in Seq(Data)
  BY <1>1, <1>3, SeqDef
<1>5. DOMAIN Blocks(h, v, c) = 1 .. v
  BY DEF Blocks
<1>6. Len(Blocks(h, v, c)) = v
  BY <1>1, <1>4, <1>5, LenProperties
<1> QED
  BY <1>1, <1>4, <1>6 DEF Blocks

(* Pushing the reserved slot appends its data to the queue.                *)
LEMMA PushAppends ==
  ASSUME NEW h, NEW v, NEW r, NEW c, NEW rb, NEW wb,
         RingOK(h, v, r, c, rb, wb), Held(rb, "RESERVE", Producer),
         r >= 1, AcceptsPush(rb.sm)
  PROVE  /\ c[At(h, v)] \in Data
         /\ v < Cap
         /\ Blocks(h, v + 1, c) = Append(Blocks(h, v, c), c[At(h, v)])
<1> DEFINE q == Blocks(h, v, c)
           p == Blocks(h, v + 1, c)
           d == c[At(h, v)]
<1>1. RingOK(h, v + 1, r - 1, c, NoBlock, wb)
  BY PushKeepsRing
<1>2. /\ v \in Nat /\ q \in Seq(Data) /\ Len(q) = v
      /\ \A i \in 1 .. v : q[i] = c[At(h, i - 1)]
  BY BlocksAreData
<1>3. /\ p \in Seq(Data) /\ Len(p) = v + 1
      /\ \A i \in 1 .. v + 1 : p[i] = c[At(h, i - 1)]
  BY <1>1, BlocksAreData
<1>4. v < Cap
  BY <1>1, <1>2, CapAssumption DEF RingOK
<1>5. p[v + 1] = d /\ d \in Data
  <2>1. v + 1 \in 1 .. v + 1 /\ (v + 1) - 1 = v
    BY <1>2
  <2>2. p[v + 1] = c[At(h, (v + 1) - 1)]
    BY <1>3, <2>1
  <2>3. p[v + 1] \in Data
    BY <1>3, <2>1, ElementOfSeq
  <2> QED
    BY <2>1, <2>2, <2>3
<1>6. ASSUME NEW i \in 1 .. v
      PROVE  p[i] = q[i]
  BY <1>2, <1>3
<1> HIDE DEF p, q, d
<1>7. /\ Append(q, d) \in Seq(Data) /\ Len(Append(q, d)) = v + 1
      /\ \A i \in 1 .. v : Append(q, d)[i] = q[i]
      /\ Append(q, d)[v + 1] = d
  BY <1>2, <1>5, AppendProperties
<1>8. ASSUME NEW i \in 1 .. v + 1
      PROVE  p[i] = Append(q, d)[i]
  BY <1>2, <1>5, <1>6, <1>7
<1>9. p = Append(q, d)
  BY <1>3, <1>7, <1>8, SeqEqual
<1> QED
  BY <1>4, <1>5, <1>9 DEF p, q, d

(* Popping the head takes the oldest block off the queue.                  *)
LEMMA PopTakesHead ==
  ASSUME NEW h, NEW v, NEW r, NEW c, NEW rb, NEW wb,
         RingOK(h, v, r, c, rb, wb), Held(rb, "RESERVE", Producer), v >= 1
  PROVE  /\ Blocks(h, v, c) # << >>
         /\ Blocks(At(h, 1), v - 1, [c EXCEPT ![h] = Empty]) = Tail(Blocks(h, v, c))
<1> DEFINE q == Blocks(h, v, c)
           c2 == [c EXCEPT ![h] = Empty]
           p == Blocks(At(h, 1), v - 1, c2)
<1>1. RingOK(At(h, 1), v - 1, r, c2, rb, NoBlock)
  BY PopKeepsRing
<1>2. /\ v \in Nat /\ q \in Seq(Data) /\ Len(q) = v
      /\ \A i \in 1 .. v : q[i] = c[At(h, i - 1)]
  BY BlocksAreData
<1>3. /\ p \in Seq(Data) /\ Len(p) = v - 1
      /\ \A i \in 1 .. v - 1 : p[i] = c2[At(At(h, 1), i - 1)]
  <2> HIDE DEF c2
  <2> QED
    BY <1>1, BlocksAreData
<1>4. h \in Slots /\ v <= Cap /\ c \in [Slots -> Content]
  BY DEF RingOK
<1>5. q # << >>
  BY <1>2, EmptySeq
<1>6. ASSUME NEW i \in 1 .. v - 1
      PROVE  p[i] = q[i + 1]
  <2>1. i - 1 \in Slots /\ i \in Slots /\ (i - 1) + 1 = i /\ i # 0
        /\ i + 1 \in 1 .. v /\ (i + 1) - 1 = i
    BY <1>2, <1>4, CapAssumption DEF Slots
  <2>2. At(At(h, 1), i - 1) = At(h, i)
    BY <1>4, <2>1, AtNext
  <2>3. At(h, i) \in Slots /\ At(h, i) # h
    BY <1>4, <2>1, AtZero, AtSlot, AtInjective
  <2>4. c2[At(h, i)] = c[At(h, i)]
    BY <1>4, <2>3
  <2>5. q[i + 1] = c[At(h, i)]
    BY <1>2, <2>1
  <2> HIDE DEF p, q, c2
  <2> QED
    BY <1>3, <2>2, <2>4, <2>5
<1> HIDE DEF p, q
<1>7. /\ Tail(q) \in Seq(Data) /\ Len(Tail(q)) = v - 1
      /\ \A i \in 1 .. v - 1 : Tail(q)[i] = q[i + 1]
  BY <1>2, <1>5, HeadTailProperties
<1>8. p = Tail(q)
  BY <1>3, <1>6, <1>7, SeqEqual
<1> QED
  BY <1>5, <1>8 DEF p, q

(* A write to the first slot behind the visible ones leaves the queue      *)
(* alone.                                                                  *)
LEMMA WriteBehindQueue ==
  ASSUME NEW h \in Slots, NEW v \in Slots, NEW c \in [Slots -> Content], NEW d
  PROVE  Blocks(h, v, [c EXCEPT ![At(h, v)] = d]) = Blocks(h, v, c)
<1> DEFINE c2 == [c EXCEPT ![At(h, v)] = d]
<1>1. ASSUME NEW i \in 1 .. v
      PROVE  c2[At(h, i - 1)] = c[At(h, i - 1)]
  <2>1. i - 1 \in Slots /\ i - 1 # v
    BY CapAssumption DEF Slots
  <2>2. At(h, i - 1) \in Slots /\ At(h, i - 1) # At(h, v)
    BY <2>1, AtSlot, AtInjective
  <2> QED
    BY <2>2
<1> HIDE DEF c2
<1>2. Blocks(h, v, c2) = Blocks(h, v, c)
  BY <1>1 DEF Blocks
<1> QED
  BY <1>2 DEF c2

(* A write to the head replaces the oldest block and no other.             *)
LEMMA WriteReplacesOldest ==
  ASSUME NEW h, NEW v, NEW r, NEW c, NEW rb, NEW wb,
         RingOK(h, v, r, c, rb, wb), wb # NoBlock, NEW d \in Data
  PROVE  /\ Blocks(h, v, c) # << >>
         /\ Blocks(h, v, [c EXCEPT ![h] = d]) = <<d>> \o Tail(Blocks(h, v, c))
<1> DEFINE q == Blocks(h, v, c)
           c2 == [c EXCEPT ![h] = d]
           p == Blocks(h, v, c2)
<1>1. wb.slot = h /\ v >= 1
  BY DEF RingOK
<1>2. RingOK(h, v, r, c2, rb, wb)
  BY <1>1, WriteKeepsRing
<1>3. /\ v \in Nat /\ q \in Seq(Data) /\ Len(q) = v
      /\ \A i \in 1 .. v : q[i] = c[At(h, i - 1)]
  BY BlocksAreData
<1>4. /\ p \in Seq(Data) /\ Len(p) = v
      /\ \A i \in 1 .. v : p[i] = c2[At(h, i - 1)]
  <2> HIDE DEF c2
  <2> QED
    BY <1>2, BlocksAreData
<1>5. h \in Slots /\ v <= Cap /\ c \in [Slots -> Content]
  BY DEF RingOK
<1>6. q # << >>
  BY <1>1, <1>3, EmptySeq
<1>7. ASSUME NEW i \in 1 .. v
      PROVE  p[i] = IF i = 1 THEN d ELSE q[i]
  <2>1. p[i] = c2[At(h, i - 1)] /\ q[i] = c[At(h, i - 1)]
    BY <1>3, <1>4
  <2>2. i - 1 \in Slots
    BY <1>3, <1>5, CapAssumption DEF Slots
  <2>3. CASE i = 1
    <3>1. i - 1 = 0
      BY <2>3
    <3>2. At(h, i - 1) = h
      BY <1>5, <3>1, AtZero
    <3>3. c2[h] = d
      BY <1>5
    <3> HIDE DEF p, q, c2
    <3> QED
      BY <2>1, <2>3, <3>2, <3>3
  <2>4. CASE i # 1
    <3>1. i - 1 # 0
      BY <1>3, <2>4
    <3>2. At(h, i - 1) # h /\ At(h, i - 1) \in Slots
      BY <1>5, <2>2, <3>1, AtZero, AtSlot, AtInjective
    <3>3. c2[At(h, i - 1)] = c[At(h, i - 1)]
      BY <1>5, <3>2
    <3> HIDE DEF p, q, c2
    <3> QED
      BY <2>1, <2>4, <3>3
  <2> QED
    BY <2>3, <2>4
<1> HIDE DEF p, q
<1>8. Tail(q) \in Seq(Data) /\ Len(Tail(q)) = v - 1
      /\ \A i \in 1 .. v - 1 : Tail(q)[i] = q[i + 1]
  BY <1>3, <1>6, HeadTailProperties
<1>9. <<d>> \in Seq(Data) /\ Len(<<d>>) = 1 /\ <<d>>[1] = d
  OBVIOUS
<1>10. /\ <<d>> \o Tail(q) \in Seq(Data) /\ Len(<<d>> \o Tail(q)) = v
       /\ \A i \in 1 .. v : (<<d>> \o Tail(q))[i]
                              = IF i <= 1 THEN <<d>>[i] ELSE Tail(q)[i - 1]
  <2>1. 1 + (v - 1) = v
    BY <1>3
  <2> QED
    BY <1>8, <1>9, <2>1, ConcatProperties
<1>11. ASSUME NEW i \in 1 .. v
       PROVE  p[i] = (<<d>> \o Tail(q))[i]
  <2>1. CASE i = 1
    BY <1>7, <1>9, <1>10, <2>1
  <2>2. CASE i # 1
    <3>1. i - 1 \in 1 .. v - 1 /\ (i - 1) + 1 = i /\ ~(i <= 1)
      BY <1>3, <2>2
    <3>2. Tail(q)[i - 1] = q[i]
      BY <1>8, <3>1
    <3> QED
      BY <1>7, <1>10, <2>2, <3>1, <3>2
  <2> QED
    BY <2>1, <2>2
<1>12. p = <<d>> \o Tail(q)
  BY <1>4, <1>10, <1>11, SeqEqual
<1> QED
  BY <1>6, <1>12 DEF p, q

-----------------------------------------------------------------------------
(* The mapping, in the terms of the lemmas above.                          *)
LEMMA Mapped ==
  /\ VisibleBlocks = Blocks(head, visible, buf)
  /\ VisibleBlocks' = Blocks(head', visible', buf')
  /\ OldestWasRead <=> waitedBlock # NoBlock /\ waitedBlock.sm.access \in ReadStates
  /\ OldestWasRead' <=> waitedBlock' # NoBlock /\ waitedBlock'.sm.access \in ReadStates
  BY DEF VisibleBlocks, Blocks, Slot, At, OldestWasRead, ReadStates

(* A waited block is popped only after it has been read.                   *)
LEMMA PoppedWasRead ==
  ASSUME NEW sm, Consistent(sm), AcceptsPop(sm)
  PROVE  sm.access \in ReadStates
<1>1. sm.acquisition = "WAIT" /\ sm.access \in {"MR", "RW"}
      /\ "POP" \in ExpectedIn(sm.acquisition, sm.kernel, sm.access)
  BY DEF AcceptsPop, Validate, Consistent
<1>2. sm.access # "MR"
  <2> SUFFICES ASSUME sm.access = "MR" PROVE FALSE
    OBVIOUS
  <2>1. ExpectedIn("WAIT", sm.kernel, "MR")
          = {IF sm.kernel = "DM" THEN "COPY_SRC" ELSE "STORE_SRC"}
    BY DEF ExpectedIn
  <2> QED
    BY <1>1, <2>1
<1> QED
  BY <1>1, <1>2 DEF ReadStates

(* push_block() publishes the block that was written.                      *)
LEMMA PushPublishes ==
  ASSUME RingInv, PushBlock
  PROVE  \E d \in Data : Channel!Publish(d)
<1> DEFINE d == buf[At(head, visible)]
<1>1. /\ RingOK(head, visible, reserved, buf, reservedBlock, waitedBlock)
      /\ Held(reservedBlock, "RESERVE", Producer)
      /\ reserved >= 1 /\ AcceptsPush(reservedBlock.sm)
  BY MayPushImplies DEF RingInv, PushBlock
<1>2. /\ d \in Data /\ visible < Cap
      /\ Blocks(head, visible + 1, buf) = Append(Blocks(head, visible, buf), d)
  BY <1>1, PushAppends
<1>3. Len(Blocks(head, visible, buf)) = visible
  BY <1>1, BlocksAreData
<1>4. UNCHANGED <<head, buf, waitedBlock>> /\ visible' = visible + 1
  BY DEF PushBlock
<1> HIDE DEF d
<1>5. VisibleBlocks' = Append(VisibleBlocks, d) /\ Len(VisibleBlocks) < Cap
  BY <1>2, <1>3, <1>4, Mapped
<1>6. UNCHANGED OldestWasRead
  BY <1>4 DEF OldestWasRead
<1> QED
  BY <1>2, <1>5, <1>6 DEF Channel!Publish

(* pop_block(), on a block that was waited for, consumes the oldest.       *)
LEMMA PopConsumes ==
  ASSUME RingInv, PopBlock, waitedBlock # NoBlock
  PROVE  Channel!Consume
<1>1. /\ RingOK(head, visible, reserved, buf, reservedBlock, waitedBlock)
      /\ Held(reservedBlock, "RESERVE", Producer)
      /\ Consistent(waitedBlock.sm) /\ AcceptsPop(waitedBlock.sm) /\ visible >= 1
  BY DEF RingInv, PopBlock, MayPop, Held
<1>2. /\ Blocks(head, visible, buf) # << >>
      /\ Blocks(At(head, 1), visible - 1, [buf EXCEPT ![head] = Empty])
           = Tail(Blocks(head, visible, buf))
  BY <1>1, PopTakesHead, ZenonT(60)
<1>3. /\ head' = At(head, 1) /\ visible' = visible - 1
      /\ buf' = [buf EXCEPT ![head] = Empty] /\ waitedBlock' = NoBlock
  BY DEF PopBlock, At
<1>4. VisibleBlocks # << >> /\ VisibleBlocks' = Tail(VisibleBlocks)
  BY <1>2, <1>3, Mapped
<1>5. OldestWasRead
  BY <1>1, PoppedWasRead, Mapped
<1>6. OldestWasRead' = FALSE
  BY <1>3 DEF OldestWasRead
<1> QED
  BY <1>4, <1>5, <1>6 DEF Channel!Consume

(* The push and the pop of a returning kernel are an exchange.             *)
LEMMA PushAndPopExchanges ==
  ASSUME RingInv, PushAndPopBlock, waitedBlock # NoBlock
  PROVE  \E d \in Data : Channel!Exchange(d)
<1> DEFINE d == buf[At(head, visible)]
           q == Blocks(head, visible, buf)
<1>1. /\ RingOK(head, visible, reserved, buf, reservedBlock, waitedBlock)
      /\ Held(reservedBlock, "RESERVE", Producer)
      /\ reserved >= 1 /\ AcceptsPush(reservedBlock.sm)
      /\ Consistent(waitedBlock.sm) /\ AcceptsPop(waitedBlock.sm) /\ visible >= 1
  BY MayPushImplies DEF RingInv, PushAndPopBlock, MayPop, Held
<1>2. d \in Data /\ Blocks(head, visible + 1, buf) = Append(q, d)
  BY <1>1, PushAppends
<1>3. RingOK(head, visible + 1, reserved - 1, buf, NoBlock, waitedBlock)
  BY <1>1, PushKeepsRing
<1>4. visible \in Nat /\ q \in Seq(Data) /\ Len(q) = visible
  BY <1>1, BlocksAreData
<1>5. q # << >>
  BY <1>1, <1>4, EmptySeq
<1>6. Blocks(At(head, 1), visible, [buf EXCEPT ![head] = Empty])
        = Tail(Blocks(head, visible + 1, buf))
  <2>1. visible + 1 >= 1 /\ (visible + 1) - 1 = visible
    BY <1>4
  <2>2. Held(NoBlock, "RESERVE", Producer)
    BY DEF Held
  <2>3. Blocks(At(head, 1), (visible + 1) - 1, [buf EXCEPT ![head] = Empty])
          = Tail(Blocks(head, visible + 1, buf))
    BY <1>3, <2>1, <2>2, PopTakesHead, ZenonT(60)
  <2> QED
    BY <2>1, <2>3
<1>7. /\ head' = At(head, 1) /\ visible' = visible
      /\ buf' = [buf EXCEPT ![head] = Empty] /\ waitedBlock' = NoBlock
  BY DEF PushAndPopBlock, At
<1> HIDE DEF d, q
<1>8. Tail(Append(q, d)) = Append(Tail(q), d)
  BY <1>4, <1>5, HeadTailAppend
<1>9. VisibleBlocks # << >> /\ VisibleBlocks' = Append(Tail(VisibleBlocks), d)
  BY <1>2, <1>5, <1>6, <1>7, <1>8, Mapped DEF q
<1>10. OldestWasRead
  BY <1>1, PoppedWasRead, Mapped
<1>11. OldestWasRead' = FALSE
  BY <1>7 DEF OldestWasRead
<1> QED
  BY <1>2, <1>9, <1>10, <1>11 DEF Channel!Exchange

-----------------------------------------------------------------------------
(* A step that changes neither the head, nor the visible slots, nor the    *)
(* waited block stutters, whatever it writes behind the visible slots.     *)
LEMMA BehindStutters ==
  ASSUME UNCHANGED <<head, visible, waitedBlock>>,
         Blocks(head, visible, buf') = Blocks(head, visible, buf)
  PROVE  UNCHANGED <<VisibleBlocks, OldestWasRead>>
<1>1. UNCHANGED VisibleBlocks
  BY Mapped
<1>2. UNCHANGED OldestWasRead
  BY DEF OldestWasRead
<1> QED
  BY <1>1, <1>2

(* What the consumer does with the block it waited for reads the oldest    *)
(* block of the channel, or overwrites it once it has been read.           *)
LEMMA UseWaitedMaps ==
  ASSUME IInv, NEW k \in Kernels, UseWaited(k)
  PROVE  Channel!Read \/ \E d \in Data : Channel!Overwrite(d)
<1> DEFINE b == waitedBlock
           sm == waitedBlock.sm
           q == Blocks(head, visible, buf)
<1>1. /\ b # NoBlock /\ UseBlock(b, b')
      /\ UNCHANGED <<head, visible, reserved, reservedBlock>>
  BY DEF UseWaited, HasWaited
<1>2. RingOK(head, visible, reserved, buf, reservedBlock, b) /\ Held(b, "WAIT", Consumer)
  BY DEF IInv
<1>3. /\ b \in Block /\ Consistent(sm) /\ TracksCopies(sm, b.reads, b.writing)
      /\ sm \in Machine /\ b.reads \in Nat /\ b.writing \in BOOLEAN /\ b.slot = head
      /\ sm.acquisition = "WAIT"
  BY <1>1, <1>2 DEF Held, Block, RingOK
<1>4. b' # NoBlock
  BY <1>1, <1>2, UseKeepsBlock
<1>5. q # << >>
  <2>1. visible \in Nat /\ q \in Seq(Data) /\ Len(q) = visible
    BY <1>2, BlocksAreData
  <2>2. visible >= 1
    BY <1>1, <1>2 DEF RingOK
  <2> QED
    BY <2>1, <2>2, EmptySeq
<1>6. ASSUME UNCHANGED buf, b'.sm.access \in ReadStates
      PROVE  Channel!Read
  <2>1. VisibleBlocks # << >> /\ UNCHANGED VisibleBlocks
    BY <1>1, <1>5, <1>6, Mapped
  <2>2. OldestWasRead' = TRUE
    BY <1>4, <1>6, Mapped
  <2> QED
    BY <2>1, <2>2 DEF Channel!Read
<1>7. ASSUME NEW d \in Data, buf' = [buf EXCEPT ![b.slot] = d],
             sm.access \in ReadStates, b'.sm.access = "MR"
      PROVE  Channel!Overwrite(d)
  <2>1. Blocks(head, visible, [buf EXCEPT ![head] = d]) = <<d>> \o Tail(q)
    BY <1>1, <1>2, WriteReplacesOldest, ZenonT(60)
  <2>2. VisibleBlocks # << >> /\ VisibleBlocks' = <<d>> \o Tail(VisibleBlocks)
    BY <1>1, <1>3, <1>5, <1>7, <2>1, Mapped
  <2>3. OldestWasRead
    BY <1>1, <1>7, Mapped
  <2>4. OldestWasRead' = FALSE
    BY <1>7, Mapped DEF ReadStates
  <2> QED
    BY <2>2, <2>3, <2>4 DEF Channel!Overwrite
<1>8. CASE StartCopyOut(b, b')
  <2>1. Transition(sm, "copy_src").access = "ROR"
    BY <1>3, <1>8, CopySrcStep DEF StartCopyOut
  <2>2. b'.sm = Transition(sm, "copy_src") /\ UNCHANGED buf
    BY <1>3, <1>8 DEF StartCopyOut, Block
  <2> QED
    BY <1>6, <2>1, <2>2 DEF ReadStates
<1>9. CASE FinishCopyOut(b, b')
  <2>1. Transition(sm, "tx_wait").access \in {"ROR", "RW"}
    BY <1>3, <1>9, TxWaitReadStep DEF FinishCopyOut
  <2>2. b'.sm = Transition(sm, "tx_wait") /\ UNCHANGED buf
    BY <1>3, <1>9 DEF FinishCopyOut, Block
  <2> QED
    BY <1>6, <2>1, <2>2 DEF ReadStates
<1>10. CASE StartCopyIn(b, b')
  <2>1. Transition(sm, "copy_dst").access = "NAW"
    BY <1>3, <1>10, CopyDstStep DEF StartCopyIn
  <2>2. b'.sm = Transition(sm, "copy_dst") /\ UNCHANGED buf
    BY <1>3, <1>10 DEF StartCopyIn, Block
  <2> QED
    BY <1>6, <2>1, <2>2 DEF ReadStates
<1>11. CASE FinishCopyIn(b, b')
  <2>1. sm.access = "NAW" /\ Transition(sm, "tx_wait").access = "MR"
    BY <1>3, <1>11, TxWaitWriteStep DEF FinishCopyIn
  <2>2. b'.sm = Transition(sm, "tx_wait")
    BY <1>3, <1>11 DEF FinishCopyIn, Block
  <2>3. PICK d \in Data : buf' = [buf EXCEPT ![b.slot] = d]
    BY <1>11 DEF FinishCopyIn
  <2> QED
    BY <1>7, <2>1, <2>2, <2>3 DEF ReadStates
<1>12. CASE StoreInto(b, b')
  <2>1. sm.access = "RW" /\ Transition(sm, "store_dst").access = "MR"
    <3>1. sm.access # "MW"
      BY <1>3 DEF Consistent
    <3> QED
      BY <1>3, <1>12, <3>1, StoreDstStep DEF StoreInto
  <2>2. b'.sm = Transition(sm, "store_dst")
    BY <1>3, <1>12 DEF StoreInto, Block
  <2>3. PICK d \in Data : buf' = [buf EXCEPT ![b.slot] = d]
    BY <1>12 DEF StoreInto
  <2> QED
    BY <1>7, <2>1, <2>2, <2>3 DEF ReadStates
<1>13. CASE ReadOperand(b, b')
  <2>1. PICK op \in {"assign_src", "store_src"} :
          Accepts(sm, op) /\ b' = [b EXCEPT !.sm = Transition(sm, op)] /\ UNCHANGED buf
    BY <1>13 DEF ReadOperand
  <2>2. Transition(sm, op).access = "RW"
    BY <1>3, <2>1, ReadSrcStep
  <2>3. b'.sm = Transition(sm, op)
    BY <1>3, <2>1 DEF Block
  <2> QED
    BY <1>6, <2>1, <2>2, <2>3 DEF ReadStates
<1> QED
  BY <1>1, <1>8, <1>9, <1>10, <1>11, <1>12, <1>13 DEF UseBlock

(* The automatic push and pop publish and consume, or do nothing.          *)
LEMMA AutoMaps ==
  ASSUME RingInv, NEW k, AutoPushBlock(k) \/ AutoPopBlock(k)
  PROVE  [Channel!Next]_<<VisibleBlocks, OldestWasRead>>
<1>1. CASE UNCHANGED <<ring, blocks>>
  <2>1. UNCHANGED <<VisibleBlocks, OldestWasRead>>
    BY <1>1, BehindStutters DEF ring, blocks
  <2> QED
    BY <2>1
<1>2. CASE PushBlock
  BY <1>2, PushPublishes DEF Channel!Next
<1>3. CASE HasWaited(k) /\ PopBlock
  BY <1>3, PopConsumes DEF Channel!Next, HasWaited
<1> QED
  BY <1>1, <1>2, <1>3 DEF AutoPushBlock, AutoPopBlock

(* The second halves of reserve() and wait(), and what the producer does   *)
(* with its block, do not show in the channel.                             *)
LEMMA HiddenSteps ==
  ASSUME IInv, NEW k \in Kernels, ReserveEnd(k) \/ WaitEnd(k) \/ UseReserved(k)
  PROVE  UNCHANGED <<VisibleBlocks, OldestWasRead>>
<1>1. RingOK(head, visible, reserved, buf, reservedBlock, waitedBlock)
  BY DEF IInv
<1>2. head \in Slots /\ visible \in 0 .. Cap /\ buf \in [Slots -> Content]
  BY <1>1 DEF RingOK
<1>3. CASE ReserveEnd(k)
  <2>1. visible \in Slots
    BY <1>1, <1>3, CapAssumption DEF RingOK, ReserveEnd, CanReserve, Free, Slots
  <2>2. buf' = [buf EXCEPT ![At(head, visible)] = Zero]
    BY <1>3 DEF ReserveEnd, BackSlot, At
  <2>3. Blocks(head, visible, buf') = Blocks(head, visible, buf)
    BY <1>2, <2>1, <2>2, WriteBehindQueue, ZenonT(60)
  <2> QED
    BY <1>3, <2>3, BehindStutters DEF ReserveEnd
<1>4. CASE WaitEnd(k)
  <2>1. UNCHANGED <<head, visible, buf>>
    BY <1>4 DEF WaitEnd, ring
  <2>2. waitedBlock = NoBlock
    BY <1>4 DEF WaitEnd, IInv, PcShape
  <2>3. waitedBlock'.sm.access = "MR"
    BY <1>2, <1>4, NewBlockHeld DEF WaitEnd, BlockAcquisition, IInv
  <2>4. OldestWasRead = FALSE /\ OldestWasRead' = FALSE
    BY <2>2, <2>3 DEF OldestWasRead
  <2>5. UNCHANGED VisibleBlocks
    BY <2>1, Mapped
  <2> QED
    BY <2>4, <2>5
<1>5. CASE UseReserved(k)
  <2>1. /\ reservedBlock # NoBlock /\ UseBlock(reservedBlock, reservedBlock')
        /\ UNCHANGED <<head, visible, waitedBlock>>
    BY <1>5 DEF UseReserved, HasReserved
  <2>2. \/ UNCHANGED buf
        \/ \E d \in Data : buf' = [buf EXCEPT ![reservedBlock.slot] = d]
    BY <2>1, UseKeepsBlock DEF IInv
  <2>3. reservedBlock.slot = At(head, visible) /\ visible \in Slots
    BY <1>1, <1>2, <2>1, CapAssumption DEF RingOK, Slots
  <2>4. Blocks(head, visible, buf') = Blocks(head, visible, buf)
    <3>1. CASE UNCHANGED buf
      BY <3>1
    <3>2. CASE \E d \in Data : buf' = [buf EXCEPT ![reservedBlock.slot] = d]
      <4>1. PICK d \in Data : buf' = [buf EXCEPT ![reservedBlock.slot] = d]
        BY <3>2
      <4>2. buf' = [buf EXCEPT ![At(head, visible)] = d]
        BY <2>3, <4>1
      <4> QED
        BY <1>2, <2>3, <4>2, WriteBehindQueue, ZenonT(60)
    <3> QED
      BY <2>2, <3>1, <3>2
  <2> QED
    BY <2>1, <2>4, BehindStutters
<1> QED
  BY <1>3, <1>4, <1>5

(* Every step of the buffer is a step of the channel, or does not show.    *)
LEMMA StepMaps ==
  ASSUME StaleHandles = FALSE, IInv, [Next]_vars
  PROVE  [Channel!Next]_<<VisibleBlocks, OldestWasRead>>
<1>1. RingInv
  BY DEF IInv, RingInv
<1>2. CASE UNCHANGED vars
  <2>1. UNCHANGED <<VisibleBlocks, OldestWasRead>>
    BY <1>2, BehindStutters DEF vars, ring, blocks
  <2> QED
    BY <2>1
<1>3. ASSUME NEW k \in Kernels, ReserveBegin(k) \/ WaitBegin(k)
      PROVE  [Channel!Next]_<<VisibleBlocks, OldestWasRead>>
  BY <1>1, <1>3, AutoMaps DEF ReserveBegin, WaitBegin
<1>4. ASSUME NEW k \in Kernels, ReserveEnd(k) \/ WaitEnd(k) \/ UseReserved(k)
      PROVE  [Channel!Next]_<<VisibleBlocks, OldestWasRead>>
  BY <1>4, HiddenSteps
<1>5. ASSUME NEW k \in Kernels, Push(k)
      PROVE  Channel!Next
  BY <1>1, <1>5, PushPublishes DEF Push, Channel!Next
<1>6. ASSUME NEW k \in Kernels, Pop(k)
      PROVE  Channel!Next
  BY <1>1, <1>6, PopConsumes DEF Pop, HasWaited, Channel!Next
<1>7. ASSUME NEW k \in Kernels
      PROVE  ~StalePop(k)
  BY DEF StalePop
<1>8. ASSUME NEW k \in Kernels, UseWaited(k)
      PROVE  Channel!Next
  BY <1>8, UseWaitedMaps DEF Channel!Next
<1>9. ASSUME NEW k \in Kernels, Return(k)
      PROVE  [Channel!Next]_<<VisibleBlocks, OldestWasRead>>
  <2>1. CASE HasReserved(k) /\ HasWaited(k)
    BY <1>1, <1>9, <2>1, PushAndPopExchanges DEF Return, HasWaited, Channel!Next
  <2>2. CASE HasReserved(k) /\ ~HasWaited(k)
    BY <1>1, <1>9, <2>2, PushPublishes DEF Return, Channel!Next
  <2>3. CASE ~HasReserved(k)
    BY <1>1, <1>9, <2>3, AutoMaps DEF Return
  <2> QED
    BY <2>1, <2>2, <2>3
<1> QED
  BY <1>2, <1>3, <1>4, <1>5, <1>6, <1>7, <1>8, <1>9 DEF Next

(* The empty buffer is the empty channel.                                  *)
LEMMA InitMaps == Init => Channel!Init
<1> SUFFICES ASSUME Init PROVE Channel!Init
  OBVIOUS
<1>1. VisibleBlocks = << >>
  <2>1. IInv /\ visible = 0
    BY InitIInv DEF Init
  <2>2. VisibleBlocks \in Seq(Data) /\ Len(VisibleBlocks) = 0
    BY <2>1, BlocksAreData, Mapped DEF IInv
  <2> QED
    BY <2>2, EmptySeq
<1>2. OldestWasRead = FALSE
  BY DEF Init, OldestWasRead
<1> QED
  BY <1>1, <1>2 DEF Channel!Init

(* Kernels that drop a handle once its block is popped see a channel: the  *)
(* blocks the producer publishes reach the consumer once each, in order    *)
(* and unchanged, and none is given back or overwritten before it is read. *)
THEOREM BufferIsChannel == StaleHandles = FALSE => (Spec => ImplementsChannel)
<1> SUFFICES ASSUME StaleHandles = FALSE PROVE Spec => ImplementsChannel
  OBVIOUS
<1>1. Init => Channel!Init
  BY InitMaps
<1>2. IInv /\ [Next]_vars => [Channel!Next]_<<VisibleBlocks, OldestWasRead>>
  BY StepMaps
<1> QED
  BY <1>1, <1>2, Invariance, PTL DEF Spec, ImplementsChannel, Channel!Spec
=============================================================================
