--------------------------- MODULE PipeCopyProofs ---------------------------
(***************************************************************************)
(* What the queue of a pipe promises, for every set of receivers, every    *)
(* kind of data and every number of messages and runs: each node takes     *)
(* each message once and in the order it was sent, and a message is kept   *)
(* exactly until its last receiver has it.                                 *)
(*                                                                         *)
(* The invariant says that the queue holds the latest messages, with       *)
(* consecutive ids, and that a node is in a message's set exactly when it  *)
(* has taken more messages than the message's id.  The history got then    *)
(* determines the queue, and from the sets being nested it follows that    *)
(* only the first message can be complete.                                 *)
(***************************************************************************)
EXTENDS PipeCopy, BlockStateProofs, SequenceTheorems, FiniteSetTheorems

(* The messages before First have left the queue.                          *)
First == nextMsgId - Len(queue)

Missing(i) == Receivers \ queue[i].recvSet

NodesInRange ==
  \A n \in Receivers : Len(got[n]) \in First .. nextMsgId

EntriesMatch ==
  \A i \in 1 .. Len(queue) :
    /\ queue[i].id = First + i - 1
    /\ queue[i].recvSet = {n \in Receivers : Len(got[n]) > queue[i].id}
    /\ queue[i].remaining = Cardinality(Missing(i))
    /\ Missing(i) # {}

TensorsExist == \A i \in 1 .. Len(queue) : queue[i].tensor \in 1 .. Len(tensors)

IInv ==
  /\ TypeOK
  /\ Consistent(sm)
  /\ TensorsExist
  /\ First \in Nat
  /\ NodesInRange
  /\ EntriesMatch
  /\ ReceivedInOrder

(* The data of the pipe, apart from the sender's block and from the runs.  *)
pipe == <<queue, nextMsgId, got>>

LEMMA Basics ==
  ASSUME TypeOK
  PROVE  /\ Len(queue) \in Nat /\ DOMAIN queue = 1 .. Len(queue)
         /\ nextMsgId \in Nat
         /\ \A n \in Receivers : Len(got[n]) \in Nat /\ DOMAIN got[n] = 1 .. Len(got[n])
         /\ \A i \in 1 .. Len(queue) : queue[i] \in Message
<1>1. nextMsgId \in Nat
  BY BoundsAssumption DEF TypeOK
<1> QED
  BY <1>1 DEF TypeOK

LEMMA MissingFinite == \A S : IsFiniteSet(Receivers \ S)
  BY ReceiversAssumption, FS_Subset

(* A step that leaves the pipe alone keeps what is said of it.             *)
LEMMA PipeUnchanged ==
  ASSUME UNCHANGED pipe, IInv, TypeOK', Consistent(sm)', Len(tensors') >= Len(tensors)
  PROVE  IInv'
<1>1. TensorsExist'
  <2>1. Len(tensors) \in Nat /\ Len(tensors') \in Nat
    BY DEF IInv, TypeOK
  <2> QED
    BY <2>1 DEF IInv, TensorsExist, pipe
<1> QED
  BY <1>1 DEF IInv, pipe, First, Missing, NodesInRange, EntriesMatch, ReceivedInOrder

-----------------------------------------------------------------------------
LEMMA InitIInv == Init => IInv
<1> SUFFICES ASSUME Init PROVE IInv
  OBVIOUS
<1>1. Consistent(sm) /\ sm \in Machine
  BY InitializeConsistent DEF Init, BlockAcquisition, KernelType, Consistent
<1>2. /\ queue = << >> /\ tensors = << >> /\ sent = << >> /\ nextMsgId = 0 /\ held = 0
      /\ run = 1 /\ done = {} /\ writing = FALSE
      /\ got = [n \in Receivers |-> << >>]
  BY DEF Init, None
<1>3. got \in [Receivers -> Seq([id : Nat, run : 1 .. MaxRuns, data : Data])]
  BY <1>2
<1>4. TypeOK
  <2>1. /\ queue \in Seq(Message) /\ tensors \in Seq(Data)
        /\ sent \in Seq([run : 1 .. MaxRuns, data : Data])
    BY <1>2, EmptySeq
  <2>2. nextMsgId \in 0 .. MaxMessages /\ held \in 0 .. Len(tensors) /\ run \in 1 .. MaxRuns
    BY <1>2, EmptySeq, BoundsAssumption
  <2> QED
    BY <1>1, <1>2, <1>3, <2>1, <2>2 DEF TypeOK
<1> QED
  BY <1>1, <1>2, <1>4 DEF IInv, TensorsExist, First, NodesInRange, EntriesMatch, ReceivedInOrder

(* Every operation the sender does on its block keeps the machine          *)
(* consistent.                                                             *)
LEMMA MachineSteps ==
  ASSUME Consistent(sm)
  PROVE  /\ Consistent(Close(sm)) /\ Consistent(Initialize("WAIT", "DM"))
         /\ \A op \in {"copy_src", "copy_dst", "tx_wait"} :
              Accepts(sm, op) => Consistent(Transition(sm, op))
<1>0. sm.ror \in Nat /\ sm \in Machine
  BY DEF Consistent, Machine
<1>1. Consistent(Close(sm))
  BY <1>0, CloseMoves, MovedConsistent DEF AccessState
<1>2. Consistent(Initialize("WAIT", "DM"))
  BY InitializeConsistent DEF BlockAcquisition, KernelType
<1>3. ASSUME Accepts(sm, "copy_src") PROVE Consistent(Transition(sm, "copy_src"))
  BY <1>0, <1>3, CopySrc, MovedConsistent DEF AccessState
<1>4. ASSUME Accepts(sm, "copy_dst") PROVE Consistent(Transition(sm, "copy_dst"))
  BY <1>0, <1>4, CopyDst, MovedConsistent DEF AccessState
<1>5. ASSUME Accepts(sm, "tx_wait") PROVE Consistent(Transition(sm, "tx_wait"))
  <2>1. CASE sm.access = "NAW"
    BY <1>0, <1>5, <2>1, TxWait, MovedConsistent DEF AccessState
  <2>2. CASE sm.access = "ROR" /\ sm.ror > 1
    <3>1. sm.ror - 1 \in Nat
      BY <1>0, <2>2
    <3> QED
      BY <1>0, <1>5, <2>2, <3>1, TxWait, MovedConsistent DEF AccessState
  <2>3. CASE sm.access = "ROR" /\ ~(sm.ror > 1)
    BY <1>0, <1>5, <2>3, TxWait, MovedConsistent DEF AccessState
  <2> QED
    BY <1>5, <2>1, <2>2, <2>3, TxWait
<1> QED
  BY <1>1, <1>2, <1>3, <1>4, <1>5

-----------------------------------------------------------------------------
(* The sender's steps other than Send, the returns and the next run do not *)
(* touch the pipe.                                                         *)
LEMMA QuietSteps ==
  ASSUME IInv,
         \/ Acquire \/ WaitSend \/ StartOverwrite \/ FinishOverwrite \/ ReleaseBlock
         \/ \E k \in Kernels : Return(k)
         \/ NextRun
  PROVE  IInv'
<1> USE DEF IInv
<1>1. UNCHANGED pipe
  BY DEF pipe, Acquire, WaitSend, StartOverwrite, FinishOverwrite, ReleaseBlock, Return,
         NextRun, entry, history
<1>2. Consistent(sm')
  BY MachineSteps
  DEF Acquire, WaitSend, StartOverwrite, FinishOverwrite, ReleaseBlock, Return, NextRun, block
<1>3. TypeOK'
  <2>0. sm' \in Machine
    BY <1>2 DEF Consistent
  <2>1. CASE Acquire
    <3>1. PICK d \in Data : tensors' = Append(tensors, d)
      BY <2>1 DEF Acquire
    <3>2. tensors' \in Seq(Data) /\ Len(tensors') = Len(tensors) + 1 /\ Len(tensors) \in Nat
      BY <3>1 DEF TypeOK
    <3>3. held' \in 0 .. Len(tensors')
      BY <2>1, <3>2 DEF Acquire
    <3> QED
      BY <2>0, <2>1, <3>2, <3>3 DEF Acquire, TypeOK, entry, history
  <2>2. CASE WaitSend \/ StartOverwrite
    BY <2>0, <2>2 DEF WaitSend, StartOverwrite, TypeOK, entry, history
  <2>3. CASE FinishOverwrite
    <3>1. PICK d \in Data : tensors' = [tensors EXCEPT ![held] = d]
      BY <2>3 DEF FinishOverwrite
    <3>2. tensors' \in Seq(Data) /\ Len(tensors') = Len(tensors)
      <4>1. tensors \in [1 .. Len(tensors) -> Data] /\ Len(tensors) \in Nat
        BY LenProperties DEF TypeOK
      <4>2. tensors' \in [1 .. Len(tensors) -> Data]
        BY <3>1, <4>1
      <4> QED
        BY <4>1, <4>2
    <3> QED
      BY <2>0, <2>3, <3>2 DEF FinishOverwrite, TypeOK, entry, history
  <2>4. CASE ReleaseBlock
    <3>1. held' \in 0 .. Len(tensors) /\ UNCHANGED <<entry, tensors, writing, done, run, history>>
      BY <2>4 DEF ReleaseBlock, TypeOK, None
    <3> QED
      BY <2>0, <3>1 DEF TypeOK, entry, history
  <2>5. CASE \E k \in Kernels : Return(k)
    BY <2>5 DEF Return, TypeOK, entry, block, history
  <2>6. CASE NextRun
    <3>1. run' \in 1 .. MaxRuns
      BY <2>6, BoundsAssumption DEF NextRun, TypeOK
    <3>2. sent' = sent /\ got' = got /\ UNCHANGED <<entry, block>> /\ done' = {}
      BY <2>6 DEF NextRun, history
    <3> QED
      BY <3>1, <3>2 DEF TypeOK, entry, block
  <2> QED
    BY <2>1, <2>2, <2>3, <2>4, <2>5, <2>6
<1>4. Len(tensors') >= Len(tensors)
  <2>0. Len(tensors) \in Nat
    BY DEF TypeOK
  <2>1. CASE Acquire
    <3>1. PICK d \in Data : tensors' = Append(tensors, d)
      BY <2>1 DEF Acquire
    <3> QED
      BY <2>0, <3>1 DEF TypeOK
  <2>2. CASE FinishOverwrite
    <3>1. PICK d \in Data : tensors' = [tensors EXCEPT ![held] = d]
      BY <2>2 DEF FinishOverwrite
    <3> QED
      BY <2>0, <3>1 DEF TypeOK
  <2>3. CASE ~Acquire /\ ~FinishOverwrite
    <3>1. tensors' = tensors
      BY <2>3 DEF WaitSend, StartOverwrite, ReleaseBlock, Return, NextRun, block
    <3> QED
      BY <2>0, <3>1
  <2> QED
    BY <2>1, <2>2, <2>3
<1> QED
  BY <1>1, <1>2, <1>3, <1>4, PipeUnchanged

(* A message is queued behind the others, and no node has it.              *)
LEMMA SendStepKeepsIInv ==
  ASSUME IInv, Send
  PROVE  IInv'
<1> USE DEF IInv
<1> DEFINE N == Len(queue)
           m == [tensor |-> held, remaining |-> Cardinality(Receivers), id |-> nextMsgId,
                 recvSet |-> {}]
<1>0. /\ N \in Nat /\ nextMsgId \in Nat
      /\ \A n \in Receivers : Len(got[n]) \in Nat /\ DOMAIN got[n] = 1 .. Len(got[n])
  BY Basics
<1>1. Consistent(sm')
  BY MachineSteps DEF Send
<1>2. /\ queue' = Append(queue, m) /\ nextMsgId' = nextMsgId + 1 /\ got' = got
      /\ sent' = Append(sent, [run |-> run, data |-> tensors[held]])
      /\ UNCHANGED <<tensors, held, writing, done, run>>
      /\ nextMsgId < MaxMessages /\ held # 0
  BY DEF Send, None
<1>3. m \in Message /\ m.remaining = Cardinality(Receivers) /\ m.remaining # 0
  <2>1. Cardinality(Receivers) \in Nat \ {0}
    BY ReceiversAssumption, FS_CardinalityType, FS_EmptySet
  <2>2. held \in Nat \ {0}
    BY <1>2 DEF TypeOK
  <2> QED
    BY <1>0, <2>1, <2>2 DEF Message
<1>4. /\ queue' \in Seq(Message) /\ Len(queue') = N + 1
      /\ \A i \in 1 .. N : queue'[i] = queue[i]
      /\ queue'[N + 1] = m
  BY <1>2, <1>3 DEF TypeOK
<1>5. TypeOK'
  <2>1. sm' \in Machine
    BY <1>1 DEF Consistent
  <2>2. nextMsgId' \in 0 .. MaxMessages
    BY <1>0, <1>2, BoundsAssumption
  <2>3. tensors[held] \in Data
    BY <1>2 DEF TypeOK
  <2>4. sent' \in Seq([run : 1 .. MaxRuns, data : Data])
    BY <1>2, <2>3 DEF TypeOK
  <2> QED
    BY <1>2, <1>4, <2>1, <2>2, <2>4 DEF TypeOK
<1>6. First' = First
  BY <1>0, <1>2, <1>4 DEF First
<1>7. NodesInRange'
  BY <1>0, <1>2, <1>6 DEF NodesInRange, First
<1>8. EntriesMatch'
  <2> SUFFICES ASSUME NEW i \in 1 .. N + 1
               PROVE  /\ queue'[i].id = First + i - 1
                      /\ queue'[i].recvSet = {n \in Receivers : Len(got[n]) > queue'[i].id}
                      /\ queue'[i].remaining = Cardinality(Missing(i)')
                      /\ Missing(i)' # {}
    BY <1>2, <1>4, <1>6 DEF EntriesMatch
  <2>1. CASE i = N + 1
    <3>1. queue'[i].id = nextMsgId /\ queue'[i].recvSet = {}
          /\ queue'[i].remaining = Cardinality(Receivers)
      BY <1>4, <2>1
    <3>2. \A n \in Receivers : ~(Len(got[n]) > nextMsgId)
      BY <1>0 DEF NodesInRange, First
    <3>3. Missing(i)' = Receivers
      BY <3>1 DEF Missing
    <3> QED
      BY <1>0, <2>1, <3>1, <3>2, <3>3, ReceiversAssumption DEF First
  <2>2. CASE i # N + 1
    <3>1. i \in 1 .. N
      BY <1>0, <2>2
    <3> QED
      BY <1>4, <3>1 DEF EntriesMatch, Missing
  <2> QED
    BY <2>1, <2>2
<1>9. ReceivedInOrder'
  BY <1>2 DEF ReceivedInOrder
<1>10. TensorsExist'
  <2>1. m.tensor \in 1 .. Len(tensors)
    BY <1>2 DEF TypeOK
  <2>2. \A i \in 1 .. N + 1 : i # N + 1 => i \in 1 .. N
    BY <1>0
  <2> QED
    BY <1>2, <1>4, <2>1, <2>2 DEF TensorsExist
<1> QED
  BY <1>1, <1>5, <1>6, <1>7, <1>8, <1>9, <1>10

-----------------------------------------------------------------------------
(* The message a node takes is the one after those it has, and it is in    *)
(* the queue.                                                              *)
LEMMA NextMessage ==
  ASSUME IInv, NEW n \in Receivers, CanReceive(n)
  PROVE  LET i == Min(Receivable(n))
         IN  /\ i \in 1 .. Len(queue)
             /\ queue[i].id = Len(got[n])
             /\ n \in Missing(i)
<1> USE DEF IInv
<1> DEFINE k == Len(got[n]) - First + 1
<1>0. /\ Len(queue) \in Nat /\ DOMAIN queue = 1 .. Len(queue) /\ nextMsgId \in Nat
      /\ Len(got[n]) \in Nat
  BY Basics
<1>1. Receivable(n) = {j \in 1 .. Len(queue) : j >= k}
  BY <1>0 DEF Receivable, EntriesMatch
<1>2. k \in Nat \ {0}
  BY <1>0 DEF NodesInRange
<1>3. k \in 1 .. Len(queue)
  BY <1>0, <1>1, <1>2 DEF CanReceive
<1>4. k \in Receivable(n) /\ \A j \in Receivable(n) : k =< j
  BY <1>1, <1>2, <1>3
<1>5. \A j \in Receivable(n) : (\A l \in Receivable(n) : j =< l) => j = k
  <2> SUFFICES ASSUME NEW j \in Receivable(n), \A l \in Receivable(n) : j =< l
               PROVE  j = k
    OBVIOUS
  <2>1. j =< k /\ k =< j /\ j \in Int /\ k \in Int
    <3> HIDE DEF k
    <3> QED
      BY <1>0, <1>1, <1>2, <1>4
  <2> HIDE DEF k
  <2> QED
    BY <2>1
<1>6. Min(Receivable(n)) = k
  BY <1>4, <1>5 DEF Min
<1>7. queue[k].id = Len(got[n])
  BY <1>0, <1>2, <1>3 DEF EntriesMatch
<1>8. n \in Missing(k)
  <2>1. queue[k].recvSet = {m \in Receivers : Len(got[m]) > queue[k].id}
    BY <1>3 DEF EntriesMatch
  <2>2. n \notin queue[k].recvSet
    BY <1>0, <1>7, <2>1
  <2> QED
    BY <2>2 DEF Missing
<1> QED
  BY <1>3, <1>6, <1>7, <1>8

(* Only the first message can have a single receiver to come: whoever has  *)
(* a message has those before it.                                          *)
LEMMA LastReceiverOfFirst ==
  ASSUME IInv, NEW i \in 1 .. Len(queue), NEW n, Missing(i) = {n},
         \A j \in 1 .. i - 1 : n \notin Missing(j)
  PROVE  i = 1
<1> USE DEF IInv
<1>0. Len(queue) \in Nat /\ \A m \in Receivers : Len(got[m]) \in Nat
  BY Basics
<1> SUFFICES ASSUME i # 1 PROVE FALSE
  OBVIOUS
<1>1. 1 \in 1 .. Len(queue) /\ 1 \in 1 .. i - 1
  BY <1>0
<1>2. queue[1].id < queue[i].id /\ queue[1].id \in Nat /\ queue[i].id \in Nat
  <2>1. queue[1].id = First + 1 - 1 /\ queue[i].id = First + i - 1
    BY <1>1 DEF EntriesMatch
  <2>2. First \in Nat /\ i \in Nat /\ 1 < i
    BY <1>0
  <2> HIDE DEF IInv
  <2> QED
    BY <2>1, <2>2
<1>3. \A m \in Receivers : m \notin Missing(i) => m \notin Missing(1)
  <2>1. /\ queue[1].recvSet = {m \in Receivers : Len(got[m]) > queue[1].id}
        /\ queue[i].recvSet = {m \in Receivers : Len(got[m]) > queue[i].id}
    BY <1>1 DEF EntriesMatch
  <2> SUFFICES ASSUME NEW m \in Receivers, m \in queue[i].recvSet
               PROVE  m \in queue[1].recvSet
    BY DEF Missing
  <2>2. Len(got[m]) > queue[i].id /\ Len(got[m]) \in Nat
    BY <1>0, <2>1
  <2>3. Len(got[m]) > queue[1].id
    BY <1>2, <2>2
  <2> QED
    BY <2>1, <2>3
<1>4. Missing(1) = {}
  BY <1>1, <1>3 DEF Missing
<1> QED
  BY <1>1, <1>4 DEF EntriesMatch

(* Taking the first element away shifts the others.                        *)
LEMMA RemoveFirstElement ==
  ASSUME NEW S, NEW s \in Seq(S), Len(s) > 0
  PROVE  /\ RemoveAt(s, 1) \in Seq(S)
         /\ Len(RemoveAt(s, 1)) = Len(s) - 1
         /\ \A i \in 1 .. Len(s) - 1 : RemoveAt(s, 1)[i] = s[i + 1]
<1> DEFINE t == SubSeq(s, 2, Len(s))
<1>0. Len(s) \in Nat \ {0}
  OBVIOUS
<1>1. SubSeq(s, 1, 0) = << >>
  BY SubSeqEmpty
<1>2. \A i \in 2 .. Len(s) : s[i] \in S
  BY <1>0
<1>3. /\ t \in Seq(S) /\ Len(t) = Len(s) - 1
      /\ \A i \in 1 .. Len(s) - 1 : t[i] = s[i + 1]
  <2>1. /\ t \in Seq(S)
        /\ Len(t) = IF 2 <= Len(s) THEN Len(s) - 2 + 1 ELSE 0
        /\ \A i \in 1 .. Len(s) - 2 + 1 : t[i] = s[2 + i - 1]
    BY <1>0, <1>2, SubSeqProperties
  <2>2. Len(t) = Len(s) - 1 /\ Len(s) - 2 + 1 = Len(s) - 1
    <3>1. \A k \in Nat \ {0} : \A l : l = (IF 2 <= k THEN k - 2 + 1 ELSE 0)
                                     => l = k - 1 /\ k - 2 + 1 = k - 1
      OBVIOUS
    <3>2. Len(t) = IF 2 <= Len(s) THEN Len(s) - 2 + 1 ELSE 0
      BY <2>1
    <3> HIDE DEF t
    <3> QED
      BY <1>0, <3>1, <3>2, Zenon
  <2>3. \A i \in 1 .. Len(s) - 1 : t[i] = s[i + 1]
    <3> SUFFICES ASSUME NEW i \in 1 .. Len(s) - 1 PROVE t[i] = s[i + 1]
      OBVIOUS
    <3>1. t[i] = s[2 + i - 1]
      BY <2>1, <2>2
    <3>2. 2 + i - 1 = i + 1
      OBVIOUS
    <3> QED
      BY <3>1, <3>2
  <2> QED
    BY <2>1, <2>2, <2>3
<1>4. RemoveAt(s, 1) = t
  <2>1. << >> \o t = t
    BY <1>3, ConcatEmptySeq
  <2> QED
    BY <1>1, <2>1 DEF RemoveAt
<1> QED
  BY <1>3, <1>4

LEMMA StruckOff ==
  ASSUME NEW q \in Message, NEW n \in Receivers, q.remaining # 1
  PROVE  [q EXCEPT !.remaining = @ - 1, !.recvSet = @ \cup {n}] \in Message
<1>1. q.remaining - 1 \in Nat \ {0} /\ q.recvSet \cup {n} \in SUBSET Receivers
  BY DEF Message
<1>2. q \in [tensor : Nat \ {0}, remaining : Nat \ {0}, id : Nat, recvSet : SUBSET Receivers]
  BY DEF Message
<1>3. \A a \in Nat \ {0}, b \in SUBSET Receivers :
        [q EXCEPT !.remaining = a, !.recvSet = b] \in Message
  BY <1>2 DEF Message
<1> QED
  BY <1>1, <1>3

(* What taking message i does to the queue: n is struck off, or the        *)
(* message, the first one, is gone because n was the last.                 *)
LEMMA TakenQueue ==
  ASSUME IInv, NEW n \in Receivers, NEW i \in 1 .. Len(queue), queue[i].id = Len(got[n]),
         n \in Missing(i)
  PROVE  /\ Taken(i, n) \in Seq(Message)
         /\ \/ /\ Len(Taken(i, n)) = Len(queue) - 1
               /\ i = 1 /\ Missing(1) = {n}
               /\ \A j \in 1 .. Len(queue) - 1 : Taken(i, n)[j] = queue[j + 1]
            \/ /\ Len(Taken(i, n)) = Len(queue)
               /\ Missing(i) # {n}
               /\ Taken(i, n)[i] = [queue[i] EXCEPT !.remaining = @ - 1, !.recvSet = @ \cup {n}]
               /\ \A j \in 1 .. Len(queue) : j # i => Taken(i, n)[j] = queue[j]
<1> USE DEF IInv
<1>0. /\ Len(queue) \in Nat /\ queue \in Seq(Message) /\ queue[i] \in Message
      /\ \A m \in Receivers : Len(got[m]) \in Nat
  BY Basics DEF TypeOK
<1>1. /\ IsFiniteSet(Missing(i)) /\ queue[i].remaining = Cardinality(Missing(i))
  BY MissingFinite DEF EntriesMatch, Missing
<1>2. CASE queue[i].remaining = 1
  <2>1. Missing(i) = {n}
    <3>1. PICK x : Missing(i) = {x}
      BY <1>1, <1>2, FS_Singleton
    <3> QED
      BY <3>1
  <2>2. \A j \in 1 .. i - 1 : n \notin Missing(j)
    <3> SUFFICES ASSUME NEW j \in 1 .. i - 1 PROVE n \in queue[j].recvSet
      BY DEF Missing
    <3>1. j \in 1 .. Len(queue) /\ j < i /\ j \in Nat /\ i \in Nat
      BY <1>0
    <3>2. queue[j].id = First + j - 1 /\ queue[i].id = First + i - 1 /\ First \in Nat
      BY <3>1 DEF EntriesMatch
    <3>3. queue[j].recvSet = {m \in Receivers : Len(got[m]) > queue[j].id}
      BY <3>1 DEF EntriesMatch
    <3>4. Len(got[n]) > queue[j].id
      BY <1>0, <3>1, <3>2
    <3> QED
      BY <3>3, <3>4
  <2>3. i = 1
    BY <2>1, <2>2, LastReceiverOfFirst
  <2>4. Taken(i, n) = RemoveAt(queue, 1)
    BY <1>2, <2>3 DEF Taken
  <2> QED
    BY <1>0, <2>1, <2>3, <2>4, RemoveFirstElement
<1>3. CASE queue[i].remaining # 1
  <2> DEFINE m == [queue[i] EXCEPT !.remaining = @ - 1, !.recvSet = @ \cup {n}]
  <2>1. Taken(i, n) = [queue EXCEPT ![i] = m]
    BY <1>3 DEF Taken
  <2>2. Missing(i) # {n}
    BY <1>1, <1>3, FS_Singleton
  <2>3. m \in Message
    BY <1>0, <1>3, StruckOff
  <2>4. [queue EXCEPT ![i] = m] \in Seq(Message) /\ Len([queue EXCEPT ![i] = m]) = Len(queue)
    BY <1>0, <2>3, ExceptSeq
  <2>5. /\ [queue EXCEPT ![i] = m][i] = m
        /\ \A j \in 1 .. Len(queue) : j # i => [queue EXCEPT ![i] = m][j] = queue[j]
    <3> HIDE DEF m
    <3>1. \A j \in 1 .. Len(queue) : [queue EXCEPT ![i] = m][j] = IF j = i THEN m ELSE queue[j]
      BY <1>0, <2>3, ExceptSeq
    <3> QED
      BY <3>1
  <2> QED
    BY <2>1, <2>2, <2>4, <2>5
<1> QED
  BY <1>2, <1>3

LEMMA ReceiveKeepsIInv ==
  ASSUME IInv, NEW n \in Receivers, Receive(n)
  PROVE  IInv'
<1> USE DEF IInv
<1>1. PICK i \in 1 .. Len(queue) :
        /\ queue[i].id = Len(got[n]) /\ n \in Missing(i)
        /\ queue' = Taken(i, n)
        /\ got' = [got EXCEPT ![n] = Append(@, [id |-> queue[i].id, run |-> run,
                                                data |-> tensors[queue[i].tensor]])]
  BY NextMessage DEF Receive
<1>2. UNCHANGED <<nextMsgId, tensors, held, sm, writing, done, run, sent>>
  BY DEF Receive, block
<1>0. /\ Len(queue) \in Nat /\ nextMsgId \in Nat /\ First \in Nat /\ i \in Nat
      /\ queue[i].id = First + i - 1
      /\ \A m \in Receivers : Len(got[m]) \in Nat /\ DOMAIN got[m] = 1 .. Len(got[m])
  BY Basics DEF EntriesMatch
<1> DEFINE e == [id |-> queue[i].id, run |-> run, data |-> tensors[queue[i].tensor]]
<1>3. e \in [id : Nat, run : 1 .. MaxRuns, data : Data]
  <2>1. tensors[queue[i].tensor] \in Data
    BY DEF TensorsExist, TypeOK
  <2>2. queue[i].id \in Nat /\ run \in 1 .. MaxRuns
    BY <1>0, <1>1 DEF TypeOK
  <2> QED
    BY <2>1, <2>2
<1>4. /\ got' \in [Receivers -> Seq([id : Nat, run : 1 .. MaxRuns, data : Data])]
      /\ \A m \in Receivers : m # n => got'[m] = got[m]
      /\ got'[n] = Append(got[n], e)
  <2> HIDE DEF e
  <2> DEFINE Taking == [id : Nat, run : 1 .. MaxRuns, data : Data]
  <2> HIDE DEF Taking
  <2>1. got \in [Receivers -> Seq(Taking)] /\ e \in Taking
    BY <1>3 DEF TypeOK, Taking
  <2>2. got' = [got EXCEPT ![n] = Append(@, e)]
    BY <1>1 DEF e
  <2>3. Append(got[n], e) \in Seq(Taking)
    BY <2>1
  <2>4. got' \in [Receivers -> Seq(Taking)]
    BY <2>1, <2>2, <2>3
  <2> QED
    BY <2>1, <2>2, <2>4 DEF Taking
<1>5. /\ Len(got'[n]) = Len(got[n]) + 1
      /\ \A j \in 1 .. Len(got[n]) : got'[n][j] = got[n][j]
      /\ got'[n][Len(got[n]) + 1].id = Len(got[n])
  <2>1. got[n] \in Seq([id : Nat, run : 1 .. MaxRuns, data : Data])
    BY DEF TypeOK
  <2>2. e.id = Len(got[n])
    BY <1>1
  <2> HIDE DEF e
  <2> QED
    BY <1>3, <1>4, <2>1, <2>2
<1>6. ReceivedInOrder'
  <2> SUFFICES ASSUME NEW m \in Receivers, NEW j \in DOMAIN got'[m]
               PROVE  got'[m][j].id = j - 1
    BY DEF ReceivedInOrder
  <2>1. CASE m # n
    BY <1>4, <2>1 DEF ReceivedInOrder
  <2>2. CASE m = n
    <3>1. j \in 1 .. Len(got[n]) + 1
      BY <1>4, <1>5, <2>2
    <3>2. CASE j = Len(got[n]) + 1
      BY <1>0, <1>5, <2>2, <3>2
    <3>3. CASE j # Len(got[n]) + 1
      <4>1. j \in 1 .. Len(got[n]) /\ j \in DOMAIN got[n]
        BY <1>0, <3>1, <3>3
      <4> QED
        BY <1>5, <2>2, <4>1 DEF ReceivedInOrder
    <3> QED
      BY <3>2, <3>3
  <2> QED
    BY <2>1, <2>2
<1>7. /\ queue' \in Seq(Message)
      /\ \/ /\ Len(queue') = Len(queue) - 1
            /\ i = 1 /\ Missing(1) = {n}
            /\ \A j \in 1 .. Len(queue) - 1 : queue'[j] = queue[j + 1]
         \/ /\ Len(queue') = Len(queue)
            /\ Missing(i) # {n}
            /\ queue'[i] = [queue[i] EXCEPT !.remaining = @ - 1, !.recvSet = @ \cup {n}]
            /\ \A j \in 1 .. Len(queue) : j # i => queue'[j] = queue[j]
  BY <1>1, TakenQueue, ZenonT(60)
<1>8. TypeOK'
  BY <1>2, <1>4, <1>7 DEF TypeOK
<1>9. NodesInRange'
  <2> SUFFICES ASSUME NEW m \in Receivers PROVE Len(got'[m]) \in First' .. nextMsgId
    BY <1>2 DEF NodesInRange
  <2>1. Len(got[m]) \in First .. nextMsgId /\ Len(got[m]) \in Nat
    BY <1>0 DEF NodesInRange
  <2>2. Len(got'[m]) = IF m = n THEN Len(got[m]) + 1 ELSE Len(got[m])
    BY <1>4, <1>5
  <2>3. i \in 1 .. Len(queue) /\ Len(got[n]) < nextMsgId
    BY <1>0, <1>1 DEF First
  <2>4. CASE Len(queue') = Len(queue)
    <3>1. First' = First
      BY <1>2, <2>4 DEF First
    <3> QED
      BY <1>0, <2>1, <2>2, <2>3, <3>1
  <2>5. CASE Len(queue') = Len(queue) - 1 /\ i = 1 /\ Missing(1) = {n}
    <3>1. First' = First + 1
      BY <1>0, <1>2, <2>5 DEF First
    <3>2. CASE m = n
      BY <1>0, <2>1, <2>2, <2>3, <3>1, <3>2
    <3>3. CASE m # n
      <4>1. queue[1].recvSet = {x \in Receivers : Len(got[x]) > queue[1].id}
        BY <2>3, <2>5 DEF EntriesMatch
      <4>2. m \in queue[1].recvSet
        BY <2>5, <3>3 DEF Missing
      <4>3. Len(got[m]) > First
        BY <1>0, <2>5, <4>1, <4>2
      <4> QED
        BY <1>0, <2>1, <2>2, <3>1, <3>3, <4>3
    <3> QED
      BY <3>2, <3>3
  <2> QED
    BY <1>7, <2>4, <2>5
<1>10. /\ \A k \in 1 .. Len(queue) : k # i =>
            {m \in Receivers : Len(got'[m]) > queue[k].id} = queue[k].recvSet
       /\ {m \in Receivers : Len(got'[m]) > queue[i].id} = queue[i].recvSet \cup {n}
  <2>1. \A m \in Receivers : Len(got'[m]) = IF m = n THEN Len(got[m]) + 1 ELSE Len(got[m])
    BY <1>4, <1>5
  <2>2. queue[i].recvSet = {m \in Receivers : Len(got[m]) > queue[i].id}
    BY DEF EntriesMatch
  <2>3. {m \in Receivers : Len(got'[m]) > queue[i].id} = queue[i].recvSet \cup {n}
    BY <1>0, <1>1, <2>1, <2>2
  <2>4. ASSUME NEW k \in 1 .. Len(queue), k # i
        PROVE  {m \in Receivers : Len(got'[m]) > queue[k].id} = queue[k].recvSet
    <3>1. queue[k].id = First + k - 1 /\ k \in Nat
      BY <1>0 DEF EntriesMatch
    <3>2. queue[k].id # Len(got[n]) /\ queue[k].id \in Int
      BY <1>0, <1>1, <2>4, <3>1
    <3>3. queue[k].recvSet = {m \in Receivers : Len(got[m]) > queue[k].id}
      BY DEF EntriesMatch
    <3>4. \A m \in Receivers : Len(got'[m]) > queue[k].id <=> Len(got[m]) > queue[k].id
      BY <1>0, <2>1, <3>2
    <3> QED
      BY <3>3, <3>4
  <2> QED
    BY <2>3, <2>4
<1>11. CASE /\ Len(queue') = Len(queue) - 1
            /\ i = 1
            /\ \A j \in 1 .. Len(queue) - 1 : queue'[j] = queue[j + 1]
  <2>1. First' = First + 1
    BY <1>0, <1>2, <1>11 DEF First
  <2> SUFFICES ASSUME NEW j \in 1 .. Len(queue) - 1
               PROVE  /\ queue'[j].tensor \in 1 .. Len(tensors)
                      /\ queue'[j].id = First' + j - 1
                      /\ queue'[j].recvSet = {m \in Receivers : Len(got'[m]) > queue'[j].id}
                      /\ queue'[j].remaining = Cardinality(Missing(j)')
                      /\ Missing(j)' # {}
    <3>1. Consistent(sm') /\ First' \in Nat
      BY <1>0, <1>2, <2>1
    <3>2. 1 .. Len(queue') = 1 .. Len(queue) - 1
      BY <1>11
    <3> QED
      BY <1>2, <1>6, <1>8, <1>9, <3>1, <3>2 DEF TensorsExist, EntriesMatch
  <2>2. j + 1 \in 1 .. Len(queue) /\ j + 1 # i /\ j \in Nat
    BY <1>0, <1>11
  <2>3. queue'[j] = queue[j + 1]
    BY <1>11
  <2>4. /\ queue[j + 1].id = First + (j + 1) - 1
        /\ queue[j + 1].remaining = Cardinality(Missing(j + 1))
        /\ Missing(j + 1) # {}
    BY <2>2 DEF EntriesMatch
  <2>5. queue[j + 1].tensor \in 1 .. Len(tensors)
    BY <2>2 DEF TensorsExist
  <2>6. First + (j + 1) - 1 = First' + j - 1
    BY <1>0, <2>1, <2>2
  <2>7. Missing(j)' = Missing(j + 1)
    BY <2>3 DEF Missing
  <2>8. {m \in Receivers : Len(got'[m]) > queue[j + 1].id} = queue[j + 1].recvSet
    BY <1>10, <2>2
  <2> QED
    BY <2>3, <2>4, <2>5, <2>6, <2>7, <2>8
<1>12. CASE /\ Len(queue') = Len(queue)
            /\ Missing(i) # {n}
            /\ queue'[i] = [queue[i] EXCEPT !.remaining = @ - 1, !.recvSet = @ \cup {n}]
            /\ \A j \in 1 .. Len(queue) : j # i => queue'[j] = queue[j]
  <2>1. First' = First
    BY <1>2, <1>12 DEF First
  <2> SUFFICES ASSUME NEW j \in 1 .. Len(queue)
               PROVE  /\ queue'[j].tensor \in 1 .. Len(tensors)
                      /\ queue'[j].id = First + j - 1
                      /\ queue'[j].recvSet = {m \in Receivers : Len(got'[m]) > queue'[j].id}
                      /\ queue'[j].remaining = Cardinality(Missing(j)')
                      /\ Missing(j)' # {}
    BY <1>0, <1>2, <1>6, <1>8, <1>9, <1>12, <2>1 DEF TensorsExist, EntriesMatch
  <2>2. /\ queue[j].id = First + j - 1
        /\ queue[j].remaining = Cardinality(Missing(j))
        /\ Missing(j) # {}
        /\ queue[j].tensor \in 1 .. Len(tensors)
    BY DEF EntriesMatch, TensorsExist
  <2>3. CASE j # i
    <3>1. queue'[j] = queue[j]
      BY <1>12, <2>3
    <3>2. {m \in Receivers : Len(got'[m]) > queue[j].id} = queue[j].recvSet
      BY <1>10, <2>3
    <3> QED
      BY <2>2, <3>1, <3>2 DEF Missing
  <2>4. CASE j = i
    <3>1. queue[i] \in Message
      BY Basics
    <3>2. /\ queue'[i].tensor = queue[i].tensor
          /\ queue'[i].id = queue[i].id
          /\ queue'[i].remaining = queue[i].remaining - 1
          /\ queue'[i].recvSet = queue[i].recvSet \cup {n}
      BY <1>12, <3>1 DEF Message
    <3>3. Missing(i)' = Missing(i) \ {n}
      BY <3>2 DEF Missing
    <3>4. Missing(i)' # {}
      BY <1>1, <1>12, <3>3
    <3>5. Cardinality(Missing(i) \ {n}) = Cardinality(Missing(i)) - 1
      BY <1>1, MissingFinite, FS_RemoveElement DEF Missing
    <3> QED
      BY <1>10, <2>2, <2>4, <3>2, <3>3, <3>4, <3>5
  <2> QED
    BY <2>3, <2>4
<1> QED
  BY <1>7, <1>11, <1>12

LEMMA NextIInv == IInv /\ [Next]_vars => IInv'
<1> SUFFICES ASSUME IInv, [Next]_vars PROVE IInv'
  OBVIOUS
<1>1. CASE SendStep
  BY <1>1, QuietSteps, SendStepKeepsIInv DEF SendStep
<1>2. CASE \E n \in Receivers : Receive(n)
  BY <1>2, ReceiveKeepsIInv
<1>3. CASE (\E k \in Kernels : Return(k)) \/ NextRun
  BY <1>3, QuietSteps
<1>4. CASE UNCHANGED vars
  <2>1. UNCHANGED pipe /\ TypeOK' /\ Consistent(sm)' /\ Len(tensors') >= Len(tensors)
    <3>1. Len(tensors) \in Nat
      BY DEF IInv, TypeOK
    <3>2. /\ UNCHANGED <<queue, nextMsgId, tensors, held, sm, writing>>
          /\ UNCHANGED <<done, run, sent, got>>
      BY <1>4 DEF vars, entry, block, history
    <3>3. TypeOK'
      BY <3>2 DEF IInv, TypeOK
    <3> QED
      BY <3>1, <3>2, <3>3 DEF pipe, IInv
  <2> QED
    BY <2>1, PipeUnchanged
<1> QED
  BY <1>1, <1>2, <1>3, <1>4 DEF Next

-----------------------------------------------------------------------------
THEOREM Invariance == Spec => []IInv
<1>1. Init => IInv
  BY InitIInv
<1>2. IInv /\ [Next]_vars => IInv'
  BY NextIInv
<1> QED
  BY <1>1, <1>2, PTL DEF Spec

(* The entry of the pipe, the sender's block and the histories keep their  *)
(* types; in particular no count of receivers to come reaches zero.        *)
THEOREM TypeCorrect == Spec => []TypeOK
<1>1. IInv => TypeOK
  BY DEF IInv
<1> QED
  BY <1>1, Invariance, PTL

(* The count kept with a message is that of the nodes that have not taken  *)
(* it, and the sets are nested (PipeToBlockHandler.transfer).              *)
THEOREM QueueAgrees == Spec => []QueueMatchesReceivers
<1>1. IInv => QueueMatchesReceivers
  <2> SUFFICES ASSUME IInv PROVE QueueMatchesReceivers
    OBVIOUS
  <2> USE DEF IInv
  <2>0. /\ Len(queue) \in Nat /\ DOMAIN queue = 1 .. Len(queue)
        /\ \A m \in Receivers : Len(got[m]) \in Nat
    BY Basics
  <2>1. \A i \in DOMAIN queue : queue[i].remaining = Cardinality(Receivers \ queue[i].recvSet)
    BY <2>0 DEF EntriesMatch, Missing
  <2>2. ASSUME NEW i \in DOMAIN queue, NEW j \in DOMAIN queue, i < j
        PROVE  queue[j].recvSet \subseteq queue[i].recvSet /\ queue[i].id < queue[j].id
    <3>1. queue[i].id = First + i - 1 /\ queue[j].id = First + j - 1
      BY <2>0 DEF EntriesMatch
    <3>2. /\ queue[i].recvSet = {n \in Receivers : Len(got[n]) > queue[i].id}
          /\ queue[j].recvSet = {n \in Receivers : Len(got[n]) > queue[j].id}
      BY <2>0 DEF EntriesMatch
    <3>3. queue[i].id < queue[j].id /\ queue[i].id \in Int /\ queue[j].id \in Int
      BY <2>0, <2>2, <3>1
    <3>4. \A n \in Receivers : Len(got[n]) > queue[j].id => Len(got[n]) > queue[i].id
      BY <2>0, <3>3
    <3> QED
      BY <3>2, <3>3, <3>4
  <2> QED
    BY <2>1, <2>2 DEF QueueMatchesReceivers
<1> QED
  BY <1>1, Invariance, PTL

(* Every node takes every message once and in the order of sending,        *)
(* however many nodes there are and however far one is ahead of another.   *)
THEOREM InOrder == Spec => []ReceivedInOrder
<1>1. IInv => ReceivedInOrder
  BY DEF IInv
<1> QED
  BY <1>1, Invariance, PTL

(* A message is queued exactly while some node has still to take it: the   *)
(* deletion at the last receiver loses and keeps none.                     *)
THEOREM KeptUntilTaken == Spec => []NothingLost
<1>1. IInv => NothingLost
  <2> SUFFICES ASSUME IInv, NEW id \in 0 .. nextMsgId - 1
               PROVE  (\E i \in DOMAIN queue : queue[i].id = id)
                        <=> (\E n \in Receivers : Len(got[n]) <= id)
    BY DEF NothingLost
  <2> USE DEF IInv
  <2>0. /\ Len(queue) \in Nat /\ DOMAIN queue = 1 .. Len(queue) /\ nextMsgId \in Nat
        /\ First \in Nat /\ id \in Nat
        /\ \A m \in Receivers : Len(got[m]) \in Nat
    BY Basics
  <2>1. CASE id >= First
    <3> DEFINE i == id - First + 1
    <3>1. i \in 1 .. Len(queue)
      BY <2>0, <2>1 DEF First
    <3>2. queue[i].id = First + i - 1
      BY <3>1 DEF EntriesMatch
    <3>3. queue[i].id = id
      BY <2>0, <3>2
    <3>4. PICK n \in Receivers : n \notin queue[i].recvSet
      BY <3>1 DEF EntriesMatch, Missing
    <3>5. queue[i].recvSet = {m \in Receivers : Len(got[m]) > queue[i].id}
      BY <3>1 DEF EntriesMatch
    <3>6. Len(got[n]) <= id
      BY <2>0, <3>3, <3>4, <3>5
    <3> QED
      BY <2>0, <3>1, <3>3, <3>6
  <2>2. CASE id < First
    <3>1. \A i \in DOMAIN queue : queue[i].id # id
      <4> SUFFICES ASSUME NEW i \in DOMAIN queue PROVE queue[i].id # id
        OBVIOUS
      <4>1. queue[i].id = First + i - 1 /\ i \in Nat /\ i >= 1
        BY <2>0 DEF EntriesMatch
      <4> QED
        BY <2>0, <2>2, <4>1
    <3>2. \A n \in Receivers : ~(Len(got[n]) <= id)
      BY <2>0, <2>2 DEF NodesInRange
    <3> QED
      BY <3>1, <3>2
  <2> QED
    BY <2>0, <2>1, <2>2
<1> QED
  BY <1>1, Invariance, PTL
=============================================================================
