------------------------------ MODULE PipeCopy ------------------------------
(***************************************************************************)
(* One pipe of the simulator: the queue of messages that sim/copyhandlers  *)
(* keeps for it in the context (PipeEntry), the kernel that sends blocks   *)
(* into it and the kernels, one on each destination node, that receive     *)
(* from it, over several runs of an operation in one session.              *)
(*                                                                         *)
(* A message is queued by reference: it names the sender's tensor, and the *)
(* data is read from that tensor when a receiver takes the message.  The   *)
(* sender's block is kept with its state machine (BlockState), because the *)
(* machine decides when the sender may write into the tensor again.  The   *)
(* blocks the receivers copy into are the business of BlockProtocol.       *)
(*                                                                         *)
(* The steps interleave freely: between two calls that yield, a kernel may *)
(* be held up by its dataflow buffers for any time.  When the scheduler    *)
(* resumes a receiver is the business of SimProgram; here a message is     *)
(* taken when the kernel's own can_wait() holds.                           *)
(***************************************************************************)
EXTENDS BlockState, FiniteSets, SequencesExt

CONSTANTS
  Receivers,    \* the nodes of the pipe's destination
  Data,         \* what a block can hold
  MaxTensors,   \* bound: blocks the sender acquires, over all runs
  MaxMessages,  \* bound: messages sent, over all runs
  MaxRuns       \* bound: runs of the operation in the session

ASSUME ReceiversAssumption == IsFiniteSet(Receivers) /\ Receivers # {}
ASSUME DataAssumption == Data # {}
ASSUME BoundsAssumption ==
  /\ MaxTensors \in Nat
  /\ MaxMessages \in Nat
  /\ MaxRuns \in Nat \ {0}

Sender == "sender"
ASSUME SenderAssumption == Sender \notin Receivers

Kernels == Receivers \cup {Sender}

None == 0   \* the sender holds no block

VARIABLES
  queue,      \* entry["queue"]: the messages not yet received by every node
  nextMsgId,  \* entry["next_msg_id"]
  tensors,    \* the contents of the tensors the sender's blocks view
  held,       \* the tensor of the block the sender holds, or None
  sm,         \* that block's state machine
  writing,    \* a copy into that block has started and is not waited for
  done,       \* the kernels that have returned
  run,        \* number of the run of the operation
  sent,       \* history: for each message, the run and the data of its copy()
  got         \* history: for each node, the messages it took

entry == <<queue, nextMsgId>>
block == <<tensors, held, sm, writing>>
history == <<sent, got>>
vars == <<entry, block, done, run, history>>

Init ==
  /\ queue = << >>
  /\ nextMsgId = 0
  /\ tensors = << >>
  /\ held = None
  /\ sm = Initialize("WAIT", "DM")
  /\ writing = FALSE
  /\ done = {}
  /\ run = 1
  /\ sent = << >>
  /\ got = [n \in Receivers |-> << >>]

-----------------------------------------------------------------------------
(* The sender.  wait() hands it the next block filled by another kernel.   *)
Acquire ==
  /\ Sender \notin done
  /\ held = None
  /\ Len(tensors) < MaxTensors
  /\ \E d \in Data : tensors' = Append(tensors, d)
  /\ held' = Len(tensors')
  /\ sm' = Initialize("WAIT", "DM")
  /\ UNCHANGED <<entry, writing, done, run, history>>

(* copy(block, pipe): the block is marked and the message queued at once   *)
(* (CopyTransaction.__init__, BlockToPipeHandler.transfer).                *)
Send ==
  /\ held # None
  /\ nextMsgId < MaxMessages
  /\ Accepts(sm, "copy_src")
  /\ sm' = Transition(sm, "copy_src")
  /\ queue' = Append(queue, [tensor    |-> held,
                             remaining |-> Cardinality(Receivers),
                             id        |-> nextMsgId,
                             recvSet   |-> {}])
  /\ nextMsgId' = nextMsgId + 1
  /\ sent' = Append(sent, [run |-> run, data |-> tensors[held]])
  /\ UNCHANGED <<tensors, held, writing, done, run, got>>

(* tx.wait() of a send never waits for a receiver.                         *)
WaitSend ==
  /\ held # None
  /\ ~writing
  /\ Accepts(sm, "tx_wait")
  /\ sm' = Transition(sm, "tx_wait")
  /\ UNCHANGED <<entry, tensors, held, writing, done, run, history>>

(* The sender copies new data into the block it holds, in place.           *)
StartOverwrite ==
  /\ held # None
  /\ Accepts(sm, "copy_dst")
  /\ sm' = Transition(sm, "copy_dst")
  /\ writing' = TRUE
  /\ UNCHANGED <<entry, tensors, held, done, run, history>>

FinishOverwrite ==
  /\ writing
  /\ Accepts(sm, "tx_wait")
  /\ sm' = Transition(sm, "tx_wait")
  /\ writing' = FALSE
  /\ \E d \in Data : tensors' = [tensors EXCEPT ![held] = d]
  /\ UNCHANGED <<entry, held, done, run, history>>

(* pop(): later blocks are other tensors, since reserve() makes a new one. *)
ReleaseBlock ==
  /\ held # None
  /\ AcceptsPop(sm)
  /\ held' = None
  /\ sm' = Close(sm)
  /\ UNCHANGED <<entry, tensors, writing, done, run, history>>

-----------------------------------------------------------------------------
(* Mutant of Receivable: who received a message is not looked at.          *)
ReceivableAgain(n) == DOMAIN queue

(* A receiver.  The messages in the queue that node n has not received:    *)
Receivable(n) == {i \in DOMAIN queue : n \notin queue[i].recvSet}

(* PipeToBlockHandler.can_wait, evaluated by the kernel itself.            *)
CanReceive(n) == Receivable(n) # {}

(* Mutants of Taken: the node is not added to the message's set; the first *)
(* receiver takes the message away.                                        *)
TakenAnonymously(i, n) ==
  IF queue[i].remaining = 1
  THEN RemoveAt(queue, i)
  ELSE [queue EXCEPT ![i].remaining = @ - 1]

TakenAtOnce(i, n) == RemoveAt(queue, i)

(* The message leaves the queue when its count of receivers still to come  *)
(* drops to zero.                                                          *)
Taken(i, n) ==
  IF queue[i].remaining = 1
  THEN RemoveAt(queue, i)
  ELSE [queue EXCEPT ![i].remaining = @ - 1, ![i].recvSet = @ \cup {n}]

(* PipeToBlockHandler.transfer: the first message the node has not         *)
(* received is copied out of the sender's tensor.                          *)
Receive(n) ==
  /\ n \notin done
  /\ CanReceive(n)
  /\ LET i == Min(Receivable(n))
         m == queue[i]
     IN  /\ queue' = Taken(i, n)
         /\ got' = [got EXCEPT ![n] =
                      Append(@, [id   |-> m.id,
                                 run  |-> run,
                                 data |-> tensors[m.tensor]])]
  /\ UNCHANGED <<nextMsgId, block, done, run, sent>>

-----------------------------------------------------------------------------
(* A kernel function returns; the sender only with its block released.     *)
Return(k) ==
  /\ k \notin done
  /\ k = Sender => held = None
  /\ done' = done \cup {k}
  /\ UNCHANGED <<entry, block, run, history>>

(* The operation is called again: cleanup_run_context() has cleared the    *)
(* scheduler and the caches of the last run, and the new run's kernels     *)
(* start.                                                                  *)
NextRun ==
  /\ done = Kernels
  /\ run < MaxRuns
  /\ run' = run + 1
  /\ done' = {}
  /\ UNCHANGED <<entry, block, history>>

SendStep ==
  \/ Acquire
  \/ Send
  \/ WaitSend
  \/ StartOverwrite
  \/ FinishOverwrite
  \/ ReleaseBlock

Next ==
  \/ SendStep
  \/ \E n \in Receivers : Receive(n)
  \/ \E k \in Kernels : Return(k)
  \/ NextRun

Spec == Init /\ [][Next]_vars

-----------------------------------------------------------------------------
Message == [tensor    : Nat \ {0},
            remaining : Nat \ {0},
            id        : Nat,
            recvSet   : SUBSET Receivers]

TypeOK ==
  /\ queue \in Seq(Message)
  /\ nextMsgId \in 0 .. MaxMessages
  /\ tensors \in Seq(Data)
  /\ held \in 0 .. Len(tensors)
  /\ sm \in Machine
  /\ writing \in BOOLEAN
  /\ done \subseteq Kernels
  /\ run \in 1 .. MaxRuns
  /\ sent \in Seq([run : 1 .. MaxRuns, data : Data])
  /\ got \in [Receivers -> Seq([id : Nat, run : 1 .. MaxRuns, data : Data])]

(* The count kept with a message and the set of nodes that took it never   *)
(* drift apart, and no node is ahead of itself: a node that took a message *)
(* took every message queued before it.  So only the head of the queue can *)
(* be complete, although transfer() deletes at any index.                  *)
QueueMatchesReceivers ==
  /\ \A i \in DOMAIN queue :
       queue[i].remaining = Cardinality(Receivers \ queue[i].recvSet)
  /\ \A i, j \in DOMAIN queue :
       i < j => /\ queue[j].recvSet \subseteq queue[i].recvSet
                /\ queue[i].id < queue[j].id

(* Each node takes every message exactly once and in the order it was      *)
(* sent, whatever the other nodes do and across runs.                      *)
ReceivedInOrder ==
  \A n \in Receivers : \A i \in DOMAIN got[n] : got[n][i].id = i - 1

(* A message is in the queue exactly as long as some node has not taken    *)
(* it: none is dropped early, none is kept after its last receiver.        *)
NothingLost ==
  \A id \in 0 .. nextMsgId - 1 :
    (\E i \in DOMAIN queue : queue[i].id = id)
      <=> (\E n \in Receivers : Len(got[n]) <= id)

(* TTLangSpecification.md:936 says of a transfer handle that when its wait *)
(* returns "the transfer is complete", and line 616 that a block in RW may *)
(* be overwritten: what is received should be what was sent.               *)
DataIsStable ==
  \A n \in Receivers : \A i \in DOMAIN got[n] :
    got[n][i].data = sent[got[n][i].id + 1].data

(* operation.py:155-156 cleans up after a run "so subsequent runs start    *)
(* from a clean slate": a run should receive its own messages only.        *)
RunsAreIsolated ==
  \A n \in Receivers : \A i \in DOMAIN got[n] :
    got[n][i].run = sent[got[n][i].id + 1].run
=============================================================================
