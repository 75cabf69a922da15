----------------------------- MODULE SimProgram -----------------------------
(***************************************************************************)
(* The whole simulated program: the greenlet scheduler                     *)
(* (sim/greenlet_scheduler.py) running kernels that meet at dataflow       *)
(* buffers (the counters of sim/dfb.py) and pipes (sim/copyhandlers.py).   *)
(*                                                                         *)
(* Each kernel runs a script, chosen in Init: the sequence of the blocking *)
(* and releasing calls its function makes.  What a kernel computes between *)
(* two calls, and the contents of blocks and messages, are left out (they  *)
(* are in DataflowBuffer and PipeCopy).  The scheduler is deterministic    *)
(* and single-threaded, so a behaviour is one run of one set of scripts    *)
(* under one of the two algorithms; what varies is the scripts.            *)
(*                                                                         *)
(* The question is whether the answer the scheduler gives (finished, or    *)
(* deadlock) is the truth about the program, whatever the algorithm.       *)
(***************************************************************************)
EXTENDS KernelNetwork

VARIABLES
  script,       \* the calls each kernel makes
  algorithm,    \* get_scheduler_algorithm()
  pos, stage,   \* the next call of each kernel, and how far it is
  chan,         \* the buffers and the pipes
  active,       \* scheduler._active (dict order is KernelOrder)
  blocked,      \* the kernels whose blocking_obj is set
  current,      \* _current_kernel_id
  inKernel,     \* control is in the current kernel's greenlet
  phase,        \* where run() is
  candidates,   \* kernels still to be tried in this pass
  anyProgress,  \* any_progress
  madeProgress, \* _has_made_progress
  lastRun,      \* _last_run
  timestamp,    \* _timestamp
  outcome,      \* how run() ended
  passed        \* history: who ran since each kernel became able to run

program == <<script, algorithm>>
kernelState == <<pos, stage, chan>>
clock == <<madeProgress, lastRun, timestamp>>
loop == <<phase, candidates, anyProgress>>
vars == <<program, kernelState, active, blocked, current, inKernel, loop, clock,
          outcome, passed>>

-----------------------------------------------------------------------------
Init ==
  /\ script \in {s \in [Kernels -> UNION {Scripts[k] : k \in Kernels}] :
                   \A k \in Kernels : s[k] \in Scripts[k]}
  /\ algorithm \in {"fair", "greedy"}
  /\ pos = [k \in Kernels |-> 1]
  /\ stage = [k \in Kernels |-> "begin"]
  /\ chan = EmptyChannels
  /\ active = Kernels
  /\ blocked = {}
  /\ current = NoKernel
  /\ inKernel = FALSE
  /\ phase = IF algorithm = "fair" THEN "init" ELSE "top"
  /\ candidates = IF algorithm = "fair" THEN KernelOrder ELSE << >>
  /\ anyProgress = FALSE
  /\ madeProgress = [k \in Kernels |-> FALSE]
  /\ lastRun = [k \in Kernels |-> 0]
  /\ timestamp = 0
  /\ outcome = "running"
  /\ passed = [k \in Kernels |-> {}]

AtEnd(k) == pos[k] > Len(script[k])

CallOf(k) == script[k][pos[k]]

(* The pre-check of the main loop: a kernel that is not blocked runs.      *)
MayRun(k) ==
  k \in active /\ (k \in blocked => SchedulerCan(chan, CallOf(k), k))

-----------------------------------------------------------------------------
(* The kernel in control.  block_current_kernel(): back to the scheduler.  *)
Block(k) ==
  /\ blocked' = blocked \cup {k}
  /\ inKernel' = FALSE

Continue == UNCHANGED <<blocked, inKernel>>

(* A blocking call, up to the check in block_if_needed().                  *)
BeginCall(k) ==
  /\ ~AtEnd(k)
  /\ stage[k] = "begin"
  /\ CallOf(k).op \in BlockingOps
  /\ chan' = Prepare(chan, CallOf(k), k)
  /\ stage' = [stage EXCEPT ![k] = "check"]
  /\ Continue
  /\ UNCHANGED <<pos, active, madeProgress, outcome>>

(* block_if_needed(): the fair algorithm marks progress and always yields; *)
(* the greedy one yields only if the call cannot proceed.                  *)
CheckFair(k) ==
  /\ stage[k] = "check"
  /\ algorithm = "fair"
  /\ madeProgress' = [madeProgress EXCEPT ![k] = TRUE]
  /\ stage' = [stage EXCEPT ![k] = "recheck"]
  /\ Block(k)
  /\ UNCHANGED <<pos, chan, active, outcome>>

CheckGreedy(k) ==
  /\ stage[k] = "check"
  /\ algorithm = "greedy"
  /\ stage' = [stage EXCEPT ![k] = "go"]
  /\ IF Can(chan, CallOf(k), k)
     THEN Continue /\ madeProgress' = [madeProgress EXCEPT ![k] = TRUE]
     ELSE Block(k) /\ UNCHANGED madeProgress
  /\ UNCHANGED <<pos, chan, active, outcome>>

(* Resumed after the fair yield: one more check, and one more only.        *)
Recheck(k) ==
  /\ stage[k] = "recheck"
  /\ stage' = [stage EXCEPT ![k] = "go"]
  /\ IF Can(chan, CallOf(k), k) THEN Continue ELSE Block(k)
  /\ UNCHANGED <<pos, chan, active, madeProgress, outcome>>

(* The rest of the call.  If it turns out to be impossible, reserve() and  *)
(* wait() fail an assertion and transfer() raises: the run is over.        *)
FinishCall(k) ==
  /\ ~AtEnd(k)
  /\ stage[k] = "go" \/ (stage[k] = "begin" /\ CallOf(k).op \in ReleaseOps)
  /\ IF Can(chan, CallOf(k), k)
     THEN /\ chan' = Complete(chan, CallOf(k), k)
          /\ pos' = [pos EXCEPT ![k] = @ + 1]
          /\ stage' = [stage EXCEPT ![k] = "begin"]
          /\ UNCHANGED outcome
     ELSE /\ outcome' = "error"
          /\ UNCHANGED <<pos, stage, chan>>
  /\ Continue
  /\ UNCHANGED <<active, madeProgress>>

(* The function returns: _tagged releases what is pending, and             *)
(* _mark_completed takes the kernel out of the active set.                 *)
ReturnFromKernel(k) ==
  /\ AtEnd(k)
  /\ chan' = ReleaseAll(chan, k)
  /\ active' = active \ {k}
  /\ inKernel' = FALSE
  /\ UNCHANGED <<pos, stage, blocked, madeProgress, outcome>>

KernelStep ==
  /\ inKernel
  /\ \/ BeginCall(current)
     \/ CheckFair(current)
     \/ CheckGreedy(current)
     \/ Recheck(current)
     \/ FinishCall(current)
     \/ ReturnFromKernel(current)
  /\ UNCHANGED <<program, current, loop, lastRun, timestamp, passed>>

-----------------------------------------------------------------------------
(* The scheduler.  g.switch(): the kernel k gets control.  A kernel that   *)
(* could have run too remembers that k went before it.                     *)
Switch(k) ==
  /\ current' = k
  /\ inKernel' = TRUE
  /\ blocked' = blocked \ {k}
  /\ candidates' = Tail(candidates)
  /\ passed' = [j \in Kernels |-> IF j = k THEN {}
                                  ELSE IF MayRun(j) THEN passed[j] \cup {k}
                                  ELSE passed[j]]

(* _initialization_phase(): each kernel runs until it first blocks.        *)
InitialSwitch ==
  /\ phase = "init"
  /\ current = NoKernel
  /\ candidates # << >>
  /\ Switch(Head(candidates))
  /\ UNCHANGED <<phase, anyProgress, timestamp, lastRun>>

AfterInitialSwitch ==
  /\ phase = "init"
  /\ current # NoKernel
  /\ ~inKernel
  /\ IF current \in active /\ madeProgress[current]
     THEN /\ timestamp' = timestamp + 1
          /\ lastRun' = [lastRun EXCEPT ![current] = timestamp + 1]
     ELSE UNCHANGED <<timestamp, lastRun>>
  /\ current' = NoKernel
  /\ UNCHANGED <<blocked, inKernel, loop, passed>>

EndInitialization ==
  /\ phase = "init"
  /\ current = NoKernel
  /\ candidates = << >>
  /\ phase' = "top"
  /\ UNCHANGED <<blocked, current, inKernel, candidates, anyProgress, timestamp,
                 lastRun, passed>>

(* The active kernels in the order of their rank.                          *)
InOrder(rank) ==
  {q \in [1 .. Cardinality(active) -> active] :
     /\ Range(q) = active
     /\ \A i, j \in DOMAIN q : i < j => q[i] # q[j] /\ rank[q[i]] <= rank[q[j]]}

(* _get_fair_kernel_order().  Every kernel still active after the          *)
(* initialization phase has its own timestamp, so ties do not arise.       *)
FairOrder == InOrder(lastRun)

DictOrder == InOrder([k \in Kernels |-> CHOOSE i \in DOMAIN KernelOrder : KernelOrder[i] = k])

(* Mutant of StartPass: any_progress is left from the last pass.           *)
StartPassWithOldProgress ==
  /\ phase = "top"
  /\ active # {}
  /\ phase' = "pass"
  /\ candidates' \in IF algorithm = "fair" THEN FairOrder ELSE DictOrder
  /\ UNCHANGED <<anyProgress, blocked, current, inKernel, timestamp, lastRun,
                 passed>>

(* A pass of the main loop over the active kernels.                        *)
StartPass ==
  /\ phase = "top"
  /\ active # {}
  /\ phase' = "pass"
  /\ anyProgress' = FALSE
  /\ candidates' \in IF algorithm = "fair" THEN FairOrder ELSE DictOrder
  /\ UNCHANGED <<blocked, current, inKernel, timestamp, lastRun, passed>>

SkipKernel ==
  /\ phase = "pass"
  /\ current = NoKernel
  /\ candidates # << >>
  /\ ~MayRun(Head(candidates))
  /\ candidates' = Tail(candidates)
  /\ UNCHANGED <<phase, anyProgress, blocked, current, inKernel, timestamp,
                 lastRun, passed>>

RunKernel ==
  /\ phase = "pass"
  /\ current = NoKernel
  /\ candidates # << >>
  /\ MayRun(Head(candidates))
  /\ Switch(Head(candidates))
  /\ UNCHANGED <<phase, anyProgress, timestamp, lastRun>>

(* Mutants of AfterSwitch: the progress is not noted; the pass is started  *)
(* again from the first kernel.                                            *)
AfterSwitchUnnoted ==
  /\ phase = "pass"
  /\ current # NoKernel
  /\ ~inKernel
  /\ timestamp' = timestamp + 1
  /\ lastRun' = [lastRun EXCEPT ![current] = timestamp + 1]
  /\ current' = NoKernel
  /\ UNCHANGED <<loop, blocked, inKernel, passed>>

AfterSwitchRestarts ==
  /\ phase = "pass"
  /\ current # NoKernel
  /\ ~inKernel
  /\ phase' = "top"
  /\ anyProgress' = TRUE
  /\ timestamp' = timestamp + 1
  /\ lastRun' = [lastRun EXCEPT ![current] = timestamp + 1]
  /\ current' = NoKernel
  /\ UNCHANGED <<candidates, blocked, inKernel, passed>>

AfterSwitch ==
  /\ phase = "pass"
  /\ current # NoKernel
  /\ ~inKernel
  /\ anyProgress' = TRUE
  /\ timestamp' = timestamp + 1
  /\ lastRun' = [lastRun EXCEPT ![current] = timestamp + 1]
  /\ current' = NoKernel
  /\ UNCHANGED <<phase, candidates, blocked, inKernel, passed>>

EndPass ==
  /\ phase = "pass"
  /\ current = NoKernel
  /\ candidates = << >>
  /\ anyProgress \/ active = {}
  /\ phase' = "top"
  /\ UNCHANGED <<candidates, anyProgress, blocked, current, inKernel, timestamp,
                 lastRun, passed>>

SchedulerStep ==
  /\ outcome = "running"
  /\ \/ InitialSwitch \/ AfterInitialSwitch \/ EndInitialization
     \/ StartPass \/ SkipKernel \/ RunKernel \/ AfterSwitch \/ EndPass
  /\ UNCHANGED <<program, kernelState, active, madeProgress, outcome>>

(* run() returns, or raises "Deadlock detected: all generators blocked".   *)
Terminate ==
  /\ outcome = "running"
  /\ \/ phase = "top" /\ active = {} /\ outcome' = "finished"
     \/ /\ phase = "pass"
        /\ current = NoKernel
        /\ candidates = << >>
        /\ ~anyProgress
        /\ active # {}
        /\ outcome' = "deadlock"
  /\ UNCHANGED <<program, kernelState, active, blocked, current, inKernel, loop,
                 clock, passed>>

Next == (outcome = "running" /\ KernelStep) \/ SchedulerStep \/ Terminate

(* run() is a loop in one thread: it goes on as long as it can.            *)
Spec == Init /\ [][Next]_vars /\ WF_vars(Next)

-----------------------------------------------------------------------------
(* The answer is the truth about the program: run() returns exactly when   *)
(* the program can complete, and reports a deadlock exactly when no        *)
(* schedule at all completes it, with every kernel as far as it can ever   *)
(* get.  In particular both algorithms give the same answer.               *)
AnswerIsRight ==
  outcome \in {"finished", "deadlock"} =>
    LET end == Settle(script)
    IN  /\ outcome = "finished" <=> end.left = {}
        /\ active = end.left
        /\ pos = end.pos
        /\ chan = end.chan

(* A kernel is resumed only when its call can proceed: the assertions of   *)
(* reserve() and wait() hold, and transfer() finds its message, whose      *)
(* comment (copyhandlers.py:307-308) says that "the greenlet scheduler     *)
(* guarantees can_wait() returned True immediately before this call, so a  *)
(* receivable message is always present".                                  *)
ResumedCallsSucceed == outcome # "error"

(* No starvation: between the moment a kernel could run and the moment it  *)
(* does, each other kernel runs at most once.                              *)
PassedAtMostOnce ==
  [][\A j, k \in Kernels :
       current = NoKernel /\ current' = j /\ j # k /\ MayRun(k)
         => j \notin passed[k]]_vars

(* Every program comes to an answer: the scheduler never goes round in     *)
(* circles, waking kernels that cannot proceed.                            *)
Termination == <>(outcome # "running")
=============================================================================
