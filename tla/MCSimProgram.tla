---------------------------- MODULE MCSimProgram ----------------------------
(***************************************************************************)
(* Model checking of SimProgram.  Three kernels in a ring of buffers, with *)
(* a pipe from the second to the first: every deadlock of the program is a *)
(* cycle of waits through buffers of one or two slots and the pipe.        *)
(***************************************************************************)
EXTENDS SimProgram, TLC

CONSTANTS LongScript, ShortScript, a, b, c

MCKernelOrder == <<a, b, c>>

MCDfbs == {"ab", "bc", "ca"}
MCCap == [d \in MCDfbs |-> IF d = "bc" THEN 2 ELSE 1]
MCPipes == {"p"}
MCReceivers == [p \in MCPipes |-> {a}]

On(op, d) == [op |-> op, on |-> d]

(* What each kernel may call: the producer side of one buffer, the         *)
(* consumer side of another, and its end of the pipe.                      *)
MayCall ==
  (a :> {On("reserve", "ab"), On("wait", "ca"), On("recv", "p")})
  @@ (b :> {On("reserve", "bc"), On("wait", "ab"), On("send", "p")})
  @@ (c :> {On("reserve", "ca"), On("push", "ca"), On("wait", "bc"), On("pop", "bc")})

(* push() and pop() need a block held: here, the one of the call before.   *)
Legal(s) ==
  \A i \in DOMAIN s :
    /\ s[i].op = "push" => i > 1 /\ s[i - 1] = On("reserve", s[i].on)
    /\ s[i].op = "pop" => i > 1 /\ s[i - 1] = On("wait", s[i].on)

(* The first kernel makes up to LongScript calls, the others ShortScript.   *)
MaxLength(k) == IF k = a THEN LongScript ELSE ShortScript

MCScripts ==
  [k \in {a, b, c} |->
     {s \in UNION {[1 .. n -> MayCall[k]] : n \in 0 .. MaxLength(k)} : Legal(s)}]

(* The theorems' hypotheses, which these programs meet.                    *)
ASSUME MCOneKernelPerEnd == OneKernelPerEnd /\ SoleReceivers
=============================================================================
