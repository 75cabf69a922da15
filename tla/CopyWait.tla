------------------------------- MODULE CopyWait -------------------------------
(***************************************************************************)
(* The simulator's automatic tx.wait() (analysis.py).  The analysis reads  *)
(* the source of a kernel function and of what it can reach, and decides   *)
(* by line numbers which copies need a wait and at which line it is to be  *)
(* injected; monitoring callbacks fire it while the function runs.         *)
(*                                                                         *)
(* A body is a sequence of statements, the position of each its line.  A   *)
(* statement lies directly in the function (in = 0) or in a compound       *)
(* statement, in its body or, arm = "else", in its else part.              *)
(***************************************************************************)
EXTENDS Integers, Sequences, FiniteSets, SequencesExt, FiniteSetsExt

CONSTANTS Trips    \* the largest number of iterations of a loop

Stmt(kind, var, in, arm) == [kind |-> kind, var |-> var, in |-> in, arm |-> arm]
WaitFor(var, in, arm) == Stmt("wait", var, in, arm) \* var.wait()
Block(kind, in, arm) == Stmt(kind, "none", in, arm) \* "if", "for" or "with"

Lines(body) == DOMAIN body
NoLine == 0

-----------------------------------------------------------------------------
(* The analysis of one body: _find_copy_records, _analyze_func_def_node.   *)

(* Mutant of Unwaited: a wait anywhere in the function counts.             *)
UnwaitedAnywhere(body) ==
  {l \in Lines(body) : /\ body[l].kind = "copy"
                       /\ \A w \in Lines(body) : body[w] # WaitFor(body[l].var, body[w].in, body[w].arm)}

Unwaited(body) ==
  {l \in Lines(body) :
     /\ body[l].kind = "copy"
     /\ \A w \in Lines(body) : body[w].kind = "wait" /\ body[w].var = body[l].var => w < l}

BareLines(body) == {l \in Lines(body) : body[l].kind = "bare"}

(* The next line of the source, or NoLine for the return of the function.    *)
Trigger(body, l) == IF l = Len(body) THEN NoLine ELSE l + 1

InjectionPoints(body) == {[var |-> body[l].var, line |-> Trigger(body, l)] : l \in Unwaited(body)}

-----------------------------------------------------------------------------
(* Which functions are analysed: those nested in a kernel, and those it    *)
(* calls by a global name, and so on; a method is not followed.  Calls in  *)
(* a nested def are seen with those of the function around it, but the     *)
(* name is not searched among the nested defs of an outer function.        *)

Follow(calls, seen) ==
  seen \cup {e[2] : e \in {c \in calls : c[1] \in seen /\ c[3] \in {"nested", "name"}}}
Analysed(calls, kernel) ==
  LET reached[n \in 0 .. Cardinality(calls)] ==
        IF n = 0 THEN {kernel} ELSE Follow(calls, reached[n - 1])
  IN  reached[Cardinality(calls)]

-----------------------------------------------------------------------------
(* Where control goes: the lines of an arm, what follows a statement in    *)
(* its arm, and the line behind a whole statement.                         *)
FirstOf(body, l, arm) == {k \in Lines(body) : body[k].in = l /\ body[k].arm = arm}
LaterSiblings(body, l) == {k \in Lines(body) : k > l /\ body[k].in = body[l].in /\ body[k].arm = body[l].arm}

Behind(body) ==
  LET next[l \in Lines(body)] ==
        IF LaterSiblings(body, l) # {} THEN Min(LaterSiblings(body, l))
        ELSE IF body[l].in = 0 THEN NoLine
        ELSE IF body[body[l].in].kind = "for" /\ body[l].arm = "body" THEN body[l].in
        ELSE next[body[l].in]
  IN  next

-----------------------------------------------------------------------------
(* Running the body.  The line event comes before the line is executed; a  *)
(* loop's line comes again for every iteration.                            *)

VARIABLES
  body,      \* the statements of the function that runs
  hooked,    \* is it one of the analysed functions?
  line,      \* where it is: a line, or NoLine when it returns
  about,     \* "event" before the callback, "execute" after it, or "returned"
  holds,     \* the handle in each variable
  trips,     \* iterations begun of each loop
  completed, \* per handle made, in order: was it waited for?
  made       \* per handle, the line of its copy; read by the properties only

copyWaitVars == <<body, hooked, line, about, holds, trips, completed, made>>

CopyVars == {body[l].var : l \in Lines(body)} \ {"none"}

GoTo(l) == line' = l /\ about' = "event"
Into(l, arm) ==
  IF FirstOf(body, l, arm) = {} THEN GoTo(Behind(body)[l]) ELSE GoTo(Min(FirstOf(body, l, arm)))

CopyWaitInit(programs) ==
  /\ \E p \in programs : body = p.body /\ hooked = (p.runs \in Analysed(p.calls, p.kernel))
  /\ line = 1 /\ about = "event"
  /\ holds = [v \in CopyVars |-> 0]
  /\ trips = [l \in Lines(body) |-> 0] /\ completed = <<>> /\ made = <<>>

WaitOn(done, handles) == [h \in DOMAIN done |-> done[h] \/ h \in handles]

(* _line_callback and _return_callback: the handles that the variables     *)
(* hold by now, whichever copy they are of.                                *)
Callback ==
  LET fired == {ip \in InjectionPoints(body) : hooked /\ ip.line = line} IN
  /\ about = "event"
  /\ completed' = WaitOn(completed, {holds[ip.var] : ip \in fired})
  /\ about' = IF line = NoLine THEN "returned" ELSE "execute"
  /\ UNCHANGED <<body, hooked, line, holds, trips, made>>

Executes(kind) == about = "execute" /\ body[line].kind = kind

DoCopy ==
  /\ Executes("copy") /\ GoTo(Behind(body)[line])
  /\ completed' = Append(completed, FALSE) /\ made' = Append(made, line)
  /\ holds' = [holds EXCEPT ![body[line].var] = Len(completed) + 1]
  /\ UNCHANGED <<body, hooked, trips>>

(* copy() itself waits when its line is among the bare ones.               *)
DoBare ==
  /\ Executes("bare") /\ GoTo(Behind(body)[line])
  /\ completed' = Append(completed, hooked /\ line \in BareLines(body)) /\ made' = Append(made, line)
  /\ UNCHANGED <<body, hooked, holds, trips>>

(* A wait on a completed handle returns at once; one on a name that holds  *)
(* nothing yet would end the program: such runs are not taken.             *)
DoWait ==
  /\ Executes("wait") /\ holds[body[line].var] # 0 /\ GoTo(Behind(body)[line])
  /\ completed' = WaitOn(completed, {holds[body[line].var]})
  /\ UNCHANGED <<body, hooked, holds, trips, made>>

DoOther ==
  /\ Executes("other") /\ GoTo(Behind(body)[line])
  /\ UNCHANGED <<body, hooked, holds, trips, completed, made>>

DoIf ==
  /\ Executes("if") /\ \E arm \in {"body", "else"} : Into(line, arm)
  /\ UNCHANGED <<body, hooked, holds, trips, completed, made>>

DoWith ==
  /\ Executes("with") /\ Into(line, "body")
  /\ UNCHANGED <<body, hooked, holds, trips, completed, made>>

DoFor ==
  /\ Executes("for")
  /\ \/ /\ trips[line] < Trips /\ Into(line, "body")
        /\ trips' = [trips EXCEPT ![line] = @ + 1]
     \/ /\ trips' = [trips EXCEPT ![line] = 0]
        /\ Into(line, "else")
  /\ UNCHANGED <<body, hooked, holds, completed, made>>

CopyWaitNext == Callback \/ DoCopy \/ DoBare \/ DoWait \/ DoOther \/ DoIf \/ DoWith \/ DoFor

-----------------------------------------------------------------------------
(* Properties.                                                             *)

(* Does l lie in a, or is it a?  The lines around l up to and with a.  The *)
(* copies for which the order of the lines is as good as the order of      *)
(* execution: one without a later wait when the next line of the text is   *)
(* the next to run; one with a later wait when such a wait stands behind   *)
(* it, in its own block or behind a statement around it that is in no loop *)
(* with it, and no line between them puts another copy into the variable.  *)
Encloses(b, a, l) == a <= l /\ \A k \in a + 1 .. l : b[k].in >= a
Around(b, a, l) == {c \in Lines(b) : a <= c /\ Encloses(b, c, l)}
WaitsBelow(b, l) == {w \in Lines(b) : w > l /\ b[w].kind = "wait" /\ b[w].var = b[l].var}

WaitBehind(b, l, a, w) ==
  /\ a \in Around(b, 1, l) /\ w \in LaterSiblings(b, a)
  /\ \A c \in Around(b, a, l) : b[c].kind # "for"
  /\ \A k \in l + 1 .. w - 1 : b[k].kind = "copy" => b[k].var # b[l].var

LinesDecide(b, l) ==
  IF WaitsBelow(b, l) = {} THEN Behind(b)[l] = Trigger(b, l)
  ELSE \E a \in Lines(b), w \in WaitsBelow(b, l) : WaitBehind(b, l, a, w)

(* How the statements of a source lie in its lines: those of a compound    *)
(* statement are the lines behind its own up to where it ends, an else     *)
(* part behind the body; a simple statement has none.                      *)
Statements ==
  [kind : {"copy", "bare", "wait", "other", "if", "for", "with"}, var : STRING, in : Nat, arm : {"body", "else"}]
WellNested(b) ==
  /\ b \in Seq(Statements) /\ b # <<>>
  /\ \A k \in Lines(b) :
       /\ b[k].in < k
       /\ b[k].in # 0 => b[b[k].in].kind \in {"if", "for", "with"}
       /\ b[k].kind = "copy" => b[k].var # "none"
  /\ \A l, k \in Lines(b) : l < k =>
       /\ b[k].in >= l \/ b[k].in <= b[l].in
       /\ b[k].in = b[l].in /\ b[l].arm = "else" => b[k].arm = "else"

(* When an analysed function returns, whatever branches and loops it went  *)
(* through, every bare copy has been waited for, and every assigned one    *)
(* for whose line the order of the lines decides, whatever the other       *)
(* copies of the body are.                                                 *)
EveryCopyIsWaitedFor ==
  (about = "returned" /\ hooked) =>
    \A h \in DOMAIN completed :
      (body[made[h]].kind = "copy" => LinesDecide(body, made[h])) => completed[h]
=============================================================================
