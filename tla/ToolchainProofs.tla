-------------------------- MODULE ToolchainProofs --------------------------
(***************************************************************************)
(* Of the parts of the toolchain: in an analysed function every copy for   *)
(* which the order of the lines decides is waited for, through whatever    *)
(* branches and loops the function goes; what both sides copy they copy    *)
(* alike; and the program that is launched holds together.                 *)
(*                                                                         *)
(* A copy not waited for yet is on its way to a wait: either it was the    *)
(* last thing to run and the next event fires its wait, or a wait stands   *)
(* behind it, or behind what is around it, and what nests properly cannot  *)
(* jump over it.                                                           *)
(* The moves of a copy are a matter of where the n-th tile of a shape      *)
(* lies, which axes of length one in front do not change.  The arguments   *)
(* of a thread are sequences put behind each other, which begin where the  *)
(* lengths of those before add up to.                                      *)
(***************************************************************************)
EXTENDS CopyWait, Toolchain, FiniteSetTheorems, SequenceTheorems, WellFoundedInduction, TLAPS

CONSTANTS Programs,           \* the functions that run, with what calls what
          Paths, Addresses,   \* of the sources of threads, and of tensors
          DeviceCores

ProgramsOk == \A p \in Programs : WellNested(p.body)

CopyWaitSpec == CopyWaitInit(Programs) /\ [][CopyWaitNext]_copyWaitVars

-----------------------------------------------------------------------------
(* The least of a set of numbers.                                          *)
LEMMA NatMin ==
  ASSUME NEW T \in SUBSET Nat, T # {}
  PROVE  \E m \in T : \A k \in T : m <= k
<1> DEFINE R == StrictSubsetOrdering(Nat)
           Below == {0 .. n : n \in T}
<1>1. IsWellFoundedOn(R, FiniteSubsetsOf(Nat))
  BY FS_StrictSubsetOrderingWellFounded
<1>2. Below \subseteq FiniteSubsetsOf(Nat)
  <2> SUFFICES ASSUME NEW n \in T PROVE 0 .. n \in FiniteSubsetsOf(Nat)
    OBVIOUS
  <2>1. IsFiniteSet(0 .. n)
    BY FS_Interval
  <2> QED
    BY <2>1 DEF FiniteSubsetsOf
<1>3. Below # {}
  OBVIOUS
<1>4. PICK x \in Below : \A y \in Below : <<y, x>> \notin R
  <2> HIDE DEF R, Below
  <2> QED BY <1>1, <1>2, <1>3, WFMin
<1>5. PICK m \in T : x = 0 .. m
  OBVIOUS
<1>6. ASSUME NEW k \in T PROVE m <= k
  <2> SUFFICES ASSUME k < m PROVE FALSE
    OBVIOUS
  <2>1. 0 .. k \in SUBSET Nat /\ 0 .. m \in SUBSET Nat
    OBVIOUS
  <2>2. 0 .. k \subseteq 0 .. m /\ 0 .. k # 0 .. m
    <3>1. m \in 0 .. m /\ m \notin 0 .. k
      OBVIOUS
    <3> QED BY <3>1
  <2>3. <<0 .. k, 0 .. m>> \in R
    BY <2>1, <2>2 DEF StrictSubsetOrdering
  <2> QED BY <1>4, <1>5, <2>3
<1> QED BY <1>6

LEMMA MinIsThere ==
  ASSUME NEW T \in SUBSET Nat, T # {}
  PROVE  Min(T) \in T /\ \A k \in T : Min(T) <= k
BY NatMin DEF Min

-----------------------------------------------------------------------------
(* Where control goes behind a line.                                       *)

Further(b, to, l) ==
  IF LaterSiblings(b, l) # {} THEN Min(LaterSiblings(b, l))
  ELSE IF b[l].in = 0 THEN NoLine
  ELSE IF b[b[l].in].kind = "for" /\ b[l].arm = "body" THEN b[l].in
  ELSE to[b[l].in]

LEMMA BodyIs ==
  ASSUME NEW b, WellNested(b)
  PROVE  /\ Len(b) \in Nat \ {0} /\ Lines(b) = 1 .. Len(b)
         /\ \A k \in Lines(b) : b[k] \in Statements /\ b[k].in \in Nat
<1>1. b \in Seq(Statements) /\ b # <<>>
  BY DEF WellNested
<1>2. \A k \in Lines(b) : b[k] \in Statements
  BY <1>1 DEF Lines
<1>3. \A k \in Lines(b) : b[k].in \in Nat
  BY <1>2 DEF Statements
<1> QED BY <1>1, <1>2, <1>3 DEF Lines

LEMMA LaterAre ==
  ASSUME NEW b, WellNested(b), NEW l \in Lines(b)
  PROVE  /\ LaterSiblings(b, l) \in SUBSET Nat /\ LaterSiblings(b, l) \in SUBSET Lines(b)
         /\ LaterSiblings(b, l) # {} =>
              /\ Min(LaterSiblings(b, l)) \in LaterSiblings(b, l)
              /\ \A k \in LaterSiblings(b, l) : Min(LaterSiblings(b, l)) <= k
<1>1. LaterSiblings(b, l) \in SUBSET Nat /\ LaterSiblings(b, l) \in SUBSET Lines(b)
  BY BodyIs DEF LaterSiblings
<1> QED BY <1>1, MinIsThere

(* What Behind says of every line exists: it asks a line above only.       *)
LEMMA FurtherExists ==
  ASSUME NEW b, WellNested(b)
  PROVE  \E to \in [Lines(b) -> Lines(b) \cup {NoLine}] : \A l \in Lines(b) : to[l] = Further(b, to, l)
<1> DEFINE To == Lines(b) \cup {NoLine}
           Good(n) == \E to \in [1 .. n -> To] : \A l \in 1 .. n : to[l] = Further(b, to, l)
           Bad == {n \in 0 .. Len(b) : ~Good(n)}
<1>0. Len(b) \in Nat /\ Lines(b) = 1 .. Len(b)
  BY BodyIs
<1>1. Bad = {}
  <2> SUFFICES ASSUME Bad # {} PROVE FALSE
    OBVIOUS
  <2>1. Bad \in SUBSET Nat
    BY <1>0
  <2>2. PICK n \in Bad : \A k \in Bad : n <= k
    <3> HIDE DEF Bad
    <3> QED BY <2>1, NatMin
  <2>3. n # 0
    <3>1. Good(0)
      <4> DEFINE none == [l \in 1 .. 0 |-> 0]
      <4>1. none \in [1 .. 0 -> To]
        OBVIOUS
      <4>2. \A l \in 1 .. 0 : none[l] = Further(b, none, l)
        OBVIOUS
      <4> QED BY <4>1, <4>2
    <3> QED BY <3>1
  <2>4. n - 1 \in 0 .. Len(b) /\ n \in 0 .. Len(b) /\ n \in Lines(b)
    BY <1>0, <2>3
  <2>5. Good(n - 1)
    <3> SUFFICES ASSUME ~Good(n - 1) PROVE FALSE
      OBVIOUS
    <3>1. n - 1 \in Bad
      <4> HIDE DEF Good
      <4> QED BY <2>4
    <3> HIDE DEF Bad
    <3> QED BY <1>0, <2>2, <2>4, <3>1
  <2>6. PICK old \in [1 .. n - 1 -> To] : \A l \in 1 .. n - 1 : old[l] = Further(b, old, l)
    BY <2>5
  <2> DEFINE new == [l \in 1 .. n |-> IF l = n THEN Further(b, old, n) ELSE old[l]]
  <2>7. \A l \in 1 .. n : l # n => l \in 1 .. n - 1
    BY <2>4
  <2>8. \A l \in 1 .. n : l \in Lines(b) /\ b[l].in \in 0 .. l - 1 /\ b[l].in \in 0 .. n - 1
    <3> SUFFICES ASSUME NEW l \in 1 .. n PROVE l \in Lines(b) /\ b[l].in \in 0 .. l - 1 /\ b[l].in \in 0 .. n - 1
      OBVIOUS
    <3>1. n \in Nat /\ n <= Len(b) /\ l \in Lines(b)
      BY <1>0, <2>4
    <3>2. b[l].in \in Nat /\ b[l].in < l
      BY <3>1, BodyIs DEF WellNested
    <3> QED BY <3>1, <3>2
  <2>9. \A l \in 1 .. n : Further(b, new, l) = Further(b, old, l)
    <3> SUFFICES ASSUME NEW l \in 1 .. n, b[l].in # 0 PROVE new[b[l].in] = old[b[l].in]
      BY DEF Further, NoLine
    <3>1. b[l].in \in 1 .. n /\ b[l].in # n
      BY <2>4, <2>8
    <3> QED BY <3>1
  <2>10. Further(b, old, n) \in To
    <3>1. LaterSiblings(b, n) # {} => Min(LaterSiblings(b, n)) \in To
      BY <2>4, LaterAre
    <3>2. b[n].in # 0 => b[n].in \in To /\ old[b[n].in] \in To
      <4> SUFFICES ASSUME b[n].in # 0 PROVE b[n].in \in To /\ old[b[n].in] \in To
        OBVIOUS
      <4>1. b[n].in \in 1 .. n - 1 /\ b[n].in \in Lines(b)
        BY <1>0, <2>4, <2>8
      <4> QED BY <4>1
    <3> QED BY <3>1, <3>2 DEF Further, NoLine
  <2>11. new \in [1 .. n -> To]
    BY <2>7, <2>10
  <2>12. \A l \in 1 .. n : new[l] = Further(b, new, l)
    BY <2>6, <2>7, <2>9
  <2>13. Good(n)
    BY <2>11, <2>12
  <2> QED BY <2>2, <2>13
<1>2. Len(b) \in 0 .. Len(b)
  BY <1>0
<1>3. Good(Len(b))
  BY <1>1, <1>2
<1> QED BY <1>0, <1>3

LEMMA BehindIs ==
  ASSUME NEW b, WellNested(b)
  PROVE  /\ \A l \in Lines(b) : Behind(b)[l] = Further(b, Behind(b), l)
         /\ \A l \in Lines(b) : Behind(b)[l] \in Lines(b) \cup {NoLine}
<1> DEFINE Def(f) == f = [l \in Lines(b) |-> Further(b, f, l)]
<1>1. PICK to \in [Lines(b) -> Lines(b) \cup {NoLine}] : \A l \in Lines(b) : to[l] = Further(b, to, l)
  BY FurtherExists
<1>2. Def(to)
  BY <1>1
<1>3. Behind(b) = CHOOSE f : Def(f)
  BY DEF Behind, Further
<1>4. Def(Behind(b))
  BY <1>2, <1>3
<1>5. \A l \in Lines(b) : Behind(b)[l] = Further(b, Behind(b), l)
  BY <1>4
<1>6. \A l \in Lines(b) : Behind(b)[l] \in Lines(b) \cup {NoLine}
  <2> DEFINE Off == {l \in Lines(b) : Behind(b)[l] \notin Lines(b) \cup {NoLine}}
  <2> SUFFICES ASSUME Off # {} PROVE FALSE
    OBVIOUS
  <2>1. Off \in SUBSET Nat
    BY BodyIs
  <2>2. PICK l \in Off : \A k \in Off : l <= k
    <3> HIDE DEF Off
    <3> QED BY <2>1, NatMin
  <2>3. l \in Lines(b) /\ l \in Nat
    BY <2>1
  <2>4. LaterSiblings(b, l) # {} => Min(LaterSiblings(b, l)) \in Lines(b)
    BY <2>3, LaterAre
  <2>5. b[l].in # 0 => b[l].in \in Lines(b) /\ b[l].in < l
    BY <2>3, BodyIs, SMTT(30) DEF WellNested
  <2>6. b[l].in # 0 => Behind(b)[b[l].in] \in Lines(b) \cup {NoLine}
    <3> SUFFICES ASSUME b[l].in # 0 PROVE b[l].in \notin Off
      BY <2>5
    <3> HIDE DEF Off
    <3> QED BY <2>2, <2>3, <2>5, BodyIs
  <2> QED BY <1>5, <2>3, <2>4, <2>5, <2>6 DEF Further, NoLine
<1> QED BY <1>5, <1>6

-----------------------------------------------------------------------------
(* Between a copy and a statement behind one that is around it, and in no  *)
(* loop with it, control stays between them until it reaches the later     *)
(* one.  Where it may be: on the lines between, or at the end of one of    *)
(* the statements around the copy.                                         *)

StandsBehind(b, l, a, w) ==
  /\ b[l].kind = "copy" /\ a \in Around(b, 1, l) /\ w \in LaterSiblings(b, a)
  /\ \A c \in Around(b, a, l) : b[c].kind # "for"
Way(b, l, a, w) == Around(b, a, l) \cup {j \in Lines(b) : l < j /\ j < w}

LEMMA BehindIsWhere ==
  ASSUME NEW b, WellNested(b), NEW l \in Lines(b), NEW a, NEW w, StandsBehind(b, l, a, w)
  PROVE  /\ Lines(b) \in SUBSET Nat /\ a \in Lines(b) /\ w \in Lines(b)
         /\ b[w].in = b[a].in /\ b[w].arm = b[a].arm /\ b[a].in \in Nat /\ b[a].in < a
         /\ a <= l /\ l < w
<1>1. Lines(b) \in SUBSET Nat /\ a \in Lines(b) /\ w \in Lines(b) /\ a < w /\ b[w].in = b[a].in /\ b[w].arm = b[a].arm
  BY BodyIs DEF StandsBehind, LaterSiblings, Around
<1>2. b[a].in \in Nat /\ b[a].in < a
  BY <1>1, BodyIs DEF WellNested
<1>3. a <= l /\ \A k \in a + 1 .. l : b[k].in >= a
  BY DEF StandsBehind, Around, Encloses
<1>4. ~(w <= l)
  <2> SUFFICES ASSUME w <= l PROVE FALSE
    OBVIOUS
  <2>1. w \in a + 1 .. l
    BY <1>1
  <2> QED BY <1>1, <1>2, <1>3, <2>1
<1> QED BY <1>1, <1>2, <1>3, <1>4

(* What is around a statement on the way is around the copy, too, or is    *)
(* itself between the two.                                                 *)
LEMMA EnclosesToo ==
  ASSUME NEW b, WellNested(b), NEW l \in Lines(b), NEW j \in Lines(b), NEW c \in Lines(b),
         c = b[j].in, c < l, l < j \/ Encloses(b, j, l)
  PROVE  Encloses(b, c, l)
<1>1. Lines(b) = 1 .. Len(b) /\ Len(b) \in Nat /\ \A k \in Lines(b) : b[k].in \in Nat
  BY BodyIs
<1>2. \A k \in Lines(b) : b[k].in < k
  BY DEF WellNested
<1>3. ASSUME NEW m \in c + 1 .. l PROVE b[m].in >= c
  <2>1. m \in Lines(b) /\ c < m /\ m <= l /\ m \in Nat /\ c \in Nat
    BY <1>1
  <2>2. b[m].in >= c \/ b[m].in <= b[c].in
    BY <2>1 DEF WellNested
  <2>3. b[c].in \in Nat /\ b[m].in \in Nat /\ b[c].in < c /\ j \in Nat /\ l \in Nat
    BY <1>1, <1>2, <2>1
  <2>4. CASE m < j
    <3>1. b[j].in >= m \/ b[j].in <= b[m].in
      BY <2>1, <2>4 DEF WellNested
    <3> QED BY <2>1, <2>2, <2>3, <3>1
  <2>5. CASE m = j
    BY <2>1, <2>5
  <2>6. CASE j < m
    <3>1. Encloses(b, j, l) /\ m \in j + 1 .. l
      BY <2>1, <2>3, <2>6
    <3>2. b[m].in >= j /\ c < j
      BY <1>2, <3>1 DEF Encloses
    <3> QED BY <2>1, <2>3, <3>2
  <2> QED BY <2>1, <2>3, <2>4, <2>5, <2>6
<1> QED BY <1>1, <1>3 DEF Encloses

LEMMA AroundGoesOn ==
  ASSUME NEW b, WellNested(b), NEW l \in Lines(b), NEW a, NEW w, StandsBehind(b, l, a, w),
         NEW j \in Around(b, a, l)
  PROVE  /\ LaterSiblings(b, j) # {} => Min(LaterSiblings(b, j)) \in l + 1 .. w
         /\ LaterSiblings(b, j) = {} => b[j].in \in Around(b, a, l)
<1>1. /\ Lines(b) \in SUBSET Nat /\ a \in Lines(b) /\ w \in Lines(b)
      /\ b[w].in = b[a].in /\ b[w].arm = b[a].arm /\ b[a].in \in Nat /\ b[a].in < a
      /\ a <= l /\ l < w
  BY BehindIsWhere
<1>2. j \in Lines(b) /\ a <= j /\ j <= l /\ Encloses(b, j, l)
  BY DEF Around, Encloses
<1>3. b[j].in \in Nat /\ b[j].in < j
  BY <1>2, BodyIs DEF WellNested
<1>4. ASSUME NEW s \in LaterSiblings(b, j) PROVE l < s
  <2>1. s \in Lines(b) /\ j < s /\ b[s].in = b[j].in
    BY DEF LaterSiblings
  <2> SUFFICES ASSUME s <= l PROVE FALSE
    BY <1>1, <2>1
  <2>2. s \in j + 1 .. l
    BY <1>1, <1>2, <2>1
  <2>3. b[s].in >= j
    BY <1>2, <2>2 DEF Encloses
  <2> QED BY <1>1, <1>2, <1>3, <2>1, <2>3
<1>5. j # a => b[j].in >= a
  <2> SUFFICES ASSUME j # a PROVE b[j].in >= a
    OBVIOUS
  <2>1. \A k \in a + 1 .. l : b[k].in >= a
    BY DEF StandsBehind, Around, Encloses
  <2>2. j \in a + 1 .. l
    BY <1>1, <1>2
  <2> QED BY <2>1, <2>2
<1>6. w \in LaterSiblings(b, a)
  BY DEF StandsBehind
<1>7. ASSUME NEW s \in LaterSiblings(b, j), j # a PROVE s <= w
  <2>1. s \in Lines(b) /\ b[s].in = b[j].in
    BY DEF LaterSiblings
  <2> SUFFICES ASSUME w < s PROVE FALSE
    BY <1>1, <2>1
  <2>2. b[s].in >= w \/ b[s].in <= b[w].in
    BY <1>1, <2>1 DEF WellNested
  <2> QED BY <1>1, <1>2, <1>3, <1>5, <1>7, <2>1, <2>2
<1>8. ASSUME LaterSiblings(b, j) # {} PROVE Min(LaterSiblings(b, j)) \in l + 1 .. w
  <2> DEFINE m == Min(LaterSiblings(b, j))
  <2>1. m \in LaterSiblings(b, j) /\ m \in Nat /\ \A s \in LaterSiblings(b, j) : m <= s
    BY <1>2, <1>8, LaterAre
  <2> HIDE DEF m
  <2>2. l < m
    BY <1>4, <2>1
  <2>3. m <= w
    BY <1>6, <1>7, <2>1
  <2>4. m \in l + 1 .. w
    BY <1>1, <2>1, <2>2, <2>3
  <2> QED BY <2>4 DEF m
<1>9. LaterSiblings(b, j) = {} => b[j].in \in Around(b, a, l)
  <2> SUFFICES ASSUME LaterSiblings(b, j) = {} PROVE b[j].in \in Around(b, a, l)
    OBVIOUS
  <2>1. j # a
    BY <1>6
  <2>2. b[j].in >= a /\ b[j].in \in Lines(b)
    BY <1>1, <1>2, <1>3, <1>5, <2>1, BodyIs
  <2>3. b[j].in < l
    BY <1>1, <1>2, <1>3
  <2>4. Encloses(b, b[j].in, l)
    BY <1>2, <2>2, <2>3, EnclosesToo
  <2> QED BY <2>2, <2>4 DEF Around
<1> QED BY <1>8, <1>9

(* A line between the two: its way out leads on between them, or to what   *)
(* is around it, which is between them or around the copy.                 *)
LEMMA BetweenGoesOn ==
  ASSUME NEW b, WellNested(b), NEW l \in Lines(b), NEW a, NEW w, StandsBehind(b, l, a, w),
         NEW k \in Lines(b), l < k, k < w
  PROVE  /\ LaterSiblings(b, k) # {} => Min(LaterSiblings(b, k)) \in l + 1 .. w
         /\ LaterSiblings(b, k) = {} =>
              b[k].in \in Around(b, a, l) \/ (b[k].in \in Lines(b) /\ l < b[k].in /\ b[k].in < w)
<1>1. /\ Lines(b) \in SUBSET Nat /\ a \in Lines(b) /\ w \in Lines(b)
      /\ b[w].in = b[a].in /\ b[w].arm = b[a].arm /\ b[a].in \in Nat /\ b[a].in < a
      /\ a <= l /\ l < w
  BY BehindIsWhere
<1>2. b[k].in \in Nat /\ b[k].in < k /\ b[a].arm \in {"body", "else"} /\ b[k].arm \in {"body", "else"}
  BY <1>1, BodyIs DEF WellNested, Statements
<1>3. b[w].in <= b[k].in
  <2>1. b[w].in >= k \/ b[w].in <= b[k].in
    BY <1>1 DEF WellNested
  <2> QED BY <1>1, <1>2, <2>1
<1>4. b[k].in = b[w].in => w \in LaterSiblings(b, k)
  <2> SUFFICES ASSUME b[k].in = b[w].in PROVE w \in LaterSiblings(b, k)
    OBVIOUS
  <2>1. b[a].arm = "else" => b[k].arm = "else"
    BY <1>1 DEF WellNested
  <2>2. b[k].arm = "else" => b[w].arm = "else"
    BY <1>1 DEF WellNested
  <2>3. b[k].arm = b[w].arm
    BY <1>1, <1>2, <2>1, <2>2
  <2> QED BY <1>1, <2>3 DEF LaterSiblings
<1>5. ASSUME LaterSiblings(b, k) # {} PROVE Min(LaterSiblings(b, k)) \in l + 1 .. w
  <2> DEFINE m == Min(LaterSiblings(b, k))
  <2>1. m \in LaterSiblings(b, k) /\ m \in Lines(b) /\ m \in Nat /\ \A s \in LaterSiblings(b, k) : m <= s
    BY <1>1, <1>5, LaterAre
  <2>2. k < m /\ b[m].in = b[k].in
    BY <2>1 DEF LaterSiblings
  <2> HIDE DEF m
  <2>3. m <= w
    <3> SUFFICES ASSUME w < m PROVE FALSE
      BY <1>1, <2>1
    <3>1. b[m].in >= w \/ b[m].in <= b[w].in
      BY <1>1, <2>1 DEF WellNested
    <3>2. b[k].in = b[w].in
      BY <1>1, <1>2, <1>3, <2>2, <3>1
    <3> QED BY <1>1, <1>4, <2>1, <3>2
  <2>4. m \in l + 1 .. w
    BY <1>1, <2>1, <2>2, <2>3
  <2> QED BY <2>4 DEF m
<1>6. ASSUME LaterSiblings(b, k) = {}
      PROVE  b[k].in \in Around(b, a, l) \/ (b[k].in \in Lines(b) /\ l < b[k].in /\ b[k].in < w)
  <2> DEFINE c == b[k].in
  <2>1. c \in Nat /\ c < k /\ b[a].in < c
    BY <1>1, <1>2, <1>3, <1>4, <1>6
  <2>2. c >= a
    <3>1. c >= a \/ c <= b[a].in
      BY <1>1 DEF WellNested
    <3> QED BY <1>1, <2>1, <3>1
  <2>3. c \in Lines(b)
    BY <1>1, <2>1, <2>2, BodyIs
  <2>4. c # l
    BY <2>3, BodyIs DEF StandsBehind, WellNested
  <2>5. c < l => Encloses(b, c, l)
    BY <2>3, EnclosesToo
  <2> QED BY <1>1, <2>1, <2>2, <2>3, <2>4, <2>5 DEF Around
<1> QED BY <1>5, <1>6

LEMMA BehindStaysBetween ==
  ASSUME NEW b, WellNested(b), NEW l \in Lines(b), NEW a, NEW w, StandsBehind(b, l, a, w), NEW k \in Way(b, l, a, w)
  PROVE  Behind(b)[k] \in l + 1 .. w
<1> DEFINE Off == {j \in Way(b, l, a, w) : Behind(b)[j] \notin l + 1 .. w}
<1> SUFFICES ASSUME Off # {} PROVE FALSE
  OBVIOUS
<1>1. Lines(b) \in SUBSET Nat /\ a \in Lines(b) /\ w \in Lines(b) /\ a <= l
  BY BehindIsWhere
<1>2. PICK j \in Off : \A i \in Off : j <= i
  <2>1. Off \in SUBSET Nat
    BY <1>1 DEF Way, Around
  <2> HIDE DEF Off
  <2> QED BY <2>1, NatMin
<1>3. j \in Lines(b) /\ j \in Nat /\ l \in Nat /\ w \in Nat
  BY <1>1 DEF Way, Around
<1> DEFINE L == LaterSiblings(b, j)
<1>4. /\ L # {} => Min(L) \in l + 1 .. w
      /\ L = {} => b[j].in \in Around(b, a, l) \/ (b[j].in \in Lines(b) /\ l < b[j].in /\ b[j].in < w)
  BY <1>3, AroundGoesOn, BetweenGoesOn DEF Way
<1>5. Behind(b)[j] = Further(b, Behind(b), j)
  BY <1>3, BehindIs
<1>6. ASSUME L = {} PROVE Behind(b)[j] \in l + 1 .. w
  <2>1. b[j].in \in Way(b, l, a, w) /\ b[j].in \in Lines(b) /\ b[j].in \in Nat /\ b[j].in < j /\ b[j].in >= 1
    <3>1. b[j].in \in Way(b, l, a, w) /\ b[j].in \in Lines(b)
      BY <1>4, <1>6 DEF Way, Around
    <3>2. b[j].in < j
      BY <1>3 DEF WellNested
    <3>3. b[j].in \in Nat /\ b[j].in < j /\ b[j].in >= 1
      BY <1>1, <1>3, <3>1, <3>2, BodyIs, SMTT(30) DEF Lines
    <3> QED BY <3>1, <3>3
  <2>2. Behind(b)[b[j].in] \in l + 1 .. w
    <3> SUFFICES ASSUME b[j].in \in Off PROVE FALSE
      BY <2>1
    <3> HIDE DEF Off
    <3> QED BY <1>2, <1>3, <2>1
  <2>3. b[b[j].in].kind = "for" => b[j].in \in l + 1 .. w
    <3>1. b[b[j].in].kind = "for" => b[j].in \notin Around(b, a, l)
      BY DEF StandsBehind
    <3> QED BY <1>3, <1>4, <1>6, <2>1, <3>1
  <2> QED BY <1>5, <1>6, <2>1, <2>2, <2>3 DEF Further
<1>7. Behind(b)[j] \in l + 1 .. w
  BY <1>4, <1>5, <1>6 DEF Further
<1> QED BY <1>7

LEMMA IntoStaysBetween ==
  ASSUME NEW b, WellNested(b), NEW l \in Lines(b), NEW a, NEW w, StandsBehind(b, l, a, w),
         NEW k \in Lines(b), l < k, k < w, NEW arm, FirstOf(b, k, arm) # {}
  PROVE  Min(FirstOf(b, k, arm)) \in l + 1 .. w
<1>1. Lines(b) \in SUBSET Nat /\ w \in Lines(b) /\ b[w].in \in Nat /\ b[w].in < l /\ l < w
  BY BehindIsWhere
<1> DEFINE F == FirstOf(b, k, arm)
<1>2. Min(F) \in F
  <2>1. F \in SUBSET Nat
    BY <1>1 DEF FirstOf
  <2> QED BY <2>1, MinIsThere
<1> DEFINE m == Min(F)
<1>3. m \in Lines(b) /\ b[m].in = k
  BY <1>2 DEF FirstOf
<1> HIDE DEF m, F
<1>4. k < m
  BY <1>3, BodyIs DEF WellNested
<1>5. ~(w < m)
  <2> SUFFICES ASSUME w < m PROVE FALSE
    OBVIOUS
  <2>1. b[m].in >= w \/ b[m].in <= b[w].in
    BY <1>1, <1>3 DEF WellNested
  <2> QED BY <1>1, <1>3, <1>4, <2>1
<1>6. m \in l + 1 .. w
  BY <1>1, <1>3, <1>4, <1>5
<1> QED BY <1>6 DEF m, F

-----------------------------------------------------------------------------
(* The invariant: a handle not waited for, of a copy that the lines decide,*)
(* is held by the variable of its copy, and its wait is fired by the       *)
(* coming event or stands behind it, with no copy into the variable before *)
(* it.                                                                     *)

WaitAhead(b, l, at) == \E a \in Lines(b), w \in WaitsBelow(b, l) : WaitBehind(b, l, a, w) /\ at \in l + 1 .. w

OnItsWay(b, held, at, when, l, h) ==
  /\ held[b[l].var] = h
  /\ \/ WaitsBelow(b, l) = {} /\ when = "event" /\ at = Trigger(b, l)
     \/ when # "returned" /\ WaitAhead(b, l, at)

CopyWaitTypeOK ==
  /\ WellNested(body)
  /\ about \in {"event", "execute", "returned"}
  /\ line \in Lines(body) \cup {NoLine}
  /\ about = "execute" => line \in Lines(body)
  /\ holds \in [CopyVars -> Nat]
  /\ completed \in Seq(BOOLEAN)
  /\ made \in Seq(Lines(body)) /\ DOMAIN made = DOMAIN completed

WaitsAreComing ==
  hooked =>
    \A h \in DOMAIN completed :
      completed[h] \/ /\ body[made[h]].kind = "copy"
                      /\ LinesDecide(body, made[h]) => OnItsWay(body, holds, line, about, made[h], h)

CWInv == CopyWaitTypeOK /\ WaitsAreComing

(* Where a line that is executed passes control to.                        *)
Moves(b, at, to) ==
  \/ to = Behind(b)[at]
  \/ \E arm \in {"body", "else"} : FirstOf(b, at, arm) # {} /\ to = Min(FirstOf(b, at, arm))

LEMMA MovesToALine ==
  ASSUME NEW b, WellNested(b), NEW at \in Lines(b), NEW to, Moves(b, at, to)
  PROVE  to \in Lines(b) \cup {NoLine}
<1>1. ASSUME NEW arm, FirstOf(b, at, arm) # {} PROVE Min(FirstOf(b, at, arm)) \in Lines(b)
  <2>1. FirstOf(b, at, arm) \in SUBSET Nat /\ FirstOf(b, at, arm) \in SUBSET Lines(b)
    BY BodyIs DEF FirstOf
  <2> QED BY <1>1, <2>1, MinIsThere
<1> QED BY <1>1, BehindIs DEF Moves

LEMMA IntoMoves ==
  ASSUME NEW arm \in {"body", "else"}, Into(line, arm)
  PROVE  Moves(body, line, line') /\ about' = "event"
BY DEF Into, GoTo, Moves

LEMMA AheadStays ==
  ASSUME NEW b, WellNested(b), NEW l \in Lines(b), b[l].kind = "copy", NEW at \in Lines(b),
         WaitAhead(b, l, at), ~(b[at].kind = "wait" /\ b[at].var = b[l].var)
  PROVE  /\ \A to : Moves(b, at, to) => WaitAhead(b, l, to)
         /\ b[at].kind = "copy" => b[at].var # b[l].var
<1>1. PICK a \in Lines(b), w \in WaitsBelow(b, l) : WaitBehind(b, l, a, w) /\ at \in l + 1 .. w
  BY DEF WaitAhead
<1>2. StandsBehind(b, l, a, w)
  BY <1>1 DEF WaitBehind, StandsBehind
<1>3. at # w
  BY <1>1 DEF WaitsBelow
<1>4. l < at /\ at < w /\ at \in l + 1 .. w - 1
  <2>1. w \in Nat /\ l \in Nat
    BY <1>1, BodyIs DEF WaitsBelow
  <2> QED BY <1>1, <1>3, <2>1
<1>5. ASSUME NEW to, Moves(b, at, to) PROVE to \in l + 1 .. w
  <2>1. Behind(b)[at] \in l + 1 .. w
    BY <1>2, <1>4, BehindStaysBetween DEF Way
  <2>2. ASSUME NEW arm, FirstOf(b, at, arm) # {} PROVE Min(FirstOf(b, at, arm)) \in l + 1 .. w
    BY <1>2, <1>4, <2>2, IntoStaysBetween
  <2> QED BY <1>5, <2>1, <2>2 DEF Moves
<1>6. ASSUME NEW to, Moves(b, at, to) PROVE WaitAhead(b, l, to)
  BY <1>1, <1>5, <1>6 DEF WaitAhead
<1> QED BY <1>1, <1>4, <1>6 DEF WaitBehind

(* A handle that is not waited for stays on its way while other lines run. *)
LEMMA StaysOnItsWay ==
  ASSUME NEW b, WellNested(b), NEW held, NEW at \in Lines(b), NEW l \in Lines(b), NEW h, b[l].kind = "copy",
         OnItsWay(b, held, at, "execute", l, h),
         ~(b[at].kind = "wait" /\ held[b[at].var] = h), NEW to, Moves(b, at, to),
         NEW next, (b[at].kind = "copy" => b[l].var # b[at].var) => next[b[l].var] = held[b[l].var]
  PROVE  OnItsWay(b, next, to, "event", l, h)
<1>1. held[b[l].var] = h /\ WaitAhead(b, l, at)
  BY DEF OnItsWay
<1>2. ~(b[at].kind = "wait" /\ b[at].var = b[l].var)
  BY <1>1
<1>3. WaitAhead(b, l, to) /\ (b[at].kind = "copy" => b[at].var # b[l].var)
  BY <1>1, <1>2, AheadStays
<1> QED BY <1>1, <1>3 DEF OnItsWay

(* A new copy is on its way at once.                                       *)
LEMMA NewCopyIsOnItsWay ==
  ASSUME NEW b, WellNested(b), NEW at \in Lines(b), b[at].kind = "copy", LinesDecide(b, at),
         NEW next, NEW h, next[b[at].var] = h
  PROVE  OnItsWay(b, next, Behind(b)[at], "event", at, h)
<1>1. CASE WaitsBelow(b, at) = {}
  BY <1>1 DEF LinesDecide, OnItsWay
<1>2. CASE WaitsBelow(b, at) # {}
  <2>1. PICK a \in Lines(b), w \in WaitsBelow(b, at) : WaitBehind(b, at, a, w)
    BY <1>2 DEF LinesDecide
  <2>2. StandsBehind(b, at, a, w)
    BY <2>1 DEF WaitBehind, StandsBehind
  <2>3. at \in Around(b, a, at)
    <3>1. Lines(b) \in SUBSET Nat /\ a <= at
      BY <2>2, BehindIsWhere
    <3> QED BY <3>1 DEF Around, Encloses
  <2>4. Behind(b)[at] \in at + 1 .. w
    BY <2>2, <2>3, BehindStaysBetween DEF Way
  <2>5. WaitAhead(b, at, Behind(b)[at])
    BY <2>1, <2>4 DEF WaitAhead
  <2> QED BY <2>5 DEF OnItsWay
<1> QED BY <1>1, <1>2

LEMMA CopyWaitInitTypeOK ==
  ASSUME ProgramsOk, CopyWaitInit(Programs)
  PROVE  CWInv
<1>1. WellNested(body)
  BY DEF CopyWaitInit, ProgramsOk
<1>2. line \in Lines(body)
  BY <1>1, BodyIs DEF CopyWaitInit
<1>3. /\ holds \in [CopyVars -> Nat] /\ completed \in Seq(BOOLEAN) /\ completed = <<>>
      /\ made = <<>> /\ made \in Seq(Lines(body))
  BY DEF CopyWaitInit
<1>4. CopyWaitTypeOK
  BY <1>1, <1>2, <1>3 DEF CopyWaitTypeOK, CopyWaitInit
<1>5. WaitsAreComing
  BY <1>3 DEF WaitsAreComing
<1> QED BY <1>4, <1>5 DEF CWInv

-----------------------------------------------------------------------------
(* The steps keep it.                                                      *)

LEMMA VarsOfCopies ==
  ASSUME WellNested(body), NEW l \in Lines(body), body[l].kind = "copy"
  PROVE  body[l].var \in CopyVars
BY DEF CopyVars, WellNested

LEMMA WaitOnIs ==
  ASSUME NEW done \in Seq(BOOLEAN), NEW handles
  PROVE  /\ WaitOn(done, handles) \in Seq(BOOLEAN) /\ DOMAIN WaitOn(done, handles) = DOMAIN done
         /\ \A h \in DOMAIN done : WaitOn(done, handles)[h] = (done[h] \/ h \in handles)
<1>1. Len(done) \in Nat /\ DOMAIN done = 1 .. Len(done) /\ \A h \in DOMAIN done : done[h] \in BOOLEAN
  OBVIOUS
<1>2. WaitOn(done, handles) \in [1 .. Len(done) -> BOOLEAN]
  BY <1>1 DEF WaitOn
<1>3. [1 .. Len(done) -> BOOLEAN] \in SUBSET Seq(BOOLEAN)
  BY <1>1
<1> QED BY <1>1, <1>2, <1>3 DEF WaitOn

LEMMA AppendIs ==
  ASSUME NEW S, NEW q \in Seq(S), NEW x \in S
  PROVE  /\ Append(q, x) \in Seq(S) /\ Len(q) + 1 \in Nat /\ DOMAIN Append(q, x) = 1 .. Len(q) + 1
         /\ Append(q, x)[Len(q) + 1] = x
         /\ \A h \in DOMAIN Append(q, x) :
              h = Len(q) + 1 \/ (h \in DOMAIN q /\ Append(q, x)[h] = q[h])
<1>1. Append(q, x) \in Seq(S) /\ Len(q) \in Nat
  OBVIOUS
<1>2. DOMAIN Append(q, x) = 1 .. Len(q) + 1 /\ DOMAIN q = 1 .. Len(q) /\ Append(q, x)[Len(q) + 1] = x
  BY <1>1
<1>3. ASSUME NEW h \in DOMAIN Append(q, x), h # Len(q) + 1
      PROVE  h \in DOMAIN q /\ Append(q, x)[h] = q[h]
  <2>1. h \in 1 .. Len(q)
    BY <1>1, <1>2, <1>3
  <2> QED BY <1>2, <2>1
<1> QED BY <1>1, <1>2, <1>3

LEMMA CallbackKeeps ==
  ASSUME CWInv, Callback
  PROVE  CWInv'
<1> DEFINE fired == {ip \in InjectionPoints(body) : hooked /\ ip.line = line}
           waited == {holds[ip.var] : ip \in fired}
<1>1. /\ about = "event" /\ completed' = WaitOn(completed, waited)
      /\ about' = IF line = NoLine THEN "returned" ELSE "execute"
      /\ UNCHANGED <<body, hooked, line, holds, made>>
  BY DEF Callback
<1>2. /\ WellNested(body) /\ line \in Lines(body) \cup {NoLine} /\ completed \in Seq(BOOLEAN)
      /\ holds \in [CopyVars -> Nat] /\ made \in Seq(Lines(body)) /\ DOMAIN made = DOMAIN completed
  BY DEF CWInv, CopyWaitTypeOK
<1> HIDE DEF waited
<1>3. /\ completed' \in Seq(BOOLEAN) /\ DOMAIN completed' = DOMAIN completed
      /\ \A h \in DOMAIN completed : completed'[h] = (completed[h] \/ h \in waited)
  BY <1>1, <1>2, WaitOnIs
<1>4. CopyWaitTypeOK'
  BY <1>1, <1>2, <1>3 DEF CopyWaitTypeOK, CopyVars, Lines
<1>5. ASSUME hooked, NEW h \in DOMAIN completed, ~completed[h], h \notin waited, LinesDecide(body, made[h]),
             body[made[h]].kind = "copy"
      PROVE  OnItsWay(body, holds, line, about', made[h], h)
  <2> DEFINE l == made[h]
  <2>1. OnItsWay(body, holds, line, "event", l, h) /\ l \in Lines(body)
    BY <1>1, <1>2, <1>5 DEF CWInv, WaitsAreComing
  <2> HIDE DEF l
  <2>2. /\ body[l].kind = "copy" /\ holds[body[l].var] = h
        /\ \/ WaitsBelow(body, l) = {} /\ line = Trigger(body, l)
           \/ WaitAhead(body, l, line)
    BY <1>5, <2>1 DEF OnItsWay, l
  <2>3. WaitsBelow(body, l) # {}
    <3> SUFFICES ASSUME WaitsBelow(body, l) = {} PROVE FALSE
      OBVIOUS
    <3>1. line = Trigger(body, l)
      BY <2>2 DEF WaitAhead
    <3>2. ASSUME NEW w \in Lines(body), body[w].kind = "wait", body[w].var = body[l].var PROVE w < l
      <4>1. ~(w > l)
        BY <3>2 DEF WaitsBelow
      <4>2. w # l
        BY <2>2, <3>2
      <4> QED BY <1>2, <2>1, <4>1, <4>2, BodyIs
    <3>3. l \in Unwaited(body)
      BY <2>1, <2>2, <3>2 DEF Unwaited
    <3> DEFINE ip == [var |-> body[l].var, line |-> Trigger(body, l)]
    <3>4. ip \in InjectionPoints(body) /\ ip.line = line /\ ip.var = body[l].var
      BY <3>1, <3>3 DEF InjectionPoints
    <3>5. h \in waited
      BY <1>5, <2>2, <3>4 DEF waited
    <3> QED BY <1>5, <3>5
  <2>4. WaitAhead(body, l, line)
    BY <2>2, <2>3
  <2>5. line # NoLine
    <3>1. PICK w \in WaitsBelow(body, l) : line \in l + 1 .. w
      BY <2>4 DEF WaitAhead
    <3>2. l \in Nat /\ l >= 1 /\ w \in Nat
      BY <1>2, <2>1, BodyIs DEF WaitsBelow
    <3> QED BY <3>1, <3>2 DEF NoLine
  <2>6. OnItsWay(body, holds, line, about', l, h)
    BY <1>1, <2>2, <2>4, <2>5 DEF OnItsWay
  <2> QED BY <2>6 DEF l
<1>6. WaitsAreComing'
  <2> SUFFICES ASSUME hooked, NEW h \in DOMAIN completed, ~completed[h], h \notin waited
               PROVE  /\ body[made[h]].kind = "copy"
                      /\ LinesDecide(body, made[h]) => OnItsWay(body, holds, line, about', made[h], h)
    BY <1>1, <1>3 DEF WaitsAreComing
  <2>1. body[made[h]].kind = "copy"
    BY DEF CWInv, WaitsAreComing
  <2> QED BY <1>5, <2>1
<1> QED BY <1>4, <1>6 DEF CWInv

(* A step that makes no copy to wait for: it goes on, and what it          *)
(* completes stays so.                                                     *)
LEMMA GoingOnKeeps ==
  ASSUME CWInv, about = "execute", about' = "event", Moves(body, line, line'),
         UNCHANGED <<body, hooked, holds>>, body[line].kind # "copy",
         completed' \in Seq(BOOLEAN), DOMAIN completed' \in SUBSET Nat,
         made' \in Seq(Lines(body)), DOMAIN made' = DOMAIN completed',
         \A h \in DOMAIN completed' : \/ /\ h \in DOMAIN completed /\ (completed[h] => completed'[h])
                                         /\ made'[h] = made[h]
                                      \/ hooked => completed'[h],
         body[line].kind = "wait" =>
           \A h \in DOMAIN completed' : holds[body[line].var] = h => completed'[h]
  PROVE  CWInv'
<1>1. /\ WellNested(body) /\ line \in Lines(body) /\ completed \in Seq(BOOLEAN) /\ holds \in [CopyVars -> Nat]
      /\ made \in Seq(Lines(body)) /\ DOMAIN made = DOMAIN completed
  BY DEF CWInv, CopyWaitTypeOK
<1>2. line' \in Lines(body) \cup {NoLine}
  BY <1>1, MovesToALine
<1>3. CopyWaitTypeOK'
  BY <1>1, <1>2 DEF CopyWaitTypeOK, CopyVars, Lines
<1>4. ASSUME hooked, NEW h \in DOMAIN completed', ~completed'[h]
      PROVE  /\ body[made'[h]].kind = "copy"
             /\ LinesDecide(body, made'[h]) => OnItsWay(body, holds, line', "event", made'[h], h)
  <2>1. h \in DOMAIN completed /\ ~completed[h] /\ made'[h] = made[h]
    BY <1>4
  <2>2. body[made[h]].kind = "copy" /\ made[h] \in Lines(body)
    BY <1>1, <1>4, <2>1 DEF CWInv, WaitsAreComing
  <2>3. ~(body[line].kind = "wait" /\ holds[body[line].var] = h)
    BY <1>4
  <2>4. ASSUME LinesDecide(body, made[h]) PROVE OnItsWay(body, holds, line', "event", made[h], h)
    <3>1. OnItsWay(body, holds, line, "execute", made[h], h)
      BY <1>4, <2>1, <2>4 DEF CWInv, WaitsAreComing
    <3> QED BY <1>1, <2>2, <2>3, <3>1, StaysOnItsWay
  <2> QED BY <2>1, <2>2, <2>4
<1>5. WaitsAreComing'
  BY <1>4 DEF WaitsAreComing
<1> QED BY <1>3, <1>5 DEF CWInv

LEMMA DoCopyKeeps ==
  ASSUME CWInv, DoCopy
  PROVE  CWInv'
<1> DEFINE new == Len(completed) + 1
<1>1. /\ about = "execute" /\ body[line].kind = "copy" /\ line' = Behind(body)[line] /\ about' = "event"
      /\ completed' = Append(completed, FALSE) /\ holds' = [holds EXCEPT ![body[line].var] = new]
      /\ made' = Append(made, line) /\ UNCHANGED <<body, hooked>>
  BY DEF DoCopy, Executes, GoTo
<1>2. /\ WellNested(body) /\ line \in Lines(body) /\ completed \in Seq(BOOLEAN) /\ holds \in [CopyVars -> Nat]
      /\ made \in Seq(Lines(body)) /\ DOMAIN made = DOMAIN completed
  BY <1>1 DEF CWInv, CopyWaitTypeOK
<1>3. body[line].var \in CopyVars
  BY <1>1, <1>2, VarsOfCopies
<1>4. /\ completed' \in Seq(BOOLEAN) /\ new \in Nat /\ DOMAIN completed' = 1 .. new
      /\ \A h \in DOMAIN completed' : h = new \/ (h \in DOMAIN completed /\ completed'[h] = completed[h])
  <2> DEFINE none == FALSE
  <2>1. none \in BOOLEAN /\ completed' = Append(completed, none)
    BY <1>1
  <2> HIDE DEF none
  <2>2. /\ completed' \in Seq(BOOLEAN) /\ new \in Nat /\ DOMAIN completed' = 1 .. new
        /\ \A h \in DOMAIN completed' : h = new \/ (h \in DOMAIN completed /\ completed'[h] = completed[h])
    BY <1>2, <2>1, AppendIs
  <2> QED BY <2>2
<1>5. /\ made' \in Seq(Lines(body)) /\ DOMAIN made' = 1 .. new /\ made'[new] = line
      /\ \A h \in DOMAIN made' : h = new \/ made'[h] = made[h]
  <2>1. Len(made) = Len(completed)
    BY <1>2
  <2> QED BY <1>1, <1>2, <2>1, AppendIs
<1>6. /\ holds' \in [CopyVars -> Nat] /\ holds'[body[line].var] = new
      /\ \A v \in CopyVars : v # body[line].var => holds'[v] = holds[v]
  BY <1>1, <1>2, <1>3, <1>4
<1>7. Moves(body, line, line')
  BY <1>1 DEF Moves
<1>8. CopyWaitTypeOK'
  <2>1. line' \in Lines(body) \cup {NoLine}
    BY <1>2, <1>7, MovesToALine
  <2>2. WellNested(body)' /\ holds' \in [CopyVars' -> Nat] /\ Lines(body)' = Lines(body)
    BY <1>1, <1>2, <1>6 DEF CopyVars, Lines
  <2>3. made' \in Seq(Lines(body)) /\ DOMAIN made' = DOMAIN completed' /\ completed' \in Seq(BOOLEAN)
    BY <1>4, <1>5
  <2> QED BY <1>1, <2>1, <2>2, <2>3 DEF CopyWaitTypeOK
<1>9. ASSUME hooked, NEW h \in DOMAIN completed', ~completed'[h]
      PROVE  /\ body[made'[h]].kind = "copy"
             /\ LinesDecide(body, made'[h]) => OnItsWay(body, holds', line', "event", made'[h], h)
  <2>1. CASE h = new
    <3>1. made'[h] = line /\ holds'[body[line].var] = h
      BY <1>5, <1>6, <2>1
    <3>2. ASSUME LinesDecide(body, line) PROVE OnItsWay(body, holds', Behind(body)[line], "event", line, h)
      BY <1>1, <1>2, <3>1, <3>2, NewCopyIsOnItsWay
    <3> QED BY <1>1, <3>1, <3>2
  <2>2. CASE h # new
    <3>1. h \in DOMAIN completed /\ ~completed[h] /\ made'[h] = made[h]
      BY <1>4, <1>5, <1>9, <2>2
    <3>2. body[made[h]].kind = "copy" /\ made[h] \in Lines(body)
      BY <1>2, <1>9, <3>1 DEF CWInv, WaitsAreComing
    <3>3. body[made[h]].var # body[line].var => holds'[body[made[h]].var] = holds[body[made[h]].var]
      BY <1>2, <1>6, <3>2, VarsOfCopies
    <3>4. ASSUME LinesDecide(body, made[h]) PROVE OnItsWay(body, holds', line', "event", made[h], h)
      <4>1. OnItsWay(body, holds, line, "execute", made[h], h)
        BY <1>1, <1>9, <3>1, <3>4 DEF CWInv, WaitsAreComing
      <4> QED BY <1>1, <1>2, <1>7, <3>2, <3>3, <4>1, StaysOnItsWay
    <3> QED BY <3>1, <3>2, <3>4
  <2> QED BY <2>1, <2>2
<1>10. WaitsAreComing'
  BY <1>1, <1>9 DEF WaitsAreComing
<1> QED BY <1>8, <1>10 DEF CWInv

LEMMA DoBareKeeps ==
  ASSUME CWInv, DoBare
  PROVE  CWInv'
<1> DEFINE new == Len(completed) + 1
           last == hooked /\ line \in BareLines(body)
<1>1. /\ about = "execute" /\ body[line].kind = "bare" /\ line' = Behind(body)[line] /\ about' = "event"
      /\ completed' = Append(completed, last) /\ made' = Append(made, line)
      /\ UNCHANGED <<body, hooked, holds>>
  BY DEF DoBare, Executes, GoTo
<1>2. /\ WellNested(body) /\ line \in Lines(body) /\ completed \in Seq(BOOLEAN)
      /\ made \in Seq(Lines(body)) /\ DOMAIN made = DOMAIN completed
  BY <1>1 DEF CWInv, CopyWaitTypeOK
<1>3. Moves(body, line, line')
  BY <1>1 DEF Moves
<1>4. last \in BOOLEAN /\ (hooked => last)
  BY <1>1, <1>2 DEF BareLines
<1> HIDE DEF last
<1>5. /\ completed' \in Seq(BOOLEAN) /\ new \in Nat /\ DOMAIN completed' = 1 .. new /\ completed'[new] = last
      /\ \A h \in DOMAIN completed' : h = new \/ (h \in DOMAIN completed /\ completed'[h] = completed[h])
  BY <1>1, <1>2, <1>4, AppendIs
<1>6. /\ made' \in Seq(Lines(body)) /\ DOMAIN made' = 1 .. new
      /\ \A h \in DOMAIN made' : h = new \/ made'[h] = made[h]
  <2>1. Len(made) = Len(completed)
    BY <1>2
  <2> QED BY <1>1, <1>2, <2>1, AppendIs
<1>7. \A h \in DOMAIN completed' : \/ /\ h \in DOMAIN completed /\ (completed[h] => completed'[h])
                                      /\ made'[h] = made[h]
                                   \/ hooked => completed'[h]
  BY <1>4, <1>5, <1>6
<1>8. DOMAIN completed' \in SUBSET Nat
  BY <1>5
<1> QED BY <1>1, <1>3, <1>5, <1>6, <1>7, <1>8, GoingOnKeeps

LEMMA DoWaitKeeps ==
  ASSUME CWInv, DoWait
  PROVE  CWInv'
<1>1. /\ about = "execute" /\ body[line].kind = "wait" /\ line' = Behind(body)[line] /\ about' = "event"
      /\ completed' = WaitOn(completed, {holds[body[line].var]})
      /\ UNCHANGED <<body, hooked, holds, made>>
  BY DEF DoWait, Executes, GoTo
<1>2. /\ completed \in Seq(BOOLEAN) /\ DOMAIN completed \in SUBSET Nat
      /\ made \in Seq(Lines(body)) /\ DOMAIN made = DOMAIN completed
  BY DEF CWInv, CopyWaitTypeOK
<1>3. /\ completed' \in Seq(BOOLEAN) /\ DOMAIN completed' = DOMAIN completed
      /\ \A h \in DOMAIN completed : completed'[h] = (completed[h] \/ h \in {holds[body[line].var]})
  BY <1>1, <1>2, WaitOnIs
<1>4. Moves(body, line, line')
  BY <1>1 DEF Moves
<1> QED BY <1>1, <1>2, <1>3, <1>4, GoingOnKeeps

(* The lines that only pass control on.                                    *)
LEMMA PassingOnKeeps ==
  ASSUME CWInv, DoOther \/ DoIf \/ DoWith \/ DoFor
  PROVE  CWInv'
<1>1. /\ completed \in Seq(BOOLEAN) /\ DOMAIN completed \in SUBSET Nat
      /\ made \in Seq(Lines(body)) /\ DOMAIN made = DOMAIN completed
  BY DEF CWInv, CopyWaitTypeOK
<1>2. about = "execute" /\ body[line].kind \notin {"copy", "wait"} /\ UNCHANGED <<body, hooked, holds, completed, made>>
  BY DEF DoOther, DoIf, DoWith, DoFor, Executes
<1>3. about' = "event" /\ Moves(body, line, line')
  <2>1. CASE DoOther
    BY <2>1 DEF DoOther, GoTo, Moves
  <2>2. CASE DoIf \/ DoWith \/ DoFor
    <3>1. \E arm \in {"body", "else"} : Into(line, arm)
      BY <2>2 DEF DoIf, DoWith, DoFor
    <3> QED BY <3>1, IntoMoves
  <2> QED BY <2>1, <2>2
<1> QED BY <1>1, <1>2, <1>3, GoingOnKeeps

LEMMA CWStutterKeeps ==
  ASSUME CWInv, UNCHANGED copyWaitVars
  PROVE  CWInv'
BY DEF CWInv, CopyWaitTypeOK, WaitsAreComing, copyWaitVars, CopyVars

LEMMA CWInvHolds == ASSUME ProgramsOk PROVE CopyWaitSpec => []CWInv
<1>1. CopyWaitInit(Programs) => CWInv
  BY CopyWaitInitTypeOK
<1>2. CWInv /\ [CopyWaitNext]_copyWaitVars => CWInv'
  BY CallbackKeeps, DoCopyKeeps, DoBareKeeps, DoWaitKeeps, PassingOnKeeps, CWStutterKeeps DEF CopyWaitNext
<1> QED BY <1>1, <1>2, PTL DEF CopyWaitSpec

(* When an analysed function returns, every bare copy has been waited for, *)
(* and every assigned copy for which the order of the lines decides, by a  *)
(* wait of its own or by one that was put in, whatever the other copies of *)
(* the function are.  Of a copy whose wait may run before it, or in a      *)
(* branch that is not taken, nothing is said.                              *)
THEOREM CopiesAreWaitedFor == ASSUME ProgramsOk PROVE CopyWaitSpec => []EveryCopyIsWaitedFor
<1>1. CWInv => EveryCopyIsWaitedFor
  BY DEF CWInv, CopyWaitTypeOK, WaitsAreComing, EveryCopyIsWaitedFor, OnItsWay
<1> QED BY <1>1, CWInvHolds, PTL

-----------------------------------------------------------------------------
(* Copies: the view of the tensor has the block's axes behind axes of one. *)

Sizes(s) == s \in Seq(Nat) /\ \A k \in 1 .. Len(s) : s[k] >= 1
Step(s, to, k) == IF k = Len(s) THEN 1 ELSE s[k + 1] * to[k + 1]

LEMMA ProductPositive ==
  ASSUME NEW x \in Nat, NEW y \in Nat, x >= 1, y >= 1
  PROVE  x * y \in Nat /\ x * y >= 1
OBVIOUS

LEMMA StridesExist ==
  ASSUME NEW s, Sizes(s)
  PROVE  \E to \in [0 .. Len(s) -> {x \in Nat : x >= 1}] : \A k \in 0 .. Len(s) : to[k] = Step(s, to, k)
<1> DEFINE N == Len(s)
           Some == {x \in Nat : x >= 1}
           Good(n) == \E to \in [N - n .. N -> Some] : \A k \in N - n .. N : to[k] = Step(s, to, k)
           Bad == {n \in 0 .. N : ~Good(n)}
<1>0. N \in Nat /\ s \in Seq(Nat) /\ \A k \in 1 .. N : s[k] \in Some
  BY DEF Sizes
<1>1. Bad = {}
  <2> SUFFICES ASSUME Bad # {} PROVE FALSE
    OBVIOUS
  <2>1. PICK n \in Bad : \A i \in Bad : n <= i
    <3>1. Bad \in SUBSET Nat
      BY <1>0
    <3> HIDE DEF Bad
    <3> QED BY <3>1, NatMin
  <2>2. n \in 0 .. N /\ ~Good(n)
    OBVIOUS
  <2>3. Good(0)
    <3> DEFINE one == [k \in N - 0 .. N |-> 1]
    <3>1. one \in [N - 0 .. N -> Some] /\ \A k \in N - 0 .. N : one[k] = Step(s, one, k)
      BY <1>0 DEF Step
    <3> QED BY <3>1
  <2>4. n # 0
    BY <2>2, <2>3
  <2>5. Good(n - 1)
    <3> SUFFICES ASSUME ~Good(n - 1) PROVE FALSE
      OBVIOUS
    <3> HIDE DEF Good
    <3>1. n - 1 \in Bad
      BY <1>0, <2>2, <2>4
    <3> HIDE DEF Bad
    <3> QED BY <1>0, <2>1, <2>2, <3>1
  <2> DEFINE m == N - n
  <2>6. m \in Nat /\ m < N /\ N - (n - 1) = m + 1
    BY <1>0, <2>2, <2>4
  <2>7. PICK old \in [m + 1 .. N -> Some] : \A k \in m + 1 .. N : old[k] = Step(s, old, k)
    BY <2>5, <2>6
  <2> HIDE DEF m
  <2> DEFINE new == [k \in m .. N |-> IF k = m THEN s[m + 1] * old[m + 1] ELSE old[k]]
  <2>8. s[m + 1] \in Some /\ old[m + 1] \in Some
    <3>1. m + 1 \in 1 .. N /\ m + 1 \in m + 1 .. N
      BY <1>0, <2>6
    <3> HIDE DEF Some
    <3> QED BY <1>0, <2>7, <3>1
  <2>9. s[m + 1] * old[m + 1] \in Some
    BY <2>8, ProductPositive
  <2>10. new \in [m .. N -> Some]
    <3>1. \A k \in m .. N : k # m => old[k] \in Some
      BY <1>0, <2>6, SMTT(30)
    <3> QED BY <2>9, <3>1
  <2>11. ASSUME NEW k \in m .. N PROVE new[k] = Step(s, new, k)
    <3>1. k # N => k + 1 \in m .. N /\ k + 1 # m
      BY <1>0, <2>6
    <3>2. k # m => k \in m + 1 .. N
      BY <1>0, <2>6
    <3> QED BY <2>6, <2>7, <3>1, <3>2 DEF Step
  <2>12. Good(n)
    BY <2>10, <2>11 DEF m
  <2> QED BY <2>2, <2>12
<1>2. N \in 0 .. N /\ N - N = 0
  BY <1>0
<1>3. Good(N)
  BY <1>1, <1>2
<1> QED BY <1>2, <1>3

LEMMA StridesAre ==
  ASSUME NEW s, Sizes(s)
  PROVE  /\ \A k \in 0 .. Len(s) : CE!Strides(s)[k] = Step(s, CE!Strides(s), k)
         /\ \A k \in 0 .. Len(s) : CE!Strides(s)[k] \in Nat /\ CE!Strides(s)[k] >= 1
<1> DEFINE Def(f) == f = [k \in 0 .. Len(s) |-> Step(s, f, k)]
<1>1. PICK to \in [0 .. Len(s) -> {x \in Nat : x >= 1}] : \A k \in 0 .. Len(s) : to[k] = Step(s, to, k)
  BY StridesExist
<1>2. Def(to)
  BY <1>1
<1>3. CE!Strides(s) = CHOOSE f : Def(f)
  BY DEF CE!Strides, Step
<1>4. Def(CE!Strides(s))
  BY <1>2, <1>3
<1>5. \A k \in 0 .. Len(s) : CE!Strides(s)[k] = Step(s, CE!Strides(s), k)
  BY <1>4
<1> DEFINE f == CE!Strides(s)
           N == Len(s)
           Off == {n \in 0 .. N : ~(f[N - n] \in Nat /\ f[N - n] >= 1)}
<1> HIDE DEF f
<1>6. N \in Nat /\ \A k \in 1 .. N : s[k] \in Nat /\ s[k] >= 1
  BY DEF Sizes
<1>7. Off = {}
  <2> SUFFICES ASSUME Off # {} PROVE FALSE
    OBVIOUS
  <2>1. PICK n \in Off : \A i \in Off : n <= i
    <3>1. Off \in SUBSET Nat
      BY <1>6
    <3> HIDE DEF Off
    <3> QED BY <3>1, NatMin
  <2>2. n \in 0 .. N /\ N - n \in 0 .. N /\ ~(f[N - n] \in Nat /\ f[N - n] >= 1)
    BY <1>6
  <2>3. f[N - n] = Step(s, f, N - n)
    BY <1>5, <2>2 DEF f
  <2>4. n # 0
    <3> SUFFICES ASSUME n = 0 PROVE FALSE
      OBVIOUS
    <3>1. f[N - n] = 1
      BY <1>6, <2>3 DEF Step
    <3> QED BY <2>2, <3>1
  <2>5. n - 1 \notin Off
    <3> HIDE DEF Off
    <3> QED BY <1>6, <2>1, <2>2
  <2>6. N - (n - 1) = N - n + 1 /\ n - 1 \in 0 .. N /\ N - n # N
    BY <1>6, <2>2, <2>4
  <2>7. f[N - n + 1] \in Nat /\ f[N - n + 1] >= 1
    BY <2>5, <2>6
  <2>8. s[N - n + 1] \in Nat /\ s[N - n + 1] >= 1
    BY <1>6, <2>2, <2>4
  <2> QED BY <2>2, <2>3, <2>6, <2>7, <2>8, ProductPositive DEF Step
<1>8. ASSUME NEW k \in 0 .. N PROVE f[k] \in Nat /\ f[k] >= 1
  <2>1. N - k \in 0 .. N /\ N - (N - k) = k
    BY <1>6
  <2> QED BY <1>7, <2>1
<1> QED BY <1>5, <1>8 DEF f

(* Axes of one in front change neither the tiles nor the steps.            *)
LEMMA SameStrides ==
  ASSUME NEW s, Sizes(s), NEW t, Sizes(t), NEW q \in Nat, Len(s) = q + Len(t),
         \A k \in 1 .. q : s[k] = 1, \A k \in 1 .. Len(t) : s[q + k] = t[k]
  PROVE  /\ \A k \in 0 .. Len(t) : CE!Strides(s)[q + k] = CE!Strides(t)[k]
         /\ CE!Strides(s)[0] = CE!Strides(t)[0]
<1> DEFINE f == CE!Strides(s)
           g == CE!Strides(t)
           N == Len(t)
<1>1. /\ \A k \in 0 .. q + N : f[k] = Step(s, f, k) /\ f[k] \in Nat
      /\ \A k \in 0 .. N : g[k] = Step(t, g, k)
  BY StridesAre
<1>2. N \in Nat
  BY DEF Sizes
<1> HIDE DEF f, g
<1>3. \A k \in 0 .. N : f[q + k] = g[k]
  <2> DEFINE Off == {n \in 0 .. N : f[q + (N - n)] # g[N - n]}
  <2>1. Off = {}
    <3> SUFFICES ASSUME Off # {} PROVE FALSE
      OBVIOUS
    <3>1. PICK n \in Off : \A i \in Off : n <= i
      <4>1. Off \in SUBSET Nat
        BY <1>2
      <4> HIDE DEF Off
      <4> QED BY <4>1, NatMin
    <3> DEFINE k == N - n
    <3>2. n \in 0 .. N /\ k \in 0 .. N /\ q + k \in 0 .. q + N /\ f[q + k] # g[k]
      BY <1>2
    <3>3. f[q + k] = Step(s, f, q + k) /\ g[k] = Step(t, g, k)
      BY <1>1, <3>2
    <3>4. k # N
      <4> SUFFICES ASSUME k = N PROVE FALSE
        OBVIOUS
      <4> HIDE DEF k
      <4>1. f[q + k] = 1 /\ g[k] = 1
        BY <3>3 DEF Step
      <4> QED BY <3>2, <4>1
    <3>5. n - 1 \in 0 .. N /\ N - (n - 1) = k + 1 /\ q + (k + 1) = (q + k) + 1
      BY <1>2, <3>2, <3>4
    <3>6. f[q + (k + 1)] = g[k + 1]
      <4>1. n - 1 \notin Off
        <5> HIDE DEF Off, k
        <5> QED BY <1>2, <3>1, <3>2
      <4> QED BY <3>5, <4>1
    <3>7. s[q + (k + 1)] = t[k + 1]
      <4>1. k + 1 \in 1 .. N
        BY <1>2, <3>2, <3>4
      <4> QED BY <4>1
    <3>8. q + k # q + N
      BY <1>2, <3>2, <3>4
    <3> HIDE DEF k
    <3> QED BY <3>2, <3>3, <3>4, <3>5, <3>6, <3>7, <3>8 DEF Step
  <2>2. ASSUME NEW k \in 0 .. N PROVE f[q + k] = g[k]
    <3>1. N - k \in 0 .. N /\ N - (N - k) = k
      BY <1>2
    <3> QED BY <2>1, <3>1
  <2> QED BY <2>2
<1>4. f[0] = f[q]
  <2> DEFINE Off == {n \in 0 .. q : f[q - n] # f[q]}
  <2>1. Off = {}
    <3> SUFFICES ASSUME Off # {} PROVE FALSE
      OBVIOUS
    <3>1. PICK n \in Off : \A i \in Off : n <= i
      <4>1. Off \in SUBSET Nat
        OBVIOUS
      <4> HIDE DEF Off
      <4> QED BY <4>1, NatMin
    <3> DEFINE k == q - n
    <3>2. n \in 0 .. q /\ k \in 0 .. q /\ f[k] # f[q] /\ n # 0
      OBVIOUS
    <3>3. n - 1 \in 0 .. q /\ q - (n - 1) = k + 1 /\ k + 1 \in 1 .. q /\ k # q + N /\ k \in 0 .. q + N /\ k + 1 \in 0 .. q + N
      BY <1>2, <3>2
    <3>4. f[k + 1] = f[q]
      <4>1. n - 1 \notin Off
        <5> HIDE DEF Off, k
        <5> QED BY <3>1, <3>2
      <4> QED BY <3>3, <4>1
    <3> HIDE DEF k
    <3>5. f[k] = s[k + 1] * f[k + 1]
      BY <1>1, <3>3 DEF Step
    <3>6. s[k + 1] = 1 /\ f[k + 1] \in Nat
      BY <1>1, <3>3
    <3>7. f[k] = f[k + 1]
      BY <3>5, <3>6
    <3> QED BY <3>2, <3>4, <3>7
  <2>2. q \in 0 .. q /\ q - q = 0
    OBVIOUS
  <2> QED BY <2>1, <2>2
<1>5. f[q] = g[0]
  <2>1. 0 \in 0 .. N /\ q + 0 = q
    BY <1>2
  <2> QED BY <1>3, <2>1
<1> QED BY <1>3, <1>4, <1>5 DEF f, g

LEMMA PlaceInFront ==
  ASSUME NEW s, Sizes(s), NEW t, Sizes(t), NEW q \in Nat, Len(s) = q + Len(t),
         \A k \in 1 .. q : s[k] = 1, \A k \in 1 .. Len(t) : s[q + k] = t[k], NEW n \in Nat
  PROVE  /\ DOMAIN CE!Place(s, n) = 1 .. q + Len(t)
         /\ Len(CE!Place(t, n)) = Len(t)
         /\ \A k \in 1 .. q + Len(t) :
              CE!Place(s, n)[k] = IF k > q THEN CE!Place(t, n)[k - q] ELSE 0
<1>1. Len(t) \in Nat /\ Len(s) \in Nat /\ DOMAIN t = 1 .. Len(t) /\ DOMAIN s = 1 .. q + Len(t)
  BY DEF Sizes
<1>2. Len(CE!Place(t, n)) = Len(t)
  BY <1>1 DEF CE!Place
<1>3. ASSUME NEW k \in 1 .. q + Len(t), k > q PROVE CE!Place(s, n)[k] = CE!Place(t, n)[k - q]
  <2>1. k - q \in 1 .. Len(t) /\ k - q \in 0 .. Len(t) /\ q + (k - q) = k
    BY <1>1, <1>3
  <2>2. CE!Strides(s)[k] = CE!Strides(t)[k - q]
    BY <2>1, SameStrides
  <2>3. s[k] = t[k - q]
    BY <2>1
  <2> QED BY <1>1, <2>1, <2>2, <2>3 DEF CE!Place
<1>4. ASSUME NEW k \in 1 .. q + Len(t), ~(k > q) PROVE CE!Place(s, n)[k] = 0
  <2>1. s[k] = 1 /\ k \in 0 .. Len(s)
    BY <1>1, <1>4
  <2>2. CE!Strides(s)[k] \in Nat /\ CE!Strides(s)[k] >= 1
    BY <2>1, StridesAre
  <2>3. (n \div CE!Strides(s)[k]) % 1 = 0
    BY <2>2
  <2> QED BY <1>1, <2>1, <2>3 DEF CE!Place
<1> QED BY <1>1, <1>2, <1>3, <1>4 DEF CE!Place

LEMMA ExtentOf ==
  ASSUME NEW lo \in Nat, NEW hi \in Nat, NEW size \in Nat, lo < hi, hi <= size
  PROVE  CE!Max({0, CE!Min({hi, size}) - lo}) = hi - lo
<1>1. CE!Min({hi, size}) = hi
  BY DEF CE!Min
<1> DEFINE d == hi - lo
<1>2. d \in Nat
  OBVIOUS
<1> HIDE DEF d
<1>3. CE!Max({0, d}) = d
  BY <1>2 DEF CE!Max
<1> QED BY <1>1, <1>3 DEF d

(* A tensor and a block as InCommon says of them.                          *)
LEMMA BothMoveTheSame ==
  ASSUME NEW t \in CE!Ends, t.kind = "tensor", NEW b \in CE!Ends, b.kind = "block", NEW does,
         CE!InCommon(t, b) \/ CE!InCommon(b, t)
  PROVE  CE!SimTensorCopy(does, t, b) = CE!TtlSlice(does, t, b)
<1> DEFINE q == Len(t.shape) - Len(b.shape)
           rank == Len(t.shape)
           view == CE!ViewShape(t)
<1>1. /\ t.shape \in Seq(Nat) /\ t.items \in Seq(CE!Items) /\ b.shape \in Seq(Nat)
  BY DEF CE!Ends, CE!SrcPipeIdentity, CE!DstPipeIdentity
<1>2. /\ Len(t.items) = rank /\ rank >= 2 /\ q >= 0
      /\ \A k \in DOMAIN t.items : t.items[k].lo < t.items[k].hi /\ t.items[k].hi <= t.shape[k]
      /\ \A k \in DOMAIN t.items : IF k <= q THEN ~t.items[k].range ELSE t.items[k].hi - t.items[k].lo = b.shape[k - q]
      /\ (\E k \in DOMAIN b.shape : b.shape[k] > 1) => \E k \in q + 1 .. rank : t.items[k].range
  BY DEF CE!InCommon
<1>3. rank \in Nat /\ Len(b.shape) \in Nat /\ q \in Nat /\ rank = q + Len(b.shape)
  BY <1>1, <1>2
<1>4. DOMAIN t.shape = 1 .. rank /\ DOMAIN t.items = 1 .. rank /\ DOMAIN b.shape = 1 .. Len(b.shape) /\ t.items # <<>>
  BY <1>1, <1>2, <1>3
<1> HIDE DEF q, rank
<1>5. ASSUME NEW k \in 1 .. rank
      PROVE  /\ t.items[k] \in CE!Items /\ t.items[k].lo \in Nat /\ t.items[k].hi \in Nat /\ t.shape[k] \in Nat
             /\ view[k] = t.items[k].hi - t.items[k].lo /\ view[k] \in Nat /\ view[k] >= 1
             /\ CE!ViewOrigin(t)[k] = t.items[k].lo
  <2>1. t.items[k] \in CE!Items /\ t.shape[k] \in Nat
    BY <1>1, <1>2, <1>3, <1>4, SMTT(30)
  <2>2. t.items[k].lo \in Nat /\ t.items[k].hi \in Nat
    BY <2>1 DEF CE!Items
  <2>3. t.items[k].lo < t.items[k].hi /\ t.items[k].hi <= t.shape[k]
    BY <1>2, <1>4
  <2>4. view[k] = CE!Max({0, CE!Min({t.items[k].hi, t.shape[k]}) - t.items[k].lo})
    BY <1>4 DEF CE!ViewShape
  <2>5. CE!ViewOrigin(t)[k] = t.items[k].lo
    BY <1>4 DEF CE!ViewOrigin
  <2>6. view[k] = t.items[k].hi - t.items[k].lo
    <3> HIDE DEF view
    <3> QED BY <2>1, <2>2, <2>3, <2>4, ExtentOf
  <2> HIDE DEF view
  <2> QED BY <2>1, <2>2, <2>3, <2>5, <2>6
<1>6. /\ \A k \in 1 .. q : view[k] = 1
      /\ \A k \in 1 .. Len(b.shape) : view[q + k] = b.shape[k] /\ b.shape[k] >= 1
  <2>1. ASSUME NEW k \in 1 .. q PROVE view[k] = 1
    <3>1. k \in 1 .. rank /\ k <= q
      BY <1>3
    <3>2. ~t.items[k].range /\ t.items[k] \in CE!Items
      BY <1>2, <1>4, <1>5, <3>1
    <3>3. t.items[k].hi = t.items[k].lo + 1
      BY <3>2 DEF CE!Items
    <3> QED BY <1>5, <3>1, <3>3
  <2>2. ASSUME NEW k \in 1 .. Len(b.shape) PROVE view[q + k] = b.shape[k] /\ b.shape[k] >= 1
    <3>1. q + k \in 1 .. rank /\ ~(q + k <= q) /\ (q + k) - q = k
      BY <1>3
    <3>2. t.items[q + k].hi - t.items[q + k].lo = b.shape[(q + k) - q]
      BY <1>2, <1>4, <3>1
    <3> QED BY <1>5, <3>1, <3>2
  <2> QED BY <2>1, <2>2
<1>7. Sizes(b.shape)
  BY <1>1, <1>6 DEF Sizes
<1>8. view \in Seq(Nat) /\ Len(view) = rank /\ DOMAIN view = 1 .. rank
  <2>1. view \in [1 .. rank -> Nat]
    <3>1. view = [k \in 1 .. rank |-> CE!Max({0, CE!Min({t.items[k].hi, t.shape[k]}) - t.items[k].lo})]
      BY <1>4 DEF CE!ViewShape
    <3> HIDE DEF view
    <3> QED BY <1>5, <3>1
  <2> HIDE DEF view
  <2> QED BY <1>3, <2>1
<1>9. Sizes(view)
  BY <1>5, <1>8 DEF Sizes
<1> HIDE DEF view
<1>10. CE!Prod(view) = CE!Prod(b.shape)
  BY <1>3, <1>6, <1>7, <1>8, <1>9, SameStrides, SMTT(30) DEF CE!Prod
<1>11. CE!SubscriptOk(t)
  BY <1>2 DEF CE!SubscriptOk, rank
<1>12. CE!SliceOk(t, b.shape)
  <2>1. \A k \in 1 .. q : ~t.items[k].range
    <3> SUFFICES ASSUME NEW k \in 1 .. q PROVE ~t.items[k].range
      OBVIOUS
    <3>1. k \in 1 .. rank /\ k <= q
      BY <1>3
    <3> QED BY <1>2, <1>4, <3>1
  <2>2. \A k \in 1 .. rank : CE!Indices(t)[k].range = t.items[k].range
    BY <1>4 DEF CE!Indices, CE!IndexOrRange
  <2>3. Len(CE!Indices(t)) = rank
    BY <1>3, <1>4 DEF CE!Indices
  <2>4. \A k \in 1 .. q : ~CE!Indices(t)[k].range
    <3> SUFFICES ASSUME NEW k \in 1 .. q PROVE ~CE!Indices(t)[k].range
      OBVIOUS
    <3>1. k \in 1 .. rank
      BY <1>3
    <3> QED BY <2>1, <2>2, <3>1
  <2>5. (\E k \in DOMAIN b.shape : b.shape[k] > 1) => \E k \in q + 1 .. rank : CE!Indices(t)[k].range
    <3> SUFFICES ASSUME \E k \in DOMAIN b.shape : b.shape[k] > 1
                 PROVE  \E k \in q + 1 .. rank : CE!Indices(t)[k].range
      OBVIOUS
    <3>1. PICK k \in q + 1 .. rank : t.items[k].range
      BY <1>2
    <3>2. k \in 1 .. rank
      BY <1>3
    <3> QED BY <2>2, <3>1, <3>2
  <2> QED BY <1>2, <2>3, <2>4, <2>5 DEF CE!SliceOk, q, rank
<1>13. ASSUME NEW n \in 0 .. CE!Prod(b.shape) - 1
       PROVE  [k \in DOMAIN view |-> CE!ViewOrigin(t)[k] + CE!Place(view, n)[k]]
                = CE!SliceTile(t, CE!Place(b.shape, n))
  <2>1. n \in Nat
    <3>1. 0 \in 0 .. Len(b.shape)
      BY <1>3
    <3>2. CE!Prod(b.shape) \in Nat
      BY <1>7, <3>1, StridesAre DEF CE!Prod
    <3> QED BY <3>2
  <2>2. /\ Len(CE!Place(b.shape, n)) = Len(b.shape)
        /\ \A k \in 1 .. rank : CE!Place(view, n)[k] = IF k > q THEN CE!Place(b.shape, n)[k - q] ELSE 0
    <3>1. Len(view) = q + Len(b.shape)
      BY <1>3, <1>8
    <3>2. /\ Len(CE!Place(b.shape, n)) = Len(b.shape)
          /\ \A k \in 1 .. q + Len(b.shape) :
               CE!Place(view, n)[k] = IF k > q THEN CE!Place(b.shape, n)[k - q] ELSE 0
      <4>1. \A k \in 1 .. Len(b.shape) : view[q + k] = b.shape[k]
        BY <1>6
      <4>2. \A k \in 1 .. q : view[k] = 1
        BY <1>6
      <4>3. q \in Nat /\ Sizes(view) /\ Sizes(b.shape)
        BY <1>3, <1>7, <1>9
      <4> DEFINE s == b.shape
      <4> HIDE DEF s
      <4>4. /\ \A k \in 1 .. Len(s) : view[q + k] = s[k]
            /\ Sizes(s) /\ Len(view) = q + Len(s)
        BY <3>1, <4>1, <4>3 DEF s
      <4>5. /\ Len(CE!Place(s, n)) = Len(s)
            /\ \A k \in 1 .. q + Len(s) :
                 CE!Place(view, n)[k] = IF k > q THEN CE!Place(s, n)[k - q] ELSE 0
        BY <2>1, <4>2, <4>3, <4>4, PlaceInFront
      <4> QED BY <4>5 DEF s
    <3> QED BY <1>3, <3>2
  <2>3. CE!SliceTile(t, CE!Place(b.shape, n))
          = [k \in 1 .. rank |-> t.items[k].lo + (IF k > q THEN CE!Place(b.shape, n)[k - q] ELSE 0)]
    <3>1. Len(t.items) - Len(CE!Place(b.shape, n)) = q
      BY <1>2, <2>2 DEF q, rank
    <3>2. \A k \in 1 .. rank : CE!Indices(t)[k].start = t.items[k].lo
      BY <1>4 DEF CE!Indices, CE!IndexOrRange
    <3> QED BY <1>4, <3>1, <3>2 DEF CE!SliceTile
  <2>4. \A k \in 1 .. rank : CE!ViewOrigin(t)[k] = t.items[k].lo
    BY <1>5
  <2> QED BY <1>8, <2>2, <2>3, <2>4
<1>14. CE!SimMoves(t, b) = {<<CE!SliceTile(t, CE!Place(b.shape, n)), CE!Place(b.shape, n)>> :
                              n \in 0 .. CE!Prod(b.shape) - 1}
  BY <1>10, <1>13 DEF CE!SimMoves, view
<1> QED BY <1>10, <1>11, <1>12, <1>14 DEF CE!SimTensorCopy, CE!TtlSlice, view

LEMMA EndsAgree == \A src, dst \in CE!Ends : CE!CopiesAgree(src, dst)
<1> SUFFICES ASSUME NEW src \in CE!Ends, NEW dst \in CE!Ends, CE!InCommon(src, dst)
             PROVE  CE!SimCopy(src, dst) = CE!TtlCopy(src, dst)
  BY DEF CE!CopiesAgree
<1>1. \A e \in CE!Ends : e.kind \in {"tensor", "block", "srcPipe", "dstPipe"}
  BY DEF CE!Ends, CE!SrcPipeIdentity, CE!DstPipeIdentity
<1>2. src.kind \in {"tensor", "block", "dstPipe"} /\ dst.kind \in {"tensor", "block", "srcPipe"}
  BY <1>1 DEF CE!InCommon
<1>3. ~(src.kind = "dstPipe" /\ dst.kind = "srcPipe")
  BY DEF CE!InCommon, CE!IsPipe
<1>4. \A e \in {src, dst} : e.kind = "tensor" => e.items # <<>>
  <2> SUFFICES ASSUME NEW e \in {src, dst}, e.kind = "tensor" PROVE e.items # <<>>
    OBVIOUS
  <2>1. Len(e.items) = Len(e.shape) /\ Len(e.shape) >= 2
    BY DEF CE!InCommon
  <2> QED BY <2>1
<1>5. CASE src.kind = "tensor" /\ dst.kind = "block"
  <2>1. CE!SimTensorCopy("read", src, dst) = CE!TtlSlice("read", src, dst)
    BY <1>5, BothMoveTheSame
  <2>2. CE!SimCopy(src, dst) = CE!SimTensorCopy("read", src, dst)
    BY <1>5 DEF CE!SimCopy, CE!HandlerRegistry
  <2>3. CE!TtlCopy(src, dst) = CE!TtlSlice("read", src, dst)
    BY <1>4, <1>5 DEF CE!TtlCopy, CE!IsPipe, CE!IsSubscript
  <2> QED BY <2>1, <2>2, <2>3
<1>6. CASE src.kind = "block" /\ dst.kind = "tensor"
  <2>1. CE!SimTensorCopy("write", dst, src) = CE!TtlSlice("write", dst, src)
    BY <1>6, BothMoveTheSame
  <2>2. CE!SimCopy(src, dst) = CE!SimTensorCopy("write", dst, src)
    BY <1>6 DEF CE!SimCopy, CE!HandlerRegistry
  <2>3. CE!TtlCopy(src, dst) = CE!TtlSlice("write", dst, src)
    BY <1>4, <1>6 DEF CE!TtlCopy, CE!IsPipe, CE!IsSubscript
  <2> QED BY <2>1, <2>2, <2>3
<1>7. CASE src.kind = dst.kind
  <2>1. <<src.kind, dst.kind>> \notin CE!HandlerRegistry
    BY <1>2, <1>7 DEF CE!HandlerRegistry
  <2>2. CE!SimCopy(src, dst) = CE!NoCopy
    BY <1>2, <1>7, <2>1 DEF CE!SimCopy
  <2>3. ~CE!IsPipe(src) /\ ~CE!IsPipe(dst)
    BY <1>2, <1>7 DEF CE!IsPipe
  <2>4. CASE src.kind = "block"
    <3>1. ~CE!IsSubscript(src) /\ ~CE!IsSubscript(dst)
      BY <1>7, <2>4 DEF CE!IsSubscript
    <3> QED BY <2>2, <2>3, <3>1 DEF CE!TtlCopy
  <2>5. CASE src.kind = "tensor"
    <3>1. CE!IsSubscript(src) /\ CE!IsSubscript(dst)
      BY <1>4, <1>7, <2>5 DEF CE!IsSubscript
    <3>2. src.kind # "block" /\ dst.kind # "block"
      BY <1>7, <2>5
    <3> QED BY <2>2, <2>3, <3>1, <3>2 DEF CE!TtlCopy
  <2> QED BY <1>2, <1>7, <2>4, <2>5
<1>8. CASE src.kind = "dstPipe"
  <2>1. CE!IsPipe(src) /\ ~CE!IsPipe(dst)
    BY <1>2, <1>3, <1>8 DEF CE!IsPipe
  <2>2. CASE dst.kind = "block"
    <3>1. <<src.kind, dst.kind>> \in CE!HandlerRegistry /\ dst.kind # "srcPipe" /\ src.kind # "tensor"
      BY <1>8, <2>2 DEF CE!HandlerRegistry
    <3>2. CE!SimCopy(src, dst) = CE!Moves("receive", {})
      BY <1>8, <2>2, <3>1 DEF CE!SimCopy
    <3>3. CE!TtlCopy(src, dst) = CE!Moves("receive", {})
      BY <1>8, <2>1, <2>2 DEF CE!TtlCopy, CE!IsSubscript
    <3> QED BY <3>2, <3>3
  <2>3. CASE dst.kind = "tensor"
    <3>1. <<src.kind, dst.kind>> \notin CE!HandlerRegistry
      BY <1>8, <2>3 DEF CE!HandlerRegistry
    <3>2. CE!SimCopy(src, dst) = CE!NoCopy
      BY <1>8, <2>3, <3>1 DEF CE!SimCopy
    <3>3. CE!TtlCopy(src, dst) = CE!NoCopy
      <4>1. src.kind # "block" /\ dst.kind # "block" /\ ~CE!IsSubscript(src) /\ CE!IsSubscript(dst)
        BY <1>4, <1>8, <2>3 DEF CE!IsSubscript
      <4> QED BY <2>1, <4>1 DEF CE!TtlCopy
    <3> QED BY <3>2, <3>3
  <2> QED BY <1>2, <1>3, <1>8, <2>2, <2>3
<1>9. CASE dst.kind = "srcPipe"
  <2>1. CE!IsPipe(dst) /\ ~CE!IsPipe(src)
    BY <1>2, <1>3, <1>9 DEF CE!IsPipe
  <2>2. CASE src.kind = "block"
    <3>1. <<src.kind, dst.kind>> \in CE!HandlerRegistry /\ src.kind # "dstPipe" /\ src.kind # "tensor"
      BY <1>9, <2>2 DEF CE!HandlerRegistry
    <3>2. CE!SimCopy(src, dst) = CE!Moves("send", {})
      BY <1>9, <3>1 DEF CE!SimCopy
    <3>3. CE!TtlCopy(src, dst) = CE!Moves("send", {})
      BY <1>9, <2>1, <2>2 DEF CE!TtlCopy, CE!IsSubscript
    <3> QED BY <3>2, <3>3
  <2>3. CASE src.kind = "tensor"
    <3>1. <<src.kind, dst.kind>> \notin CE!HandlerRegistry
      BY <1>9, <2>3 DEF CE!HandlerRegistry
    <3>2. CE!SimCopy(src, dst) = CE!NoCopy
      BY <1>9, <2>3, <3>1 DEF CE!SimCopy
    <3>3. CE!TtlCopy(src, dst) = CE!NoCopy
      <4>1. src.kind # "block" /\ dst.kind # "block" /\ ~CE!IsSubscript(dst) /\ CE!IsSubscript(src)
        BY <1>4, <1>9, <2>3 DEF CE!IsSubscript
      <4> QED BY <2>1, <4>1 DEF CE!TtlCopy
    <3> QED BY <3>2, <3>3
  <2> QED BY <1>2, <1>3, <1>9, <2>2, <2>3
<1> QED BY <1>2, <1>5, <1>6, <1>7, <1>8, <1>9

CopySpec == case \in [of : {"copy"}, ends : CE!Ends \X CE!Ends] /\ [][FALSE]_case

(* A copy that a kernel may use on both sides is refused by both or moves  *)
(* the same tiles in the simulator and compiled, whatever the shapes.      *)
THEOREM SameTilesMove == CopySpec => []CopiesAgree
<1>1. case \in [of : {"copy"}, ends : CE!Ends \X CE!Ends] => CopiesAgree
  BY EndsAgree DEF CopiesAgree
<1>2. CopiesAgree /\ [FALSE]_case => CopiesAgree'
  BY DEF CopiesAgree
<1> QED BY <1>1, <1>2, PTL DEF CopySpec

-----------------------------------------------------------------------------
(* Launches: what a sequence begins with, added up and joined.             *)

Added(s, to, n) == IF n = 0 THEN 0 ELSE to[n - 1] + s[n]

LEMMA SumsExist ==
  ASSUME NEW s \in Seq(Nat)
  PROVE  \E to \in [0 .. Len(s) -> Nat] : \A n \in 0 .. Len(s) : to[n] = Added(s, to, n)
<1> DEFINE Good(n) == \E to \in [0 .. n -> Nat] : \A k \in 0 .. n : to[k] = Added(s, to, k)
           Bad == {n \in 0 .. Len(s) : ~Good(n)}
<1>1. Len(s) \in Nat /\ \A k \in 1 .. Len(s) : s[k] \in Nat
  OBVIOUS
<1>2. Bad = {}
  <2> SUFFICES ASSUME Bad # {} PROVE FALSE
    OBVIOUS
  <2>1. PICK n \in Bad : \A i \in Bad : n <= i
    <3>1. Bad \in SUBSET Nat
      BY <1>1
    <3> HIDE DEF Bad
    <3> QED BY <3>1, NatMin
  <2>2. n \in 0 .. Len(s) /\ ~Good(n)
    OBVIOUS
  <2>3. Good(0)
    <3>1. [k \in 0 .. 0 |-> 0] \in [0 .. 0 -> Nat] /\ \A k \in 0 .. 0 : [j \in 0 .. 0 |-> 0][k] = Added(s, [j \in 0 .. 0 |-> 0], k)
      BY DEF Added
    <3> QED BY <3>1
  <2>4. n # 0
    BY <2>2, <2>3
  <2>5. Good(n - 1)
    <3> SUFFICES ASSUME ~Good(n - 1) PROVE FALSE
      OBVIOUS
    <3> HIDE DEF Good
    <3>1. n - 1 \in Bad
      BY <1>1, <2>2, <2>4
    <3> HIDE DEF Bad
    <3> QED BY <1>1, <2>1, <2>2, <3>1
  <2>6. PICK old \in [0 .. n - 1 -> Nat] : \A k \in 0 .. n - 1 : old[k] = Added(s, old, k)
    BY <2>5
  <2> DEFINE new == [k \in 0 .. n |-> IF k = n THEN old[n - 1] + s[n] ELSE old[k]]
  <2>7. new \in [0 .. n -> Nat]
    <3>1. old[n - 1] \in Nat /\ s[n] \in Nat /\ \A k \in 0 .. n : k # n => old[k] \in Nat
      BY <1>1, <2>2, <2>4, <2>6
    <3> QED BY <3>1
  <2>8. ASSUME NEW k \in 0 .. n PROVE new[k] = Added(s, new, k)
    <3>1. k # 0 => k - 1 \in 0 .. n /\ k - 1 # n
      BY <1>1, <2>2
    <3>2. k # n => k \in 0 .. n - 1
      BY <1>1, <2>2
    <3> QED BY <2>4, <2>6, <3>1, <3>2 DEF Added
  <2>9. Good(n)
    BY <2>7, <2>8
  <2> QED BY <2>2, <2>9
<1>3. Len(s) \in 0 .. Len(s)
  BY <1>1
<1> QED BY <1>2, <1>3

LEMMA SumsAre ==
  ASSUME NEW s \in Seq(Nat)
  PROVE  /\ \A n \in 0 .. Len(s) : RU!Sums(s)[n] = Added(s, RU!Sums(s), n)
         /\ \A n \in 0 .. Len(s) : RU!Sums(s)[n] \in Nat
<1> DEFINE Def(f) == f = [n \in 0 .. Len(s) |-> Added(s, f, n)]
<1>1. PICK to \in [0 .. Len(s) -> Nat] : \A n \in 0 .. Len(s) : to[n] = Added(s, to, n)
  BY SumsExist
<1>2. Def(to)
  BY <1>1
<1>3. RU!Sums(s) = CHOOSE f : Def(f)
  BY DEF RU!Sums, Added
<1>4. Def(RU!Sums(s))
  BY <1>2, <1>3
<1>5. \A n \in 0 .. Len(s) : RU!Sums(s)[n] = Added(s, RU!Sums(s), n)
  BY <1>4
<1> DEFINE f == RU!Sums(s)
           Off == {n \in 0 .. Len(s) : f[n] # to[n]}
<1> HIDE DEF f
<1>6. Len(s) \in Nat
  OBVIOUS
<1>7. Off = {}
  <2> SUFFICES ASSUME Off # {} PROVE FALSE
    OBVIOUS
  <2>1. PICK n \in Off : \A i \in Off : n <= i
    <3>1. Off \in SUBSET Nat
      BY <1>6
    <3> HIDE DEF Off
    <3> QED BY <3>1, NatMin
  <2>2. n \in 0 .. Len(s) /\ f[n] # to[n]
    OBVIOUS
  <2>3. f[n] = Added(s, f, n) /\ to[n] = Added(s, to, n)
    BY <1>1, <1>5, <2>2 DEF f
  <2>4. n # 0
    BY <2>2, <2>3 DEF Added
  <2>5. n - 1 \in 0 .. Len(s) /\ ~(n <= n - 1)
    BY <1>6, <2>2, <2>4
  <2>6. f[n - 1] = to[n - 1]
    BY <2>1, <2>5
  <2> QED BY <2>2, <2>3, <2>4, <2>6 DEF Added
<1>8. \A n \in 0 .. Len(s) : f[n] \in Nat
  BY <1>1, <1>7
<1> QED BY <1>5, <1>8 DEF f

Joined(s, to, n) == IF n = 0 THEN <<>> ELSE to[n - 1] \o s[n]

LEMMA JoinsExist ==
  ASSUME NEW s \in Seq(Seq(Nat))
  PROVE  \E to \in [0 .. Len(s) -> Seq(Nat)] : \A n \in 0 .. Len(s) : to[n] = Joined(s, to, n)
<1> DEFINE Good(n) == \E to \in [0 .. n -> Seq(Nat)] : \A k \in 0 .. n : to[k] = Joined(s, to, k)
           Bad == {n \in 0 .. Len(s) : ~Good(n)}
<1>1. Len(s) \in Nat /\ \A k \in 1 .. Len(s) : s[k] \in Seq(Nat)
  OBVIOUS
<1>2. Bad = {}
  <2> SUFFICES ASSUME Bad # {} PROVE FALSE
    OBVIOUS
  <2>1. PICK n \in Bad : \A i \in Bad : n <= i
    <3>1. Bad \in SUBSET Nat
      BY <1>1
    <3> HIDE DEF Bad
    <3> QED BY <3>1, NatMin
  <2>2. n \in 0 .. Len(s) /\ ~Good(n)
    OBVIOUS
  <2>3. Good(0)
    <3> DEFINE none == [k \in 0 .. 0 |-> <<>>]
    <3>1. none \in [0 .. 0 -> Seq(Nat)] /\ \A k \in 0 .. 0 : none[k] = Joined(s, none, k)
      BY EmptySeq DEF Joined
    <3> QED BY <3>1
  <2>4. n # 0
    BY <2>2, <2>3
  <2>5. Good(n - 1)
    <3> SUFFICES ASSUME ~Good(n - 1) PROVE FALSE
      OBVIOUS
    <3> HIDE DEF Good
    <3>1. n - 1 \in Bad
      BY <1>1, <2>2, <2>4
    <3> HIDE DEF Bad
    <3> QED BY <1>1, <2>1, <2>2, <3>1
  <2>6. PICK old \in [0 .. n - 1 -> Seq(Nat)] : \A k \in 0 .. n - 1 : old[k] = Joined(s, old, k)
    BY <2>5
  <2> DEFINE new == [k \in 0 .. n |-> IF k = n THEN old[n - 1] \o s[n] ELSE old[k]]
  <2>7. new \in [0 .. n -> Seq(Nat)]
    <3>1. old[n - 1] \in Seq(Nat) /\ s[n] \in Seq(Nat) /\ \A k \in 0 .. n : k # n => old[k] \in Seq(Nat)
      BY <1>1, <2>2, <2>4, <2>6
    <3>2. old[n - 1] \o s[n] \in Seq(Nat)
      BY <3>1, ConcatProperties
    <3> QED BY <3>1, <3>2
  <2>8. ASSUME NEW k \in 0 .. n PROVE new[k] = Joined(s, new, k)
    <3>1. k # 0 => k - 1 \in 0 .. n /\ k - 1 # n
      BY <1>1, <2>2
    <3>2. k # n => k \in 0 .. n - 1
      BY <1>1, <2>2
    <3> QED BY <2>4, <2>6, <3>1, <3>2 DEF Joined
  <2>9. Good(n)
    BY <2>7, <2>8
  <2> QED BY <2>2, <2>9
<1>3. Len(s) \in 0 .. Len(s)
  BY <1>1
<1> QED BY <1>2, <1>3

LEMMA JoinsAre ==
  ASSUME NEW s \in Seq(Seq(Nat))
  PROVE  /\ \A n \in 0 .. Len(s) : RU!Joins(s)[n] = Joined(s, RU!Joins(s), n)
         /\ \A n \in 0 .. Len(s) : RU!Joins(s)[n] \in Seq(Nat)
<1> DEFINE Def(f) == f = [n \in 0 .. Len(s) |-> Joined(s, f, n)]
<1>1. PICK to \in [0 .. Len(s) -> Seq(Nat)] : \A n \in 0 .. Len(s) : to[n] = Joined(s, to, n)
  BY JoinsExist
<1>2. Def(to)
  BY <1>1
<1>3. RU!Joins(s) = CHOOSE f : Def(f)
  BY DEF RU!Joins, Joined
<1>4. Def(RU!Joins(s))
  BY <1>2, <1>3
<1>5. \A n \in 0 .. Len(s) : RU!Joins(s)[n] = Joined(s, RU!Joins(s), n)
  BY <1>4
<1> DEFINE f == RU!Joins(s)
           Off == {n \in 0 .. Len(s) : f[n] # to[n]}
<1> HIDE DEF f
<1>6. Len(s) \in Nat
  OBVIOUS
<1>7. Off = {}
  <2> SUFFICES ASSUME Off # {} PROVE FALSE
    OBVIOUS
  <2>1. PICK n \in Off : \A i \in Off : n <= i
    <3>1. Off \in SUBSET Nat
      BY <1>6
    <3> HIDE DEF Off
    <3> QED BY <3>1, NatMin
  <2>2. n \in 0 .. Len(s) /\ f[n] # to[n]
    OBVIOUS
  <2>3. f[n] = Joined(s, f, n) /\ to[n] = Joined(s, to, n)
    BY <1>1, <1>5, <2>2 DEF f
  <2>4. n # 0
    BY <2>2, <2>3 DEF Joined
  <2>5. n - 1 \in 0 .. Len(s) /\ ~(n <= n - 1)
    BY <1>6, <2>2, <2>4
  <2>6. f[n - 1] = to[n - 1]
    BY <2>1, <2>5
  <2> QED BY <2>2, <2>3, <2>4, <2>6 DEF Joined
<1>8. \A n \in 0 .. Len(s) : f[n] \in Seq(Nat)
  BY <1>1, <1>7
<1> QED BY <1>5, <1>8 DEF f

(* The part of what is joined that comes from the n-th sequence lies behind *)
(* the lengths of those before it.                                          *)
LEMMA JoinsLength ==
  ASSUME NEW s \in Seq(Seq(Nat)), NEW lens \in Seq(Nat), Len(lens) = Len(s),
         \A k \in 1 .. Len(s) : lens[k] = Len(s[k]), NEW n \in 0 .. Len(s)
  PROVE  Len(RU!Joins(s)[n]) = RU!Sums(lens)[n]
<1> DEFINE J == RU!Joins(s)
           T == RU!Sums(lens)
           Off == {k \in 0 .. Len(s) : Len(J[k]) # T[k]}
<1>1. Len(s) \in Nat /\ \A k \in 1 .. Len(s) : s[k] \in Seq(Nat)
  OBVIOUS
<1>2. \A k \in 0 .. Len(s) : J[k] = Joined(s, J, k) /\ J[k] \in Seq(Nat) /\ T[k] = Added(lens, T, k) /\ T[k] \in Nat
  BY JoinsAre, SumsAre
<1> HIDE DEF J, T
<1>3. Off = {}
  <2> SUFFICES ASSUME Off # {} PROVE FALSE
    OBVIOUS
  <2>1. PICK k \in Off : \A i \in Off : k <= i
    <3>1. Off \in SUBSET Nat
      BY <1>1
    <3> HIDE DEF Off
    <3> QED BY <3>1, NatMin
  <2>2. k \in 0 .. Len(s) /\ Len(J[k]) # T[k]
    OBVIOUS
  <2>3. k # 0
    BY <1>2, <2>2, EmptySeq DEF Joined, Added
  <2>4. k - 1 \in 0 .. Len(s) /\ ~(k <= k - 1) /\ k \in 1 .. Len(s)
    BY <1>1, <2>2, <2>3
  <2>5. Len(J[k - 1]) = T[k - 1]
    BY <2>1, <2>4
  <2>6. J[k] = J[k - 1] \o s[k] /\ T[k] = T[k - 1] + lens[k]
    BY <1>2, <2>3, <2>4 DEF Joined, Added
  <2>7. J[k - 1] \in Seq(Nat) /\ s[k] \in Seq(Nat) /\ lens[k] = Len(s[k])
    BY <1>1, <1>2, <2>4
  <2>8. Len(J[k - 1] \o s[k]) = Len(J[k - 1]) + Len(s[k])
    BY <2>7, ConcatProperties
  <2> QED BY <2>2, <2>5, <2>6, <2>7, <2>8
<1> QED BY <1>3 DEF J, T

LEMMA JoinsGrow ==
  ASSUME NEW s \in Seq(Seq(Nat)), NEW m \in 0 .. Len(s), NEW n \in m .. Len(s)
  PROVE  /\ Len(RU!Joins(s)[m]) <= Len(RU!Joins(s)[n])
         /\ \A i \in 1 .. Len(RU!Joins(s)[m]) : RU!Joins(s)[n][i] = RU!Joins(s)[m][i]
<1> DEFINE J == RU!Joins(s)
           Begins(k) == Len(J[m]) <= Len(J[k]) /\ \A i \in 1 .. Len(J[m]) : J[k][i] = J[m][i]
           Off == {k \in m .. Len(s) : ~Begins(k)}
<1>1. Len(s) \in Nat /\ \A k \in 1 .. Len(s) : s[k] \in Seq(Nat)
  OBVIOUS
<1>2. \A k \in 0 .. Len(s) : J[k] = Joined(s, J, k) /\ J[k] \in Seq(Nat)
  BY JoinsAre
<1> HIDE DEF J
<1>3. Off = {}
  <2> SUFFICES ASSUME Off # {} PROVE FALSE
    OBVIOUS
  <2>1. PICK k \in Off : \A i \in Off : k <= i
    <3>1. Off \in SUBSET Nat
      BY <1>1
    <3> HIDE DEF Off
    <3> QED BY <3>1, NatMin
  <2>2. k \in m .. Len(s) /\ ~Begins(k)
    OBVIOUS
  <2>3. J[m] \in Seq(Nat)
    BY <1>2
  <2>4. k # m
    BY <2>2, <2>3, LenProperties
  <2>5. k - 1 \in m .. Len(s) /\ ~(k <= k - 1) /\ k \in 1 .. Len(s) /\ k \in 0 .. Len(s) /\ k - 1 \in 0 .. Len(s) /\ k # 0
    BY <1>1, <2>2, <2>4
  <2>6. Begins(k - 1)
    <3> HIDE DEF Begins
    <3> QED BY <2>1, <2>5
  <2>7. J[k] = J[k - 1] \o s[k] /\ J[k - 1] \in Seq(Nat) /\ s[k] \in Seq(Nat)
    BY <1>1, <1>2, <2>5 DEF Joined
  <2>8. Len(J[k]) = Len(J[k - 1]) + Len(s[k]) /\ \A i \in 1 .. Len(J[k - 1]) : J[k][i] = J[k - 1][i]
    <3>1. \A i \in 1 .. Len(J[k - 1]) + Len(s[k]) :
            (J[k - 1] \o s[k])[i] = IF i <= Len(J[k - 1]) THEN J[k - 1][i] ELSE s[k][i - Len(J[k - 1])]
      BY <2>7, ConcatProperties
    <3>2. Len(J[k - 1]) \in Nat /\ Len(s[k]) \in Nat
      BY <2>7, LenProperties
    <3>3. \A i \in 1 .. Len(J[k - 1]) : i \in 1 .. Len(J[k - 1]) + Len(s[k]) /\ i <= Len(J[k - 1])
      <4> DEFINE a == Len(J[k - 1])
                 b == Len(s[k])
      <4>1. a \in Nat /\ b \in Nat
        BY <3>2
      <4> HIDE DEF a, b
      <4>2. \A i \in 1 .. a : i \in 1 .. a + b /\ i <= a
        BY <4>1
      <4> QED BY <4>2 DEF a, b
    <3>4. Len(J[k - 1] \o s[k]) = Len(J[k - 1]) + Len(s[k])
      BY <2>7, ConcatProperties
    <3> QED BY <2>7, <3>1, <3>3, <3>4
  <2>9. Len(J[k - 1]) \in Nat /\ Len(s[k]) \in Nat /\ Len(J[m]) \in Nat
    BY <2>3, <2>7, LenProperties
  <2>10. Begins(k)
    <3> DEFINE a == Len(J[k - 1])
               b == Len(s[k])
               c == Len(J[m])
    <3>0. a \in Nat /\ b \in Nat /\ c \in Nat /\ c <= a /\ Len(J[k]) = a + b
      BY <2>6, <2>8, <2>9
    <3> HIDE DEF a, b, c
    <3>1. Len(J[m]) <= Len(J[k])
      <4>1. c <= a + b
        BY <3>0
      <4> QED BY <3>0, <4>1 DEF c
    <3>2. ASSUME NEW i \in 1 .. Len(J[m]) PROVE J[k][i] = J[m][i]
      <4>1. i \in 1 .. Len(J[k - 1])
        <5>1. i \in 1 .. c => i \in 1 .. a
          BY <3>0
        <5> QED BY <5>1 DEF a, c
      <4> QED BY <2>6, <2>8, <4>1
    <3> QED BY <3>1, <3>2
  <2> QED BY <2>2, <2>10
<1>4. Begins(n)
  <2> HIDE DEF Begins
  <2> QED BY <1>3
<1> QED BY <1>4 DEF J

LEMMA JoinsHold ==
  ASSUME NEW s \in Seq(Seq(Nat)), NEW lens \in Seq(Nat), Len(lens) = Len(s),
         \A k \in 1 .. Len(s) : lens[k] = Len(s[k]),
         NEW front \in Seq(Nat), NEW t \in 1 .. Len(s)
  PROVE  SubSeq(front \o RU!Joins(s)[Len(s)], Len(front) + RU!Sums(lens)[t - 1] + 1,
                Len(front) + RU!Sums(lens)[t - 1] + Len(s[t])) = s[t]
<1> DEFINE J == RU!Joins(s)
           N == Len(s)
           at == RU!Sums(lens)[t - 1]
           all == front \o J[N]
<1>1. N \in Nat /\ N \in 0 .. N /\ t \in 0 .. N /\ t - 1 \in 0 .. N /\ t # 0 /\ N \in t .. N /\ s[t] \in Seq(Nat)
  OBVIOUS
<1>2. J[N] \in Seq(Nat) /\ J[t] \in Seq(Nat) /\ J[t - 1] \in Seq(Nat) /\ J[t] = J[t - 1] \o s[t]
  BY <1>1, JoinsAre DEF Joined
<1>3. at = Len(J[t - 1])
  BY <1>1, JoinsLength
<1>4. Len(J[t]) <= Len(J[N]) /\ \A i \in 1 .. Len(J[t]) : J[N][i] = J[t][i]
  BY <1>1, JoinsGrow
<1> HIDE DEF J, at

<1> DEFINE f == Len(front)
           n == Len(s[t])
           all2 == Len(J[N])
           upto == Len(J[t])
<1>5. f \in Nat /\ n \in Nat /\ at \in Nat /\ all2 \in Nat /\ upto \in Nat
  BY <1>1, <1>2, <1>3, LenProperties
<1>6. upto = at + n
  BY <1>1, <1>2, <1>3, ConcatProperties
<1>7. \A i \in 1 .. at + n : J[t][i] = IF i <= at THEN J[t - 1][i] ELSE s[t][i - at]
  <2>1. \A i \in 1 .. Len(J[t - 1]) + Len(s[t]) :
          (J[t - 1] \o s[t])[i] = IF i <= Len(J[t - 1]) THEN J[t - 1][i] ELSE s[t][i - Len(J[t - 1])]
    BY <1>1, <1>2, ConcatProperties
  <2> QED BY <1>2, <1>3, <2>1
<1>8. /\ all \in Seq(Nat) /\ Len(all) = f + all2
      /\ \A i \in 1 .. f + all2 : all[i] = IF i <= f THEN front[i] ELSE J[N][i - f]
  BY <1>2, ConcatProperties
<1>9. upto <= all2 /\ \A i \in 1 .. upto : J[N][i] = J[t][i]
  BY <1>4
<1> HIDE DEF all, f, n, all2, upto
<1>10. \A i \in 1 .. n : all[f + at + i] = s[t][i]
  <2> SUFFICES ASSUME NEW i \in 1 .. n PROVE all[f + at + i] = s[t][i]
    OBVIOUS
  <2> DEFINE x == f + at + i
             y == at + i
  <2>2. x \in 1 .. f + all2 /\ ~(x <= f) /\ x - f = y /\ y \in 1 .. upto /\ y \in 1 .. at + n /\ ~(y <= at) /\ y - at = i
    BY <1>5, <1>6, <1>9
  <2> HIDE DEF x, y
  <2>3. all[x] = J[N][x - f]
    BY <1>8, <2>2
  <2>4. J[N][y] = J[t][y]
    BY <1>9, <2>2
  <2>5. J[t][y] = s[t][y - at]
    BY <1>7, <2>2
  <2>6. all[x] = s[t][i]
    BY <2>2, <2>3, <2>4, <2>5
  <2> QED BY <2>6 DEF x
<1> DEFINE lo == f + at + 1
           hi == f + at + n
           part == SubSeq(all, lo, hi)
<1>11. /\ lo \in Int /\ hi \in Int /\ \A i \in lo .. hi : i \in 1 .. f + all2
       /\ hi - lo + 1 = n /\ (~(lo <= hi) => n = 0) /\ \A i \in 1 .. n : lo + i - 1 = f + at + i
  BY <1>5, <1>6, <1>9
<1>12. \A i \in lo .. hi : all[i] \in Nat
  <2>1. \A i \in 1 .. f + all2 : all[i] \in Nat
    BY <1>8, LenProperties
  <2> QED BY <1>11, <2>1
<1>13. /\ part \in Seq(Nat) /\ Len(part) = IF lo <= hi THEN hi - lo + 1 ELSE 0
       /\ \A i \in 1 .. hi - lo + 1 : part[i] = all[lo + i - 1]
  <2> HIDE DEF lo, hi
  <2> QED BY <1>11, <1>12, SubSeqProperties
<1>14. Len(part) = n /\ \A i \in 1 .. n : part[i] = all[f + at + i]
  <2> HIDE DEF lo, hi
  <2> QED BY <1>5, <1>11, <1>13
<1> HIDE DEF part
<1>15. \A i \in 1 .. Len(part) : part[i] = s[t][i]
  BY <1>10, <1>14
<1>16. part = s[t]
  BY <1>1, <1>13, <1>14, <1>15, SeqEqual DEF n
<1> QED BY <1>16 DEF part, lo, hi, f, n, all, at, J

-----------------------------------------------------------------------------
(* The arguments of a thread: its tensors, the scratch memory, semaphores. *)

More(k) == IF k.scratch > 0 THEN 1 ELSE 0

LEMMA ExtraArgsAre ==
  ASSUME NEW k \in RU!Kernels(Paths), NEW S, "scratch" \in S, {"semaphore"} \X Nat \subseteq S
  PROVE  /\ RU!ExtraArgs(k) \in Seq(S) /\ Len(RU!ExtraArgs(k)) = More(k) + k.globals
         /\ k.scratch > 0 => RU!ExtraArgs(k)[1] = "scratch"
         /\ \A i \in 0 .. k.globals - 1 : RU!ExtraArgs(k)[More(k) + i + 1] = <<"semaphore", i>>
<1> DEFINE scratch == RU!ScratchTensors(k)
           semaphores == RU!GlobalSemaphores(k)
           g == k.globals
           m == More(k)
<1>1. k.scratch \in Nat /\ g \in Nat /\ m \in Nat
  BY DEF RU!Kernels, More
<1>2. scratch \in Seq(S) /\ Len(scratch) = m /\ (k.scratch > 0 => scratch[1] = "scratch")
  BY <1>1 DEF RU!ScratchTensors, More
<1>3. semaphores \in Seq(S) /\ Len(semaphores) = g /\ \A i \in 1 .. g : semaphores[i] = <<"semaphore", i - 1>>
  <2>1. semaphores = [i \in 1 .. g |-> <<"semaphore", i - 1>>]
    BY DEF RU!GlobalSemaphores
  <2>2. \A i \in 1 .. g : <<"semaphore", i - 1>> \in S
    BY <1>1
  <2> HIDE DEF semaphores, g
  <2> QED BY <1>1, <2>1, <2>2
<1>4. RU!ExtraArgs(k) = scratch \o semaphores
  BY DEF RU!ExtraArgs
<1> HIDE DEF scratch, semaphores, g, m
<1>5. /\ scratch \o semaphores \in Seq(S) /\ Len(scratch \o semaphores) = m + g
      /\ \A i \in 1 .. m + g : (scratch \o semaphores)[i] = IF i <= m THEN scratch[i] ELSE semaphores[i - m]
  BY <1>2, <1>3, ConcatProperties
<1>6. k.scratch > 0 => (scratch \o semaphores)[1] = "scratch"
  <2> SUFFICES ASSUME k.scratch > 0 PROVE (scratch \o semaphores)[1] = "scratch"
    OBVIOUS
  <2>1. m = 1
    BY DEF m, More
  <2>2. 1 \in 1 .. m + g /\ 1 <= m
    BY <1>1, <2>1
  <2> QED BY <1>2, <1>5, <2>2
<1>7. \A i \in 0 .. g - 1 : (scratch \o semaphores)[m + i + 1] = <<"semaphore", i>>
  <2> SUFFICES ASSUME NEW i \in 0 .. g - 1 PROVE (scratch \o semaphores)[m + i + 1] = <<"semaphore", i>>
    OBVIOUS
  <2> DEFINE x == m + i + 1
             y == i + 1
  <2>1. x \in 1 .. m + g /\ ~(x <= m) /\ x - m = y /\ y \in 1 .. g /\ y - 1 = i
    BY <1>1
  <2> HIDE DEF x, y
  <2>2. (scratch \o semaphores)[x] = semaphores[y]
    BY <1>5, <2>1
  <2>3. semaphores[y] = <<"semaphore", i>>
    BY <1>3, <2>1
  <2> QED BY <2>2, <2>3 DEF x
<1> QED BY <1>4, <1>5, <1>6, <1>7 DEF g, m

LEMMA ThreadsFindTheirs ==
  ASSUME NEW k \in RU!Kernels(Paths), NEW tensors \in Seq(RU!Tensors(Addresses)), RU!IndicesOk(k, tensors),
         NEW n \in DOMAIN k.specs
  PROVE  LET spec == k.specs[n]
             args == RU!KernelDescriptor(spec, tensors, k).commonRuntime
         IN  /\ \A i \in DOMAIN spec.indices :
                  args[RU!LooksUpRuntime(k, spec, "tensor", i - 1) + 1] = tensors[spec.indices[i] + 1].address
             /\ k.scratch > 0 => args[RU!LooksUpRuntime(k, spec, "scratch", 0) + 1] = "scratch"
             /\ \A i \in 0 .. k.globals - 1 :
                  args[RU!LooksUpRuntime(k, spec, "semaphore", i) + 1] = <<"semaphore", i>>
<1> DEFINE spec == k.specs[n]
           S == Addresses \cup {"scratch"} \cup ({"semaphore"} \X Nat)
           own == [i \in DOMAIN spec.indices |-> tensors[spec.indices[i] + 1].address]
           len == Len(spec.indices)
           extra == RU!ExtraArgs(k)
           g == k.globals
           m == More(k)
           args == own \o extra
<1>1. spec \in RU!Specs(Paths) /\ g \in Nat /\ m \in Nat /\ spec \in RU!Range(k.specs)
  BY DEF RU!Kernels, More, RU!Range
<1>2. spec.indices \in Seq(Nat)
  BY <1>1 DEF RU!Specs
<1> HIDE DEF spec
<1>3. len \in Nat /\ DOMAIN spec.indices = 1 .. len /\ \A i \in 1 .. len : spec.indices[i] \in Nat
  BY <1>2
<1>4. \A i \in 1 .. len : tensors[spec.indices[i] + 1].address \in Addresses
  <2> SUFFICES ASSUME NEW i \in 1 .. len PROVE tensors[spec.indices[i] + 1].address \in Addresses
    OBVIOUS
  <2>1. spec.indices[i] < Len(tensors)
    BY <1>1, <1>3 DEF RU!IndicesOk
  <2>2. spec.indices[i] + 1 \in 1 .. Len(tensors)
    BY <1>3, <2>1
  <2>3. tensors[spec.indices[i] + 1] \in RU!Tensors(Addresses)
    BY <2>2
  <2> QED BY <2>3 DEF RU!Tensors
<1>5. own \in Seq(S) /\ Len(own) = len /\ \A i \in 1 .. len : own[i] = tensors[spec.indices[i] + 1].address
  BY <1>3, <1>4
<1>6. /\ extra \in Seq(S) /\ Len(extra) = m + g /\ (k.scratch > 0 => extra[1] = "scratch")
      /\ \A i \in 0 .. g - 1 : extra[m + i + 1] = <<"semaphore", i>>
  <2>1. "scratch" \in S /\ {"semaphore"} \X Nat \subseteq S
    OBVIOUS
  <2> HIDE DEF S
  <2> QED BY <2>1, ExtraArgsAre
<1>7. RU!KernelDescriptor(spec, tensors, k).commonRuntime = args
  BY DEF RU!KernelDescriptor
<1> HIDE DEF own, extra, len, S, g, m
<1>8. \A i \in 1 .. len + (m + g) : args[i] = IF i <= len THEN own[i] ELSE extra[i - len]
  <2>1. \A i \in 1 .. Len(own) + Len(extra) :
          (own \o extra)[i] = IF i <= Len(own) THEN own[i] ELSE extra[i - Len(own)]
    BY <1>5, <1>6, ConcatProperties
  <2>2. Len(own) = len /\ Len(extra) = m + g
    BY <1>5, <1>6
  <2> QED BY <2>1, <2>2 DEF args
<1> HIDE DEF args
<1>9. ASSUME NEW i \in 1 .. len PROVE args[RU!LooksUpRuntime(k, spec, "tensor", i - 1) + 1] = tensors[spec.indices[i] + 1].address
  <2>1. RU!LooksUpRuntime(k, spec, "tensor", i - 1) + 1 = i /\ i \in 1 .. len + (m + g) /\ i <= len
    BY <1>1, <1>3 DEF RU!LooksUpRuntime
  <2> QED BY <1>5, <1>8, <2>1
<1>10. ASSUME k.scratch > 0 PROVE args[RU!LooksUpRuntime(k, spec, "scratch", 0) + 1] = "scratch"
  <2>1. m = 1
    BY <1>10 DEF m, More
  <2>2. RU!LooksUpRuntime(k, spec, "scratch", 0) = len
    BY DEF RU!LooksUpRuntime, len
  <2> DEFINE x == len + 1
  <2>3. x \in 1 .. len + (m + g) /\ ~(x <= len) /\ x - len = 1
    BY <1>1, <1>3, <2>1
  <2> HIDE DEF x
  <2>4. args[x] = extra[1]
    BY <1>8, <2>3
  <2> QED BY <1>6, <1>10, <2>2, <2>4 DEF x
<1>11. ASSUME NEW i \in 0 .. g - 1 PROVE args[RU!LooksUpRuntime(k, spec, "semaphore", i) + 1] = <<"semaphore", i>>
  <2>1. RU!LooksUpRuntime(k, spec, "semaphore", i) = len + m + i
    BY DEF RU!LooksUpRuntime, len, m, More
  <2> DEFINE x == len + m + i + 1
             y == m + i + 1
  <2>2. x \in 1 .. len + (m + g) /\ ~(x <= len) /\ x - len = y
    BY <1>1, <1>3
  <2> HIDE DEF x
  <2>3. args[x] = extra[x - len]
    BY <1>8, <2>2
  <2> HIDE DEF y
  <2>4. args[x] = extra[y]
    BY <2>2, <2>3
  <2>5. extra[y] = <<"semaphore", i>>
    BY <1>6 DEF y
  <2> QED BY <2>1, <2>4, <2>5 DEF x
<1> QED BY <1>3, <1>7, <1>9, <1>10, <1>11 DEF spec, g

LEMMA AccessorsAreFound ==
  ASSUME NEW k \in RU!Kernels(Paths), NEW tensors \in Seq(RU!Tensors(Addresses)),
         NEW n \in DOMAIN k.specs, k.specs[n].type # "compute", NEW t \in DOMAIN tensors
  PROVE  LET from == RU!LooksUpAccessor(k, tensors, t - 1)
         IN  SubSeq(RU!KernelDescriptor(k.specs[n], tensors, k).compileTime, from + 1, from + Len(tensors[t].accessor))
               = tensors[t].accessor
<1> DEFINE front == [i \in 1 .. Len(k.cbs) |-> i - 1]
           accessors == [i \in DOMAIN tensors |-> tensors[i].accessor]
           lens == [j \in DOMAIN tensors |-> Len(tensors[j].accessor)]
<1>1. k.cbs \in Seq(RU!Cbs)
  BY DEF RU!Kernels
<1>2. Len(k.cbs) \in Nat
  BY <1>1
<1>3. front \in Seq(Nat) /\ Len(front) = Len(k.cbs)
  BY <1>2
<1>4. Len(tensors) \in Nat /\ DOMAIN tensors = 1 .. Len(tensors)
      /\ \A i \in 1 .. Len(tensors) : tensors[i].accessor \in Seq(Nat) /\ Len(tensors[i].accessor) \in Nat
  <2>1. \A i \in 1 .. Len(tensors) : tensors[i] \in RU!Tensors(Addresses)
    OBVIOUS
  <2>2. \A i \in 1 .. Len(tensors) : tensors[i].accessor \in Seq(Nat)
    BY <2>1 DEF RU!Tensors
  <2> QED BY <2>2, LenProperties
<1>5. accessors \in Seq(Seq(Nat)) /\ lens \in Seq(Nat) /\ Len(lens) = Len(accessors) /\ Len(accessors) = Len(tensors)
  BY <1>4
<1>6. \A i \in 1 .. Len(accessors) : lens[i] = Len(accessors[i])
  BY <1>4, <1>5
<1>7. t \in 1 .. Len(accessors) /\ accessors[t] = tensors[t].accessor
  BY <1>4, <1>5
<1>8. RU!KernelDescriptor(k.specs[n], tensors, k).compileTime = front \o RU!Joins(accessors)[Len(accessors)]
  BY DEF RU!KernelDescriptor, RU!AccessorArgs, RU!Concat
<1>9. RU!LooksUpAccessor(k, tensors, t - 1) = Len(front) + RU!Sums(lens)[t - 1]
  BY <1>3 DEF RU!LooksUpAccessor
<1> HIDE DEF front, accessors, lens
<1>10. SubSeq(front \o RU!Joins(accessors)[Len(accessors)], Len(front) + RU!Sums(lens)[t - 1] + 1,
              Len(front) + RU!Sums(lens)[t - 1] + Len(accessors[t])) = accessors[t]
  BY <1>3, <1>5, <1>6, <1>7, JoinsHold
<1> QED BY <1>7, <1>8, <1>9, <1>10

-----------------------------------------------------------------------------
(* The buffers of a launch and what else is in the L1 of a core.           *)

LEMMA Product == \A x, y \in Nat : x * y \in Nat
OBVIOUS

LEMMA AllocateIs ==
  ASSUME SemaphoreBytes \in Nat, NEW k \in RU!Kernels(Paths), NEW device \in RU!Devices(DeviceCores)
  PROVE  RU!Allocate(device, k).limit = device.limit /\ RU!Allocate(device, k).l1 \in [DeviceCores -> Nat]
<1> DEFINE aligned == RU!AlignUp(k.scratch, 32) \div 4
           perCore == RU!ScratchPerCore(k.scratch)
           more == (IF k.scratch <= 0 THEN 0 ELSE perCore) + k.globals * SemaphoreBytes
<1>1. k.scratch \in Nat /\ k.globals \in Nat
  BY DEF RU!Kernels
<1>2. device \in [limit : Nat, l1 : [DeviceCores -> Nat]]
  BY DEF RU!Devices
<1>3. perCore \in Nat
  <2>1. aligned \in Nat
    <3>1. RU!AlignUp(k.scratch, 32) = ((k.scratch + 32 - 1) \div 32) * 32
      BY DEF RU!AlignUp
    <3> DEFINE a == ((k.scratch + 32 - 1) \div 32) * 32
    <3>2. a \in Nat
      BY <1>1
    <3> HIDE DEF a
    <3>3. a \div 4 \in Nat
      BY <3>2
    <3> QED BY <3>1, <3>3 DEF a
  <2> HIDE DEF aligned
  <2>2. RU!Max({1, aligned}) \in {1, aligned}
    <3> DEFINE x == IF aligned >= 1 THEN aligned ELSE 1
    <3>1. x \in {1, aligned} /\ \A y \in {1, aligned} : x >= y
      BY <2>1
    <3> HIDE DEF x
    <3> QED BY <3>1 DEF RU!Max
  <2>3. RU!Max({1, aligned}) \in Nat
    BY <2>1, <2>2
  <2> DEFINE b == RU!Max({1, aligned})
  <2>4. perCore = 4 * b
    BY DEF RU!ScratchPerCore, aligned
  <2> HIDE DEF b, perCore
  <2>5. b \in Nat
    BY <2>3 DEF b
  <2> QED BY <2>4, <2>5
<1> HIDE DEF perCore
<1>4. k.globals * SemaphoreBytes \in Nat
  BY <1>1, Product
<1>5. more \in Nat
  BY <1>3, <1>4
<1>6. RU!Allocate(device, k) =
        [device EXCEPT !.l1 = [c \in DOMAIN @ |-> IF c \in RU!Cores(k.grid) THEN @[c] + more ELSE @[c]]]
  BY DEF RU!Allocate, perCore
<1> HIDE DEF more
<1>7. DOMAIN device.l1 = DeviceCores /\ \A c \in DeviceCores : device.l1[c] \in Nat /\ device.l1[c] + more \in Nat
  BY <1>2, <1>5
<1> DEFINE l1 == [c \in DeviceCores |-> IF c \in RU!Cores(k.grid) THEN device.l1[c] + more ELSE device.l1[c]]
<1>8. l1 \in [DeviceCores -> Nat]
  BY <1>7
<1>9. RU!Allocate(device, k) = [device EXCEPT !.l1 = l1]
  BY <1>6, <1>7
<1> HIDE DEF l1
<1> QED BY <1>2, <1>8, <1>9

LEMMA BytesAreNat ==
  ASSUME NEW k \in RU!Kernels(Paths), \A i \in DOMAIN k.cbs : RU!CbOk(k.cbs[i])
  PROVE  RU!TotalBytes(k.cbs) \in Nat
<1> DEFINE sizes == [i \in DOMAIN k.cbs |-> RU!CbDescriptor(k.cbs, i).total]
<1>1. k.cbs \in Seq(RU!Cbs)
  BY DEF RU!Kernels
<1>2. ASSUME NEW i \in DOMAIN k.cbs PROVE sizes[i] \in Nat
  <2> DEFINE cb == k.cbs[i]
             page == RU!TileBytesOf(RU!FormatOf(cb))
  <2>1. cb \in RU!Cbs /\ RU!CbOk(cb)
    BY <1>1, <1>2
  <2> HIDE DEF cb
  <2>2. RU!CbTiles(cb) \in Nat /\ cb.blocks \in Nat
    <3>1. cb.blocks \in Nat
      BY <2>1 DEF RU!Cbs
    <3>2. CASE cb.kind = "compiler"
      BY <2>1, <3>2 DEF RU!Cbs, RU!CbTiles
    <3>3. CASE cb.kind # "compiler"
      <4> DEFINE Shapes == {s \in Seq(Nat) : Len(s) >= 2}
                 Bound == [kind : {"bound", "none"}, format : RU!Formats, shape : Shapes, blocks : Nat]
                 OfCompiler == [kind : {"compiler"}, format : RU!FormatNames, tiles : Nat, blocks : Nat]
      <4>5. cb \in Bound => cb.shape \in Shapes
        OBVIOUS
      <4>6. cb \in OfCompiler => cb.kind = "compiler"
        OBVIOUS
      <4>7. cb \in Bound \/ cb \in OfCompiler
        BY <2>1 DEF RU!Cbs
      <4>8. cb.shape \in Shapes
        <5> HIDE DEF Shapes, Bound, OfCompiler
        <5> QED BY <3>3, <4>5, <4>6, <4>7
      <4>1. cb.shape \in Seq(Nat) /\ Len(cb.shape) >= 2
        BY <4>8
      <4>2. cb.shape[1] \in Nat /\ cb.shape[2] \in Nat
        BY <4>1
      <4>3. cb.shape[1] * cb.shape[2] \in Nat
        BY <4>2, Product
      <4>4. RU!CbTiles(cb) = cb.shape[1] * cb.shape[2]
        BY <3>3, Zenon DEF RU!CbTiles
      <4> QED BY <3>1, <4>3, <4>4, Zenon
    <3> QED BY <3>1, <3>2, <3>3
  <2>3. RU!FormatOf(cb) \in RU!Formats
    <3>1. CASE cb.kind = "compiler"
      <4>1. cb.format \in RU!FormatNames
        BY <2>1, <3>1 DEF RU!CbOk
      <4> QED BY <3>1, <4>1 DEF RU!FormatOf, RU!FormatOfName, RU!FormatNames, RU!Formats
    <3>2. CASE cb.kind # "compiler"
      <4>1. cb.format \in RU!Formats
        BY <2>1, <3>2 DEF RU!Cbs
      <4> QED BY <3>2, <4>1 DEF RU!FormatOf
    <3> QED BY <3>1, <3>2
  <2>4. page \in Nat
    <3> DEFINE f == RU!FormatOf(cb)
    <3>1. f \in {"bfloat16", "uint16", "float32", "int32", "uint32", "bfloat8_b", "uint8", "bfloat4_b"}
      BY <2>3 DEF RU!Formats
    <3> HIDE DEF f
    <3>2. RU!TileBytesOf(f) \in Nat
      BY <3>1 DEF RU!TileBytesOf
    <3> QED BY <3>2 DEF f
  <2>5. sizes[i] = RU!CbTiles(cb) * cb.blocks * page
    BY <1>2 DEF RU!CbDescriptor, cb
  <2> HIDE DEF page, sizes
  <2>6. RU!CbTiles(cb) * cb.blocks \in Nat
    BY <2>2, Product
  <2>7. RU!CbTiles(cb) * cb.blocks * page \in Nat
    BY <2>4, <2>6, Product
  <2> QED BY <2>5, <2>7
<1>3. Len(k.cbs) \in Nat /\ DOMAIN k.cbs = 1 .. Len(k.cbs)
  BY <1>1
<1>4. DOMAIN sizes = 1 .. Len(k.cbs)
  BY <1>3
<1>5. RU!TotalBytes(k.cbs) = RU!Sums(sizes)[Len(sizes)]
  BY DEF RU!TotalBytes, RU!Bytes
<1>6. sizes = [i \in 1 .. Len(k.cbs) |-> sizes[i]]
  BY <1>4
<1> HIDE DEF sizes
<1>7. sizes \in Seq(Nat) /\ Len(sizes) = Len(k.cbs)
  BY <1>2, <1>3, <1>6
<1>8. Len(sizes) \in 0 .. Len(sizes)
  BY <1>3, <1>7
<1> QED BY <1>5, <1>7, <1>8, SumsAre

LEMMA BuffersFit ==
  ASSUME SemaphoreBytes \in Nat, DeviceCores # {},
         NEW k \in RU!Kernels(Paths), NEW device \in RU!Devices(DeviceCores), RU!AllocationOk(device, k),
         \A i \in DOMAIN k.cbs : RU!CbOk(k.cbs[i]), RU!TotalBytes(k.cbs) <= RU!MinRemainingL1(RU!Allocate(device, k))
  PROVE  \A core \in DOMAIN device.l1 : RU!Allocate(device, k).l1[core] + RU!TotalBytes(k.cbs) <= device.limit
<1> DEFINE limit == device.limit
           l1 == RU!Allocate(device, k).l1
           used == RU!Range(l1)
           left == {limit - u : u \in used}
           total == RU!TotalBytes(k.cbs)
<1>1. limit \in Nat /\ DOMAIN device.l1 = DeviceCores
  BY DEF RU!Devices
<1>2. l1 \in [DeviceCores -> Nat] /\ RU!Allocate(device, k).limit = limit
  BY AllocateIs
<1>3. \A c \in DeviceCores : l1[c] <= limit
  BY <1>1 DEF RU!AllocationOk
<1>4. total \in Nat
  BY BytesAreNat
<1>5. total <= RU!Max({0, limit - RU!Max(used)})
  BY <1>2 DEF RU!MinRemainingL1
<1> HIDE DEF limit, l1, total
<1>6. used = {l1[c] : c \in DeviceCores}
  BY <1>2 DEF RU!Range
<1> HIDE DEF used
<1>7. \A u \in used : u \in Nat /\ u <= limit
  BY <1>2, <1>3, <1>6
<1>8. left \in SUBSET Nat /\ left # {}
  <2>1. \A u \in used : limit - u \in Nat
    BY <1>1, <1>7
  <2>2. used # {}
    BY <1>6
  <2> QED BY <2>1, <2>2
<1>9. PICK least \in left : \A x \in left : least <= x
  <2> HIDE DEF left
  <2> QED BY <1>8, NatMin
<1>10. PICK most \in used : least = limit - most
  BY <1>9
<1>11. \A u \in used : most >= u
  <2> SUFFICES ASSUME NEW u \in used PROVE most >= u
    OBVIOUS
  <2>1. limit - most <= limit - u
    BY <1>9, <1>10
  <2> QED BY <1>1, <1>7, <2>1
<1> DEFINE m == RU!Max(used)
<1>12. m \in used /\ \A u \in used : m >= u
  BY <1>11 DEF RU!Max
<1> HIDE DEF m
<1> DEFINE r == RU!Max({0, limit - m})
<1>13. r \in {0, limit - m} /\ r >= 0 /\ r >= limit - m
  <2> DEFINE x == limit - m
  <2>1. x \in Nat
    BY <1>1, <1>7, <1>12
  <2> HIDE DEF x
  <2>2. x \in {0, x} /\ \A y \in {0, x} : x >= y
    BY <2>1
  <2>3. RU!Max({0, x}) \in {0, x} /\ \A y \in {0, x} : RU!Max({0, x}) >= y
    BY <2>2 DEF RU!Max
  <2> QED BY <2>3 DEF x
<1>14. r = limit - m
  BY <1>1, <1>7, <1>12, <1>13
<1>15. total <= limit - m
  BY <1>5, <1>14 DEF m
<1>16. ASSUME NEW c \in DeviceCores PROVE l1[c] + total <= limit
  <2>1. l1[c] \in used
    BY <1>6
  <2>2. l1[c] \in Nat /\ m \in Nat /\ m >= l1[c]
    BY <1>7, <1>12, <2>1
  <2> QED BY <1>1, <1>4, <1>15, <2>2
<1> QED BY <1>1, <1>16 DEF l1, total, limit

LEMMA TwoTensors ==
  ASSUME NEW k \in RU!Kernels(Paths), NEW tensors \in Seq(RU!Tensors(Addresses)), tensors # <<>> \/ k.scratch > 0
  PROVE  Len(RU!IoTensors(tensors, k)) >= 2
<1> DEFINE S == Addresses \cup {"scratch"}
           own == [i \in DOMAIN tensors |-> tensors[i].address]
           scratch == RU!ScratchTensors(k)
           io == own \o scratch
           last == io[Len(io)]
<1>1. own \in Seq(S) /\ Len(own) = Len(tensors) /\ Len(tensors) \in Nat /\ (tensors # <<>> => Len(tensors) >= 1)
  <2>1. \A i \in 1 .. Len(tensors) : tensors[i] \in RU!Tensors(Addresses)
    OBVIOUS
  <2>2. \A i \in 1 .. Len(tensors) : tensors[i].address \in S
    BY <2>1 DEF RU!Tensors
  <2> QED BY <2>2
<1>2. k.scratch \in Nat
  BY DEF RU!Kernels
<1>3. scratch \in Seq(S) /\ Len(scratch) \in Nat /\ (k.scratch > 0 => Len(scratch) = 1)
  <2>1. "scratch" \in S
    OBVIOUS
  <2> HIDE DEF S
  <2>2. <<"scratch">> \in Seq(S) /\ Len(<<"scratch">>) = 1
    BY <2>1
  <2>3. CASE k.scratch > 0
    <3>1. scratch = <<"scratch">>
      BY <1>2, <2>3 DEF RU!ScratchTensors
    <3> QED BY <2>2, <3>1
  <2>4. CASE ~(k.scratch > 0)
    <3>1. scratch = <<>>
      BY <1>2, <2>4 DEF RU!ScratchTensors
    <3> QED BY <2>4, <3>1, EmptySeq
  <2> QED BY <2>3, <2>4
<1> HIDE DEF own, scratch, S
<1>4. io \in Seq(S) /\ Len(io) = Len(own) + Len(scratch)
  BY <1>1, <1>3, ConcatProperties
<1>5. Len(io) \in Nat /\ Len(io) >= 1
  BY <1>1, <1>3, <1>4
<1> HIDE DEF io
<1>6. last \in S
  BY <1>4, <1>5
<1>7. <<last>> \in Seq(S) /\ Len(<<last>>) = 1
  BY <1>6
<1>8. Len(<<last>> \o io) = 1 + Len(io)
  BY <1>4, <1>7, ConcatProperties
<1>9. RU!IoTensors(tensors, k) = IF Len(io) < 2 THEN <<last>> \o io ELSE io
  BY DEF RU!IoTensors, RU!Last, io, own, scratch
<1> QED BY <1>5, <1>8, <1>9

LEMMA LaunchHoldsTogether ==
  ASSUME SemaphoreBytes \in Nat, DeviceCores # {},
         NEW k \in RU!Kernels(Paths), NEW tensors \in Seq(RU!Tensors(Addresses)), NEW device \in RU!Devices(DeviceCores)
  PROVE  RU!ProgramHoldsTogether(k, tensors, device)
<1> DEFINE program == RU!RunKernelOnDevice(k, tensors, device)
<1> SUFFICES ASSUME program # RU!NoProgram PROVE RU!ProgramHoldsTogether(k, tensors, device)
  BY DEF RU!ProgramHoldsTogether
<1>1. RU!Runs(k, tensors, device) /\ program = RU!ProgramOf(k, RU!CbDescriptors(k.cbs), tensors)
  BY DEF RU!RunKernelOnDevice
<1> HIDE DEF program
<1>2. \A n \in DOMAIN k.specs : program.kernels[n] = RU!KernelDescriptor(k.specs[n], tensors, k)
  BY <1>1 DEF RU!ProgramOf
<1>3. program.io = RU!IoTensors(tensors, k)
  BY <1>1 DEF RU!ProgramOf
<1>4. /\ RU!IndicesOk(k, tensors) /\ RU!AllocationOk(device, k) /\ \A i \in DOMAIN k.cbs : RU!CbOk(k.cbs[i])
      /\ RU!TotalBytes(k.cbs) <= RU!Remaining(tensors, RU!Allocate(device, k))
      /\ tensors # <<>> \/ k.scratch > 0
  BY <1>1 DEF RU!Runs
<1>5. ASSUME NEW n \in DOMAIN k.specs
      PROVE  LET spec == k.specs[n]
                 args == program.kernels[n].commonRuntime
             IN  /\ \A i \in DOMAIN spec.indices :
                      args[RU!LooksUpRuntime(k, spec, "tensor", i - 1) + 1] = tensors[spec.indices[i] + 1].address
                 /\ k.scratch > 0 => args[RU!LooksUpRuntime(k, spec, "scratch", 0) + 1] = "scratch"
                 /\ \A i \in 0 .. k.globals - 1 :
                      args[RU!LooksUpRuntime(k, spec, "semaphore", i) + 1] = <<"semaphore", i>>
  <2> DEFINE descriptor == RU!KernelDescriptor(k.specs[n], tensors, k)
  <2>1. program.kernels[n] = descriptor
    BY <1>2
  <2>2. LET spec == k.specs[n]
            args == descriptor.commonRuntime
        IN  /\ \A i \in DOMAIN spec.indices :
                 args[RU!LooksUpRuntime(k, spec, "tensor", i - 1) + 1] = tensors[spec.indices[i] + 1].address
            /\ k.scratch > 0 => args[RU!LooksUpRuntime(k, spec, "scratch", 0) + 1] = "scratch"
            /\ \A i \in 0 .. k.globals - 1 :
                 args[RU!LooksUpRuntime(k, spec, "semaphore", i) + 1] = <<"semaphore", i>>
    BY <1>4, ThreadsFindTheirs
  <2> HIDE DEF descriptor
  <2> QED BY <2>1, <2>2
<1>6. ASSUME NEW n \in DOMAIN k.specs, k.specs[n].type # "compute", NEW t \in DOMAIN tensors
      PROVE  LET from == RU!LooksUpAccessor(k, tensors, t - 1)
             IN  SubSeq(program.kernels[n].compileTime, from + 1, from + Len(tensors[t].accessor)) = tensors[t].accessor
  BY <1>2, <1>6, AccessorsAreFound
<1>7. RU!OnDevice(tensors) =>
        \A core \in DOMAIN device.l1 : RU!Allocate(device, k).l1[core] + RU!TotalBytes(k.cbs) <= device.limit
  <2> SUFFICES ASSUME RU!OnDevice(tensors)
               PROVE  \A core \in DOMAIN device.l1 :
                        RU!Allocate(device, k).l1[core] + RU!TotalBytes(k.cbs) <= device.limit
    OBVIOUS
  <2>1. RU!TotalBytes(k.cbs) <= RU!MinRemainingL1(RU!Allocate(device, k))
    BY <1>4 DEF RU!Remaining
  <2> QED BY <1>4, <2>1, BuffersFit
<1>8. Len(program.io) >= 2
  BY <1>3, <1>4, TwoTensors
<1> QED BY <1>5, <1>6, <1>7, <1>8 DEF RU!ProgramHoldsTogether, program

-----------------------------------------------------------------------------
(* The emitted runner.                                                     *)

(* Its threads have the roles of the launch, and the compute defaults.     *)
LEMMA EmittedRoles ==
  ASSUME NEW k \in RU!Kernels(Paths), NEW i \in DOMAIN k.specs
  PROVE  RU!EmittedConfig(k.specs, i) =
           IF k.specs[i].type = "compute" THEN RU!DefaultCompute ELSE k.specs[i].config
<1>1. k.specs \in Seq(RU!Specs(Paths)) /\ RU!ByOrder(k.specs)
  BY DEF RU!Kernels
<1>2. \A j \in DOMAIN k.specs : k.specs[j].type \in {"compute", "noc"}
  <2>1. \A j \in DOMAIN k.specs : k.specs[j] \in RU!Specs(Paths)
    BY <1>1
  <2> QED BY <2>1 DEF RU!Specs
<1>3. CASE k.specs[i].type = "compute"
  BY <1>3 DEF RU!EmittedConfig
<1>4. CASE k.specs[i].type = "noc"
  <2>1. k.specs[i].config = RU!DmConfig(IF RU!NocBefore(k.specs, i) = 0 THEN "reader" ELSE "writer")
    BY <1>1, <1>4 DEF RU!ByOrder
  <2>2. \A j \in 1 .. i - 1 : k.specs[j].type = "noc" <=> k.specs[j].type # "compute"
    <3> SUFFICES ASSUME NEW j \in 1 .. i - 1 PROVE k.specs[j].type = "noc" <=> k.specs[j].type # "compute"
      OBVIOUS
    <3>1. j \in DOMAIN k.specs
      <4>1. DOMAIN k.specs = 1 .. Len(k.specs) /\ Len(k.specs) \in Nat
        BY <1>1
      <4> QED BY <4>1
    <3> QED BY <1>2, <3>1
  <2>3. {j \in 1 .. i - 1 : k.specs[j].type = "noc"} = {j \in 1 .. i - 1 : k.specs[j].type # "compute"}
    BY <2>2
  <2>4. RU!OtherBefore(k.specs, i) = RU!NocBefore(k.specs, i)
    BY <2>3 DEF RU!OtherBefore, RU!NocBefore
  <2> QED BY <1>4, <2>1, <2>4 DEF RU!EmittedConfig
<1> QED BY <1>2, <1>3, <1>4

LEMMA EmittedIsTheLaunch ==
  ASSUME NEW k \in RU!Kernels(Paths), NEW tensors \in Seq(RU!Tensors(Addresses)), NEW device
  PROVE  RU!RunnerKeepsTheRest(k, tensors, device)
<1> DEFINE program == RU!ProgramOf(k, RU!CbDescriptors(k.cbs), tensors)
<1> SUFFICES ASSUME RU!Runs(k, tensors, device), RU!Emits(k)
             PROVE  RU!RunEmitted(RU!EmitRunner(k, Len(tensors)), tensors) = RU!AsWritten(k, program)
  BY DEF RU!RunnerKeepsTheRest, RU!RunKernelOnDevice
<1> DEFINE runner == RU!EmitRunner(k, Len(tensors))
           specs == [i \in DOMAIN k.specs |-> [k.specs[i] EXCEPT !.config = RU!EmittedConfig(k.specs, i)]]
           cbs == [i \in DOMAIN k.cbs |-> [RU!CbDescriptor(k.cbs, i) EXCEPT !.format = RU!DtypeToStr(@)]]
           emitted == [runner EXCEPT !.specs = specs]
<1>1. k.specs \in Seq(RU!Specs(Paths)) /\ k.cbs \in Seq(RU!Cbs)
  BY DEF RU!Kernels
<1>2. runner.cbs = cbs /\ runner.specs = k.specs /\ runner.count = Len(tensors)
  BY DEF RU!EmitRunner
<1>3. /\ emitted.specs = specs /\ emitted.cbs = cbs /\ emitted.scratch = k.scratch /\ emitted.globals = k.globals
      /\ emitted.syncs = k.syncs
  BY <1>2 DEF RU!EmitRunner
<1>4. RU!RunEmitted(runner, tensors) = RU!ProgramOf(emitted, cbs, tensors)
  BY <1>2 DEF RU!RunEmitted
<1>5. Len(cbs) = Len(k.cbs)
  BY <1>1
<1> HIDE DEF emitted, runner
<1>6. RU!ExtraArgs(emitted) = RU!ExtraArgs(k) /\ RU!IoTensors(tensors, emitted) = RU!IoTensors(tensors, k)
  BY <1>3 DEF RU!ExtraArgs, RU!ScratchTensors, RU!GlobalSemaphores, RU!IoTensors
<1>7. ASSUME NEW i \in DOMAIN k.specs
      PROVE  RU!KernelDescriptor(specs[i], tensors, emitted) =
               IF k.specs[i].type = "compute"
               THEN [RU!KernelDescriptor(k.specs[i], tensors, k) EXCEPT !.config = RU!DefaultCompute]
               ELSE RU!KernelDescriptor(k.specs[i], tensors, k)
  <2> DEFINE s == k.specs[i]
             e == specs[i]
  <2>1. s \in RU!Specs(Paths)
    BY <1>1, <1>7
  <2>2. e = [s EXCEPT !.config = RU!EmittedConfig(k.specs, i)]
    BY <1>7
  <2>3. RU!EmittedConfig(k.specs, i) = IF s.type = "compute" THEN RU!DefaultCompute ELSE s.config
    BY <1>7, EmittedRoles
  <2> HIDE DEF s, e
  <2>4. /\ e.path = s.path /\ e.type = s.type /\ e.indices = s.indices
        /\ e.config = (IF s.type = "compute" THEN RU!DefaultCompute ELSE s.config)
    BY <2>1, <2>2, <2>3 DEF RU!Specs
  <2> HIDE DEF cbs
  <2>5. RU!KernelDescriptor(e, tensors, emitted) =
          IF s.type = "compute" THEN [RU!KernelDescriptor(s, tensors, k) EXCEPT !.config = RU!DefaultCompute]
          ELSE RU!KernelDescriptor(s, tensors, k)
    <3> DEFINE own == [n \in DOMAIN s.indices |-> tensors[s.indices[n] + 1].address] \o RU!ExtraArgs(k)
               indices == [n \in 1 .. Len(k.cbs) |-> n - 1]
               args == IF s.type = "compute" THEN indices ELSE indices \o RU!AccessorArgs(tensors)
    <3>1. RU!ExtraArgs(emitted) = RU!ExtraArgs(k) /\ Len(emitted.cbs) = Len(k.cbs)
      BY <1>3, <1>5, <1>6
    <3>2. /\ RU!KernelDescriptor(s, tensors, k) =
               [path |-> s.path, config |-> s.config, compileTime |-> args, commonRuntime |-> own]
          /\ RU!KernelDescriptor(e, tensors, emitted) =
               [path |-> s.path, config |-> e.config, compileTime |-> args, commonRuntime |-> own]
      <4>1. RU!KernelDescriptor(s, tensors, k) =
              [path |-> s.path, config |-> s.config, compileTime |-> args, commonRuntime |-> own]
        BY DEF RU!KernelDescriptor
      <4>2. RU!KernelDescriptor(e, tensors, emitted) =
              [path |-> e.path, config |-> e.config,
               compileTime |-> IF e.type = "compute" THEN indices ELSE indices \o RU!AccessorArgs(tensors),
               commonRuntime |-> [n \in DOMAIN e.indices |-> tensors[e.indices[n] + 1].address] \o RU!ExtraArgs(k)]
        BY <3>1 DEF RU!KernelDescriptor
      <4> QED BY <2>4, <4>1, <4>2
    <3> HIDE DEF own, indices, args
    <3> QED BY <2>4, <3>2
  <2> QED BY <2>5 DEF s, e
<1>8. RU!ProgramOf(emitted, cbs, tensors) = RU!AsWritten(k, program)
  <2> DEFINE kernels == [i \in DOMAIN k.specs |-> RU!KernelDescriptor(k.specs[i], tensors, k)]
             all == RU!CbDescriptors(k.cbs)
             written == [i \in DOMAIN kernels |-> IF k.specs[i].type = "compute"
                                                  THEN [kernels[i] EXCEPT !.config = RU!DefaultCompute] ELSE kernels[i]]
             named == [i \in DOMAIN all |-> [all[i] EXCEPT !.format = RU!DtypeToStr(@)]]
  <2>1. program = [kernels |-> kernels, cbs |-> all, semaphores |-> RU!SyncSemaphores(k), io |-> RU!IoTensors(tensors, k)]
    BY DEF RU!ProgramOf
  <2>2. RU!AsWritten(k, program) =
          [kernels |-> written, cbs |-> named, semaphores |-> RU!SyncSemaphores(k), io |-> RU!IoTensors(tensors, k)]
    <3>1. RU!AsWritten(k, program) = [program EXCEPT !.kernels = written, !.cbs = named]
      <4>1. program.kernels = kernels /\ program.cbs = all
        BY <2>1
      <4> HIDE DEF program, kernels, all
      <4>2. RU!AsWritten(k, program) =
              [program EXCEPT !.kernels = [i \in DOMAIN program.kernels |->
                                             IF k.specs[i].type = "compute"
                                             THEN [program.kernels[i] EXCEPT !.config = RU!DefaultCompute]
                                             ELSE program.kernels[i]],
                              !.cbs = [i \in DOMAIN program.cbs |->
                                         [program.cbs[i] EXCEPT !.format = RU!DtypeToStr(@)]]]
        BY DEF RU!AsWritten
      <4> QED BY <4>1, <4>2
    <3> HIDE DEF program, written, named, kernels, all
    <3> QED BY <2>1, <3>1
  <2>5. named = cbs
    BY DEF RU!CbDescriptors
  <2>3. DOMAIN specs = DOMAIN k.specs
    OBVIOUS
  <2> HIDE DEF specs, cbs, named, program
  <2>4. RU!ProgramOf(emitted, cbs, tensors) =
          [kernels |-> [i \in DOMAIN k.specs |-> RU!KernelDescriptor(specs[i], tensors, emitted)],
           cbs |-> cbs, semaphores |-> RU!SyncSemaphores(k), io |-> RU!IoTensors(tensors, k)]
    BY <1>3, <1>6, <2>3 DEF RU!ProgramOf, RU!SyncSemaphores
  <2>6. written = [i \in DOMAIN k.specs |-> RU!KernelDescriptor(specs[i], tensors, emitted)]
    <3>1. /\ DOMAIN kernels = DOMAIN k.specs
          /\ \A i \in DOMAIN k.specs : kernels[i] = RU!KernelDescriptor(k.specs[i], tensors, k)
      OBVIOUS
    <3>2. \A i \in DOMAIN k.specs : written[i] = RU!KernelDescriptor(specs[i], tensors, emitted)
      BY <1>7, <3>1
    <3> QED BY <3>1, <3>2
  <2> QED BY <2>2, <2>4, <2>5, <2>6
<1> QED BY <1>4, <1>8 DEF runner

RunnerSpec ==
  /\ case \in [of : {"runner"}, kernel : RU!Kernels(Paths), tensors : Seq(RU!Tensors(Addresses)),
               device : RU!Devices(DeviceCores)]
  /\ [][FALSE]_case

(* Whatever threads, buffers and tensors a program has: each thread finds  *)
(* its tensors, the scratch memory and the semaphores where its code looks *)
(* for them, and the buffers as they are allocated fit beside what else    *)
(* is; a runner, when one can be written, differs from the launch only in  *)
(* the configuration of compute threads and the names of formats           *)
(* (kernel_runner.py, PipeLowering.cpp).                                   *)
THEOREM LaunchesHoldTogether ==
  ASSUME SemaphoreBytes \in Nat, DeviceCores # {} PROVE RunnerSpec => []ProgramHoldsTogether
<1>1. case \in [of : {"runner"}, kernel : RU!Kernels(Paths), tensors : Seq(RU!Tensors(Addresses)),
                device : RU!Devices(DeviceCores)] => ProgramHoldsTogether
  BY LaunchHoldsTogether, EmittedIsTheLaunch DEF ProgramHoldsTogether
<1>2. ProgramHoldsTogether /\ [FALSE]_case => ProgramHoldsTogether'
  BY DEF ProgramHoldsTogether
<1> QED BY <1>1, <1>2, PTL DEF RunnerSpec
=============================================================================
