-------------------------- MODULE PipeDeviceProofs --------------------------
(***************************************************************************)
(* What the launch-domain analysis and the two verifiers are worth: for    *)
(* every module, an operation runs at nodes of its domain only, so that    *)
(* what the verifiers compute from the domains holds of the code that the  *)
(* device runs.  And what the counters of that code are worth: in every    *)
(* orderly module they count the receives that are open and those that     *)
(* have arrived, so that no counter passes what a send waits for, and the  *)
(* device makes the transfers that a pipe promises.  And that each of      *)
(* these transfers is the right one: the blocks of the rings, the address  *)
(* tables and the memory are related to the receives that are open, so     *)
(* that a send writes where its receivers posted, and a consumer pops the  *)
(* transfer its block was posted for.                                      *)
(***************************************************************************)
EXTENDS PipeDevice, FiniteSetTheorems, WellFoundedInduction, TLAPS

(* The least of a set of numbers.                                          *)
LEMMA NatMin ==
  ASSUME NEW T \in SUBSET Nat, T # {}
  PROVE  \E m \in T : \A k \in T : m <= k
<1> DEFINE R == StrictSubsetOrdering(Nat)
           Below == {0 .. n : n \in T}
<1>1. IsWellFoundedOn(R, FiniteSubsetsOf(Nat))
  BY FS_StrictSubsetOrderingWellFounded
<1>2. Below \subseteq FiniteSubsetsOf(Nat)
  <2> SUFFICES ASSUME NEW n \in T PROVE 0 .. n \in FiniteSubsetsOf(Nat)
    OBVIOUS
  <2>1. IsFiniteSet(0 .. n)
    BY FS_Interval
  <2> QED
    BY <2>1 DEF FiniteSubsetsOf
<1>3. Below # {}
  OBVIOUS
<1>4. PICK x \in Below : \A y \in Below : <<y, x>> \notin R
  <2> HIDE DEF R, Below
  <2> QED BY <1>1, <1>2, <1>3, WFMin
<1>5. PICK m \in T : x = 0 .. m
  OBVIOUS
<1>6. ASSUME NEW k \in T PROVE m <= k
  <2> SUFFICES ASSUME k < m PROVE FALSE
    OBVIOUS
  <2>1. 0 .. k \in SUBSET Nat /\ 0 .. m \in SUBSET Nat
    OBVIOUS
  <2>2. 0 .. k \subseteq 0 .. m /\ 0 .. k # 0 .. m
    <3>1. m \in 0 .. m /\ m \notin 0 .. k
      OBVIOUS
    <3> QED BY <3>1
  <2>3. <<0 .. k, 0 .. m>> \in R
    BY <2>1, <2>2 DEF StrictSubsetOrdering
  <2> QED BY <1>4, <1>5, <2>3
<1> QED BY <1>6

-----------------------------------------------------------------------------
(* The recursions over the values of a condition and over a path are       *)
(* defined by what comes before.                                           *)
LEMMA BranchesAreDefined ==
  ASSUME NEW program, NEW cond, NEW cur, ConditionOk(cond)
  PROVE  \A i \in DOMAIN cond :
           Branches(program, cond, cur)[i] =
             ValueBranches(program, cond[i], cur, Branches(program, cond, cur)[cond[i].l],
                           Branches(program, cond, cur)[cond[i].r])
<1> DEFINE N == Len(cond)
           From(f, i) == ValueBranches(program, cond[i], cur, f[cond[i].l], f[cond[i].r])
           Part(n, f) == f = [i \in 1 .. n |-> From(f, i)]
<1>1. N \in Nat /\ DOMAIN cond = 1 .. N
  BY DEF ConditionOk, IsSeq
<1>2. ASSUME NEW i \in 1 .. N, NEW f, NEW g, \A j \in 1 .. i - 1 : f[j] = g[j]
      PROVE  From(f, i) = From(g, i)
  <2>1. CASE cond[i].c \in {"and", "or"}
    <3>1. cond[i].l \in 1 .. i - 1 /\ cond[i].r \in 1 .. i - 1
      BY <1>1, <2>1 DEF ConditionOk, Regions
    <3> QED BY <1>2, <3>1
  <2>2. CASE cond[i].c \notin {"and", "or"}
    BY <2>2 DEF ValueBranches
  <2> QED BY <2>1, <2>2
<1>3. \A n \in 0 .. N : \E f : Part(n, f)
  <2> DEFINE T == {n \in 0 .. N : ~ \E f : Part(n, f)}
  <2> SUFFICES ASSUME T # {} PROVE FALSE
    OBVIOUS
  <2>1. PICK n \in T : \A i \in T : n <= i
    <3>1. T \in SUBSET Nat
      BY <1>1
    <3> HIDE DEF T
    <3> QED BY <3>1, NatMin
  <2>2. n \in 0 .. N
    OBVIOUS
  <2>3. CASE n = 0
    <3> DEFINE f == [i \in {} |-> i]
    <3>1. 1 .. 0 = {}
      OBVIOUS
    <3>2. Part(0, f)
      BY <3>1
    <3> HIDE DEF f
    <3> QED BY <2>3, <3>2
  <2>4. CASE n # 0
    <3>1. n - 1 \in 0 .. N
      BY <1>1, <2>2, <2>4
    <3>2. PICK f : Part(n - 1, f)
      <4>1. n - 1 \notin T
        <5> HIDE DEF T
        <5> QED BY <1>1, <2>1, <2>2, <2>4
      <4> HIDE DEF Part
      <4> QED BY <3>1, <4>1
    <3> DEFINE g == [i \in 1 .. n |-> From(f, i)]
    <3>3. ASSUME NEW i \in 1 .. n - 1
          PROVE  f[i] = g[i]
      <4> HIDE DEF From
      <4> QED BY <1>1, <2>2, <3>2
    <3>4. ASSUME NEW i \in 1 .. n
          PROVE  From(f, i) = From(g, i)
      <4>1. i \in 1 .. N /\ \A j \in 1 .. i - 1 : j \in 1 .. n - 1
        BY <1>1, <2>2
      <4>2. \A j \in 1 .. i - 1 : f[j] = g[j]
        <5> HIDE DEF g
        <5> QED BY <3>3, <4>1
      <4> HIDE DEF From, g
      <4> QED BY <1>2, <4>1, <4>2
    <3>5. Part(n, g)
      <4> HIDE DEF From
      <4> QED BY <3>4
    <3> HIDE DEF g
    <3> QED BY <3>5
  <2> QED BY <2>3, <2>4
<1>4. \E f : f = [i \in DOMAIN cond |-> From(f, i)]
  <2>1. PICK f : Part(N, f)
    <3> HIDE DEF Part
    <3> QED BY <1>1, <1>3
  <2>2. f = [i \in DOMAIN cond |-> From(f, i)]
    <3> HIDE DEF From, N
    <3> QED BY <1>1, <2>1
  <2> QED BY <2>2
<1>5. Branches(program, cond, cur) = [i \in DOMAIN cond |-> From(Branches(program, cond, cur), i)]
  BY <1>4 DEF Branches
<1> HIDE DEF From
<1>6. \A i \in DOMAIN cond : Branches(program, cond, cur)[i] = From(Branches(program, cond, cur), i)
  BY <1>5
<1> QED BY <1>6 DEF From

LEMMA TrueNodesAreDefined ==
  ASSUME NEW program, NEW cond, ConditionOk(cond)
  PROVE  \A i \in DOMAIN cond :
           TrueNodes(program, cond)[i] =
             ValueNodes(program, cond[i], TrueNodes(program, cond)[cond[i].l],
                        TrueNodes(program, cond)[cond[i].r])
<1> DEFINE N == Len(cond)
           From(f, i) == ValueNodes(program, cond[i], f[cond[i].l], f[cond[i].r])
           Part(n, f) == f = [i \in 1 .. n |-> From(f, i)]
<1>1. N \in Nat /\ DOMAIN cond = 1 .. N
  BY DEF ConditionOk, IsSeq
<1>2. ASSUME NEW i \in 1 .. N, NEW f, NEW g, \A j \in 1 .. i - 1 : f[j] = g[j]
      PROVE  From(f, i) = From(g, i)
  <2>1. CASE cond[i].c \in {"and", "or"}
    <3>1. cond[i].l \in 1 .. i - 1 /\ cond[i].r \in 1 .. i - 1
      BY <1>1, <2>1 DEF ConditionOk, Regions
    <3> QED BY <1>2, <3>1
  <2>2. CASE cond[i].c \notin {"and", "or"}
    BY <2>2 DEF ValueNodes
  <2> QED BY <2>1, <2>2
<1>3. \A n \in 0 .. N : \E f : Part(n, f)
  <2> DEFINE T == {n \in 0 .. N : ~ \E f : Part(n, f)}
  <2> SUFFICES ASSUME T # {} PROVE FALSE
    OBVIOUS
  <2>1. PICK n \in T : \A i \in T : n <= i
    <3>1. T \in SUBSET Nat
      BY <1>1
    <3> HIDE DEF T
    <3> QED BY <3>1, NatMin
  <2>2. n \in 0 .. N
    OBVIOUS
  <2>3. CASE n = 0
    <3> DEFINE f == [i \in {} |-> i]
    <3>1. 1 .. 0 = {}
      OBVIOUS
    <3>2. Part(0, f)
      BY <3>1
    <3> HIDE DEF f
    <3> QED BY <2>3, <3>2
  <2>4. CASE n # 0
    <3>1. n - 1 \in 0 .. N
      BY <1>1, <2>2, <2>4
    <3>2. PICK f : Part(n - 1, f)
      <4>1. n - 1 \notin T
        <5> HIDE DEF T
        <5> QED BY <1>1, <2>1, <2>2, <2>4
      <4> HIDE DEF Part
      <4> QED BY <3>1, <4>1
    <3> DEFINE g == [i \in 1 .. n |-> From(f, i)]
    <3>3. ASSUME NEW i \in 1 .. n - 1
          PROVE  f[i] = g[i]
      <4> HIDE DEF From
      <4> QED BY <1>1, <2>2, <3>2
    <3>4. ASSUME NEW i \in 1 .. n
          PROVE  From(f, i) = From(g, i)
      <4>1. i \in 1 .. N /\ \A j \in 1 .. i - 1 : j \in 1 .. n - 1
        BY <1>1, <2>2
      <4>2. \A j \in 1 .. i - 1 : f[j] = g[j]
        <5> HIDE DEF g
        <5> QED BY <3>3, <4>1
      <4> HIDE DEF From, g
      <4> QED BY <1>2, <4>1, <4>2
    <3>5. Part(n, g)
      <4> HIDE DEF From
      <4> QED BY <3>4
    <3> HIDE DEF g
    <3> QED BY <3>5
  <2> QED BY <2>3, <2>4
<1>4. \E f : f = [i \in DOMAIN cond |-> From(f, i)]
  <2>1. PICK f : Part(N, f)
    <3> HIDE DEF Part
    <3> QED BY <1>1, <1>3
  <2>2. f = [i \in DOMAIN cond |-> From(f, i)]
    <3> HIDE DEF From, N
    <3> QED BY <1>1, <2>1
  <2> QED BY <2>2
<1>5. TrueNodes(program, cond) = [i \in DOMAIN cond |-> From(TrueNodes(program, cond), i)]
  BY <1>4 DEF TrueNodes
<1> HIDE DEF From
<1>6. \A i \in DOMAIN cond : TrueNodes(program, cond)[i] = From(TrueNodes(program, cond), i)
  BY <1>5
<1> QED BY <1>6 DEF From

LEMMA DomainsAreDefined ==
  ASSUME NEW program, NEW scopes, NEW path, IsSeq(path)
  PROVE  \A i \in 0 .. Len(path) :
           DomainsAlong(program, scopes, path)[i] =
             IF i = 0 THEN Full(program)
             ELSE Enter(program, scopes, DomainsAlong(program, scopes, path)[i - 1], path[i])
<1> DEFINE N == Len(path)
           From(f, i) == IF i = 0 THEN Full(program) ELSE Enter(program, scopes, f[i - 1], path[i])
           Part(n, f) == f = [i \in 0 .. n |-> From(f, i)]
<1>1. N \in Nat
  BY DEF IsSeq
<1>2. ASSUME NEW i \in 0 .. N, NEW f, NEW g, \A j \in 0 .. i - 1 : f[j] = g[j]
      PROVE  From(f, i) = From(g, i)
  <2>1. CASE i = 0
    BY <2>1
  <2>2. CASE i # 0
    <3>1. i - 1 \in 0 .. i - 1
      BY <1>1, <2>2
    <3>2. f[i - 1] = g[i - 1]
      BY <1>2, <3>1
    <3> QED BY <2>2, <3>2
  <2> QED BY <2>1, <2>2
<1>3. \A n \in 0 .. N : \E f : Part(n, f)
  <2> DEFINE T == {n \in 0 .. N : ~ \E f : Part(n, f)}
  <2> SUFFICES ASSUME T # {} PROVE FALSE
    OBVIOUS
  <2>1. PICK n \in T : \A i \in T : n <= i
    <3>1. T \in SUBSET Nat
      BY <1>1
    <3> HIDE DEF T
    <3> QED BY <3>1, NatMin
  <2>2. n \in 0 .. N
    OBVIOUS
  <2>3. CASE n = 0
    <3> DEFINE f == [i \in 0 .. 0 |-> Full(program)]
    <3>1. Part(0, f)
      OBVIOUS
    <3> HIDE DEF f
    <3> QED BY <2>3, <3>1
  <2>4. CASE n # 0
    <3>1. n - 1 \in 0 .. N
      BY <1>1, <2>2, <2>4
    <3>2. PICK f : Part(n - 1, f)
      <4>1. n - 1 \notin T
        <5> HIDE DEF T
        <5> QED BY <1>1, <2>1, <2>2, <2>4
      <4> HIDE DEF Part
      <4> QED BY <3>1, <4>1
    <3> DEFINE g == [i \in 0 .. n |-> From(f, i)]
    <3>3. ASSUME NEW i \in 0 .. n - 1
          PROVE  f[i] = g[i]
      <4> HIDE DEF From
      <4> QED BY <1>1, <2>2, <3>2
    <3>4. ASSUME NEW i \in 0 .. n
          PROVE  From(f, i) = From(g, i)
      <4>1. i \in 0 .. N /\ \A j \in 0 .. i - 1 : j \in 0 .. n - 1
        BY <1>1, <2>2
      <4>2. \A j \in 0 .. i - 1 : f[j] = g[j]
        <5> HIDE DEF g
        <5> QED BY <3>3, <4>1
      <4> HIDE DEF From, g
      <4> QED BY <1>2, <4>1, <4>2
    <3>5. Part(n, g)
      <4> HIDE DEF From
      <4> QED BY <3>4
    <3> HIDE DEF g
    <3> QED BY <3>5
  <2> QED BY <2>3, <2>4
<1>4. \E f : f = [i \in 0 .. N |-> From(f, i)]
  <2>1. PICK f : Part(N, f)
    <3> HIDE DEF Part
    <3> QED BY <1>1, <1>3
  <2>2. f = [i \in 0 .. N |-> From(f, i)]
    <3> HIDE DEF From, N
    <3> QED BY <1>1, <2>1
  <2> QED BY <2>2
<1>5. DomainsAlong(program, scopes, path) = [i \in 0 .. N |-> From(DomainsAlong(program, scopes, path), i)]
  BY <1>4 DEF DomainsAlong
<1> HIDE DEF From
<1>6. \A i \in 0 .. N : DomainsAlong(program, scopes, path)[i] = From(DomainsAlong(program, scopes, path), i)
  BY <1>5
<1> QED BY <1>6 DEF From

LEMMA FlattenIsDefined ==
  ASSUME NEW seqs, IsSeq(seqs), Len(seqs) # 0
  PROVE  \E f : /\ FlattenSeq(seqs) = f[Len(seqs)]
                /\ \A i \in 1 .. Len(seqs) : f[i] = IF i = 1 THEN seqs[i] ELSE f[i - 1] \o seqs[i]
<1> DEFINE N == Len(seqs)
           From(f, i) == IF i = 1 THEN seqs[i] ELSE f[i - 1] \o seqs[i]
           Part(n, f) == f = [i \in 1 .. n |-> From(f, i)]
           flatten == CHOOSE f : f = [i \in 1 .. N |-> From(f, i)]
<1>1. N \in Nat /\ N >= 1
  BY DEF IsSeq
<1>2. ASSUME NEW i \in 1 .. N, NEW f, NEW g, \A j \in 1 .. i - 1 : f[j] = g[j]
      PROVE  From(f, i) = From(g, i)
  <2>1. CASE i = 1
    BY <2>1
  <2>2. CASE i # 1
    <3>1. i - 1 \in 1 .. i - 1
      BY <1>1, <2>2
    <3>2. f[i - 1] = g[i - 1]
      BY <1>2, <3>1
    <3> QED BY <2>2, <3>2
  <2> QED BY <2>1, <2>2
<1>3. \A n \in 0 .. N : \E f : Part(n, f)
  <2> DEFINE T == {n \in 0 .. N : ~ \E f : Part(n, f)}
  <2> SUFFICES ASSUME T # {} PROVE FALSE
    OBVIOUS
  <2>1. PICK n \in T : \A i \in T : n <= i
    <3>1. T \in SUBSET Nat
      <4> HIDE DEF Part
      <4> QED BY <1>1
    <3> HIDE DEF T
    <3> QED BY <3>1, NatMin
  <2>2. n \in 0 .. N
    OBVIOUS
  <2>3. CASE n = 0
    <3> DEFINE f == [i \in {} |-> i]
    <3>1. 1 .. 0 = {}
      OBVIOUS
    <3>2. Part(0, f)
      BY <3>1
    <3> HIDE DEF f
    <3> QED BY <2>3, <3>2
  <2>4. CASE n # 0
    <3>1. n - 1 \in 0 .. N
      BY <1>1, <2>2, <2>4
    <3>2. PICK f : Part(n - 1, f)
      <4>1. n - 1 \notin T
        <5> HIDE DEF T
        <5> QED BY <1>1, <2>1, <2>2, <2>4
      <4> HIDE DEF Part
      <4> QED BY <3>1, <4>1
    <3> DEFINE g == [i \in 1 .. n |-> From(f, i)]
    <3>3. ASSUME NEW i \in 1 .. n - 1
          PROVE  f[i] = g[i]
      <4> HIDE DEF From
      <4> QED BY <1>1, <2>2, <3>2
    <3>4. ASSUME NEW i \in 1 .. n
          PROVE  From(f, i) = From(g, i)
      <4>1. i \in 1 .. N /\ \A j \in 1 .. i - 1 : j \in 1 .. n - 1
        BY <1>1, <2>2
      <4>2. \A j \in 1 .. i - 1 : f[j] = g[j]
        <5> HIDE DEF g
        <5> QED BY <3>3, <4>1
      <4> HIDE DEF From, g
      <4> QED BY <1>2, <4>1, <4>2
    <3>5. Part(n, g)
      <4> HIDE DEF From
      <4> QED BY <3>4
    <3> HIDE DEF g
    <3> QED BY <3>5
  <2> QED BY <2>3, <2>4
<1>4. \E f : f = [i \in 1 .. N |-> From(f, i)]
  <2>1. PICK f : Part(N, f)
    <3> HIDE DEF Part
    <3> QED BY <1>1, <1>3
  <2>2. f = [i \in 1 .. N |-> From(f, i)]
    <3> HIDE DEF From, N
    <3> QED BY <1>1, <2>1
  <2> QED BY <2>2
<1>5. flatten = [i \in 1 .. N |-> From(flatten, i)]
  BY <1>4
<1>6. FlattenSeq(seqs) = flatten[N]
  BY <1>1 DEF FlattenSeq
<1> HIDE DEF From, flatten
<1>7. \A i \in 1 .. N : flatten[i] = From(flatten, i)
  BY <1>5
<1> QED BY <1>6, <1>7 DEF From


LEMMA FlattenKeeps ==
  ASSUME NEW S, NEW seqs, IsSeq(seqs), \A i \in 1 .. Len(seqs) : seqs[i] \in Seq(S)
  PROVE  Len(seqs) # 0 => FlattenSeq(seqs) \in Seq(S)
<1> SUFFICES ASSUME Len(seqs) # 0 PROVE FlattenSeq(seqs) \in Seq(S)
  OBVIOUS
<1> DEFINE N == Len(seqs)
<1>1. N \in Nat /\ N >= 1
  BY DEF IsSeq
<1>2. PICK f : /\ FlattenSeq(seqs) = f[N]
               /\ \A i \in 1 .. N : f[i] = IF i = 1 THEN seqs[i] ELSE f[i - 1] \o seqs[i]
  BY FlattenIsDefined
<1> HIDE DEF N
<1> DEFINE T == {i \in 1 .. N : f[i] \notin Seq(S)}
<1>3. T = {}
  <2> SUFFICES ASSUME T # {} PROVE FALSE
    OBVIOUS
  <2>1. PICK m \in T : \A i \in T : m <= i
    <3>1. T \in SUBSET Nat
      BY <1>1
    <3> HIDE DEF T
    <3> QED BY <3>1, NatMin
  <2>2. m \in 1 .. N /\ seqs[m] \in Seq(S)
    BY DEF N
  <2>3. CASE m = 1
    BY <1>2, <2>2, <2>3
  <2>4. CASE m # 1
    <3>1. m - 1 \in 1 .. N /\ ~(m <= m - 1)
      BY <1>1, <2>2, <2>4
    <3>2. f[m - 1] \in Seq(S)
      BY <2>1, <3>1
    <3>3. f[m] = f[m - 1] \o seqs[m]
      BY <1>2, <2>2, <2>4
    <3>4. f[m] \in Seq(S)
      BY <2>2, <3>2, <3>3
    <3> QED BY <3>4
  <2> QED BY <2>3, <2>4
<1> QED BY <1>1, <1>2, <1>3

-----------------------------------------------------------------------------
(* What is known of one domain, of the arms of a value, and of the nodes   *)
(* where it is true.                                                       *)
Covers(d, n) == d.known => n \in d.nodes

LEMMA SetOperations ==
  ASSUME NEW a, NEW b, NEW n
  PROVE  /\ Covers(Unknown, n)
         /\ Covers(a, n) /\ Covers(b, n) => Covers(IntersectWith(a, b), n)
         /\ Covers(a, n) \/ Covers(b, n) => Covers(UnionWith(a, b), n)
         /\ UnionWith(a, b).known => a.known /\ b.known
         /\ IntersectWith(a, b).known => a.known /\ b.known
  BY DEF Covers, Unknown, Known, Lift, IntersectWith, UnionWith

(* Node n is in the domain of the arm of value i that it takes.            *)
LEMMA BranchesCover ==
  ASSUME NEW program, NEW cond, NEW cur, NEW n \in program.grid,
         ConditionOk(cond), Covers(cur, n), Root(cond).c \notin Regions
  PROVE  IF Holds(program, cond, n) THEN Covers(BranchDomains(program, cond, cur).then, n)
         ELSE Covers(BranchDomains(program, cond, cur).else, n)
<1> DEFINE N == Len(cond)
           B == Branches(program, cond, cur)
           H == TrueNodes(program, cond)
           Right(i) == /\ n \in H[i] => Covers(B[i].then, n)
                       /\ n \notin H[i] => Covers(B[i].else, n)
<1>1. N \in Nat /\ N >= 1 /\ DOMAIN cond = 1 .. N
  BY DEF ConditionOk, IsSeq
<1>2. ASSUME NEW i \in 1 .. N
      PROVE  /\ B[i] = ValueBranches(program, cond[i], cur, B[cond[i].l], B[cond[i].r])
             /\ H[i] = ValueNodes(program, cond[i], H[cond[i].l], H[cond[i].r])
  <2> HIDE DEF N
  <2> QED BY <1>1, BranchesAreDefined, TrueNodesAreDefined
<1> HIDE DEF N, B, H
<1>3. ASSUME NEW S
      PROVE  /\ n \in S => Covers(ExactBranches(program, S, cur).then, n)
             /\ n \notin S => Covers(ExactBranches(program, S, cur).else, n)
  BY DEF ExactBranches, Covers, IntersectWith, Subtract, Lift, Known, Unknown, Full
<1>4. ASSUME NEW i \in 1 .. N, \A j \in 1 .. i - 1 : Right(j)
      PROVE  Right(i)
  <2>1. CASE cond[i].c = "role"
    <3>1. B[i] = ExactBranches(program, RoleNodes(program, cond[i].net, cond[i].role), cur)
      BY <1>2, <2>1, Zenon DEF ValueBranches
    <3>2. H[i] = RoleNodes(program, cond[i].net, cond[i].role)
      BY <1>2, <2>1, Zenon DEF ValueNodes
    <3> QED BY <1>3, <3>1, <3>2
  <2>2. CASE cond[i].c = "at"
    <3>1. B[i] = IF cond[i].evaluable THEN ExactBranches(program, cond[i].nodes, cur) ELSE BothArms(Unknown)
      BY <1>2, <2>2, Zenon DEF ValueBranches
    <3>2. H[i] = cond[i].nodes
      BY <1>2, <2>2, Zenon DEF ValueNodes
    <3>3. CASE cond[i].evaluable
      BY <1>3, <3>1, <3>2, <3>3
    <3>4. CASE ~cond[i].evaluable
      BY <3>1, <3>4, SetOperations DEF BothArms
    <3> QED BY <3>3, <3>4
  <2>3. CASE cond[i].c = "flag"
    <3>1. B[i] = BothArms(cur)
      BY <1>2, <2>3, Zenon DEF ValueBranches
    <3> QED BY <3>1 DEF BothArms
  <2>4. CASE cond[i].c \in {"and", "or"}
    <3> DEFINE l == cond[i].l
               r == cond[i].r
    <3>1. Right(l) /\ Right(r)
      <4>1. l \in 1 .. i - 1 /\ r \in 1 .. i - 1
        BY <1>1, <2>4 DEF ConditionOk, Regions
      <4> QED BY <1>4, <4>1
    <3>2. CASE cond[i].c = "and"
      <4>1. B[i] = AndBranches(B[l], B[r])
        BY <1>2, <3>2, Zenon DEF ValueBranches
      <4>2. H[i] = H[l] \cap H[r]
        BY <1>2, <3>2, Zenon DEF ValueNodes
      <4>3. CASE n \in H[l] /\ n \in H[r]
        BY <3>1, <4>1, <4>2, <4>3, SetOperations DEF AndBranches
      <4>4. CASE n \in H[l] /\ n \notin H[r]
        BY <3>1, <4>1, <4>2, <4>4, SetOperations DEF AndBranches
      <4>5. CASE n \notin H[l]
        BY <3>1, <4>1, <4>2, <4>5, SetOperations DEF AndBranches
      <4> QED BY <4>3, <4>4, <4>5
    <3>3. CASE cond[i].c = "or"
      <4>1. B[i] = OrBranches(B[l], B[r])
        BY <1>2, <3>3, Zenon DEF ValueBranches
      <4>2. H[i] = H[l] \cup H[r]
        BY <1>2, <3>3, Zenon DEF ValueNodes
      <4>3. CASE n \in H[l]
        BY <3>1, <4>1, <4>2, <4>3, SetOperations DEF OrBranches
      <4>4. CASE n \notin H[l] /\ n \in H[r]
        BY <3>1, <4>1, <4>2, <4>4, SetOperations DEF OrBranches
      <4>5. CASE n \notin H[l] /\ n \notin H[r]
        BY <3>1, <4>1, <4>2, <4>5, SetOperations DEF OrBranches
      <4> QED BY <4>3, <4>4, <4>5
    <3> QED BY <2>4, <3>2, <3>3
  <2>5. CASE cond[i].c \in Regions
    <3>1. i = N
      BY <1>1, <2>5 DEF ConditionOk, Regions, N
    <3> QED BY <2>5, <3>1 DEF Root, N
  <2> QED BY <1>1, <2>1, <2>2, <2>3, <2>4, <2>5 DEF ConditionOk
<1> HIDE DEF Right
<1>5. \A i \in 1 .. N : Right(i)
  <2> DEFINE T == {i \in 1 .. N : ~Right(i)}
  <2> SUFFICES ASSUME T # {} PROVE FALSE
    OBVIOUS
  <2>1. PICK m \in T : \A i \in T : m <= i
    <3>1. T \in SUBSET Nat
      BY <1>1
    <3> HIDE DEF T
    <3> QED BY <3>1, NatMin
  <2>2. ASSUME NEW j \in 1 .. m - 1
        PROVE  Right(j)
    <3>1. j \in 1 .. N /\ ~(m <= j)
      BY <1>1
    <3> QED BY <2>1, <3>1
  <2> QED BY <1>4, <2>2
<1>6. Right(N)
  BY <1>1, <1>5
<1> QED BY <1>6 DEF Right, Holds, BranchDomains, N, B, H

(* Without a flag, a node in the domain of an arm takes that arm.          *)
Has(d, n) == d.known /\ n \in d.nodes

LEMMA SetMembers ==
  ASSUME NEW a, NEW b, NEW n
  PROVE  /\ ~Has(Unknown, n)
         /\ Has(IntersectWith(a, b), n) => Has(a, n) /\ Has(b, n)
         /\ Has(UnionWith(a, b), n) => Has(a, n) \/ Has(b, n)
  BY DEF Has, Unknown, Known, Lift, IntersectWith, UnionWith

LEMMA BranchesAreExact ==
  ASSUME NEW program, NEW cond, NEW cur, NEW n, ConditionOk(cond),
         \A j \in DOMAIN cond : cond[j].c # "flag", Root(cond).c \notin Regions
  PROVE  /\ Has(BranchDomains(program, cond, cur).then, n) => Has(cur, n) /\ Holds(program, cond, n)
         /\ Has(BranchDomains(program, cond, cur).else, n) => Has(cur, n) /\ ~Holds(program, cond, n)
<1> DEFINE N == Len(cond)
           B == Branches(program, cond, cur)
           H == TrueNodes(program, cond)
           Right(i) == /\ Has(B[i].then, n) => Has(cur, n) /\ n \in H[i]
                       /\ Has(B[i].else, n) => Has(cur, n) /\ n \notin H[i]
<1>1. N \in Nat /\ N >= 1 /\ DOMAIN cond = 1 .. N
  BY DEF ConditionOk, IsSeq
<1>2. ASSUME NEW i \in 1 .. N
      PROVE  /\ B[i] = ValueBranches(program, cond[i], cur, B[cond[i].l], B[cond[i].r])
             /\ H[i] = ValueNodes(program, cond[i], H[cond[i].l], H[cond[i].r])
  <2> HIDE DEF N
  <2> QED BY <1>1, BranchesAreDefined, TrueNodesAreDefined
<1> HIDE DEF N, B, H
<1>3. ASSUME NEW S
      PROVE  /\ Has(ExactBranches(program, S, cur).then, n) => Has(cur, n) /\ n \in S
             /\ Has(ExactBranches(program, S, cur).else, n) => Has(cur, n) /\ n \notin S
  BY DEF ExactBranches, Has, IntersectWith, Subtract, Lift, Known, Unknown, Full
<1>4. ASSUME NEW i \in 1 .. N, \A j \in 1 .. i - 1 : Right(j)
      PROVE  Right(i)
  <2>1. CASE cond[i].c = "role"
    <3>1. B[i] = ExactBranches(program, RoleNodes(program, cond[i].net, cond[i].role), cur)
      BY <1>2, <2>1, Zenon DEF ValueBranches
    <3>2. H[i] = RoleNodes(program, cond[i].net, cond[i].role)
      BY <1>2, <2>1, Zenon DEF ValueNodes
    <3> QED BY <1>3, <3>1, <3>2
  <2>2. CASE cond[i].c = "at"
    <3>1. B[i] = IF cond[i].evaluable THEN ExactBranches(program, cond[i].nodes, cur) ELSE BothArms(Unknown)
      BY <1>2, <2>2, Zenon DEF ValueBranches
    <3>2. H[i] = cond[i].nodes
      BY <1>2, <2>2, Zenon DEF ValueNodes
    <3>3. CASE cond[i].evaluable
      BY <1>3, <3>1, <3>2, <3>3
    <3>4. CASE ~cond[i].evaluable
      BY <3>1, <3>4, SetMembers DEF BothArms
    <3> QED BY <3>3, <3>4
  <2>3. CASE cond[i].c \in {"and", "or"}
    <3> DEFINE l == cond[i].l
               r == cond[i].r
    <3>1. Right(l) /\ Right(r)
      <4>1. l \in 1 .. i - 1 /\ r \in 1 .. i - 1
        BY <1>1, <2>3 DEF ConditionOk, Regions
      <4> QED BY <1>4, <4>1
    <3>2. CASE cond[i].c = "and"
      <4>1. B[i] = AndBranches(B[l], B[r])
        BY <1>2, <3>2, Zenon DEF ValueBranches
      <4>2. H[i] = H[l] \cap H[r]
        BY <1>2, <3>2, Zenon DEF ValueNodes
      <4> QED BY <3>1, <4>1, <4>2, SetMembers DEF AndBranches
    <3>3. CASE cond[i].c = "or"
      <4>1. B[i] = OrBranches(B[l], B[r])
        BY <1>2, <3>3, Zenon DEF ValueBranches
      <4>2. H[i] = H[l] \cup H[r]
        BY <1>2, <3>3, Zenon DEF ValueNodes
      <4> QED BY <3>1, <4>1, <4>2, SetMembers DEF OrBranches
    <3> QED BY <2>3, <3>2, <3>3
  <2>4. CASE cond[i].c \in Regions
    <3>1. i = N
      BY <1>1, <2>4 DEF ConditionOk, Regions, N
    <3> QED BY <2>4, <3>1 DEF Root, N
  <2> QED BY <1>1, <2>1, <2>2, <2>3, <2>4 DEF ConditionOk
<1> HIDE DEF Right
<1>5. \A i \in 1 .. N : Right(i)
  <2> DEFINE T == {i \in 1 .. N : ~Right(i)}
  <2> SUFFICES ASSUME T # {} PROVE FALSE
    OBVIOUS
  <2>1. PICK m \in T : \A i \in T : m <= i
    <3>1. T \in SUBSET Nat
      BY <1>1
    <3> HIDE DEF T
    <3> QED BY <3>1, NatMin
  <2>2. ASSUME NEW j \in 1 .. m - 1
        PROVE  Right(j)
    <3>1. j \in 1 .. N /\ ~(m <= j)
      BY <1>1
    <3> QED BY <2>1, <3>1
  <2> QED BY <1>4, <2>2
<1>6. Right(N)
  BY <1>1, <1>5
<1> QED BY <1>6 DEF Right, Holds, BranchDomains, N, B, H

-----------------------------------------------------------------------------
(* Along a path.                                                           *)
Taken(program, step, n) == Holds(program, step.cond, n) <=> step.arm = "then"

(* A scope excludes nobody who comes to it.                                *)
InItsScopes(program, path, n) ==
  \A i \in DOMAIN path :
    Root(path[i].cond).c = "scope" => n \in ScopeNodes(program, Root(path[i].cond).roles)

LEMMA RegionsHold ==
  ASSUME NEW program, NEW cond, NEW n, ConditionOk(cond)
  PROVE  /\ Root(cond).c = "if_src" => (Holds(program, cond, n) <=> n = Root(cond).pipe.src)
         /\ Root(cond).c = "if_dst" => (Holds(program, cond, n) <=> n \in Destinations(Root(cond).pipe))
         /\ Root(cond).c = "scope" => (Holds(program, cond, n) <=> n \in program.grid)
<1>1. Len(cond) \in DOMAIN cond
  BY DEF ConditionOk, IsSeq
<1> DEFINE v == Root(cond)
<1>2. TrueNodes(program, cond)[Len(cond)] =
        ValueNodes(program, v, TrueNodes(program, cond)[v.l], TrueNodes(program, cond)[v.r])
  BY <1>1, TrueNodesAreDefined DEF Root
<1> HIDE DEF v
<1>3. CASE v.c = "if_src"
  <2>1. TrueNodes(program, cond)[Len(cond)] = {v.pipe.src}
    BY <1>2, <1>3, Zenon DEF ValueNodes
  <2> QED BY <1>3, <2>1 DEF Holds, v
<1>4. CASE v.c = "if_dst"
  <2>1. TrueNodes(program, cond)[Len(cond)] = Destinations(v.pipe)
    BY <1>2, <1>4, Zenon DEF ValueNodes
  <2> QED BY <1>4, <2>1 DEF Holds, v
<1>5. CASE v.c = "scope"
  <2>1. TrueNodes(program, cond)[Len(cond)] = program.grid
    BY <1>2, <1>5, Zenon DEF ValueNodes
  <2> QED BY <1>5, <2>1 DEF Holds, v
<1> QED BY <1>3, <1>4, <1>5 DEF v

LEMMA EnterCovers ==
  ASSUME NEW program, NEW scopes, NEW cur, NEW path, NEW i \in DOMAIN path,
         NEW n \in program.grid, PathOk(path), Covers(cur, n), Taken(program, path[i], n),
         scopes = "narrow" => InItsScopes(program, path, n)
  PROVE  Covers(Enter(program, scopes, cur, path[i]), n)
<1> DEFINE step == path[i]
           v == Root(step.cond)
<1>1. ConditionOk(step.cond) /\ step.arm \in {"then", "else"} /\ (v.c \in Regions => step.arm = "then")
  BY DEF PathOk
<1>2. ASSUME NEW S, n \in S PROVE Covers(IntersectWith(cur, Known(S)), n)
  BY <1>2 DEF Covers, IntersectWith, Lift, Known, Unknown
<1>3. CASE v.c = "if_src"
  <2>1. n \in {v.pipe.src}
    BY <1>1, <1>3, RegionsHold DEF Taken, Regions
  <2>2. Enter(program, scopes, cur, step) = IntersectWith(cur, Known({v.pipe.src}))
    BY <1>3, Zenon DEF Enter
  <2> QED BY <1>2, <2>1, <2>2
<1>4. CASE v.c = "if_dst"
  <2>1. n \in Destinations(v.pipe)
    BY <1>1, <1>4, RegionsHold DEF Taken, Regions
  <2>2. Enter(program, scopes, cur, step) = IntersectWith(cur, Known(Destinations(v.pipe)))
    BY <1>4, Zenon DEF Enter
  <2> QED BY <1>2, <2>1, <2>2
<1>5. CASE v.c = "scope"
  <2>1. Enter(program, scopes, cur, step) =
          IF scopes = "narrow" THEN IntersectWith(cur, Known(ScopeNodes(program, v.roles))) ELSE cur
    BY <1>5, Zenon DEF Enter
  <2>2. scopes = "narrow" => n \in ScopeNodes(program, v.roles)
    BY <1>5 DEF InItsScopes
  <2>3. CASE scopes = "narrow"
    BY <1>2, <2>1, <2>2, <2>3
  <2>4. CASE scopes # "narrow"
    BY <2>1, <2>4
  <2> QED BY <2>3, <2>4
<1>6. CASE v.c \notin Regions
  <2>1. Enter(program, scopes, cur, step) =
          IF step.arm = "then" THEN BranchDomains(program, step.cond, cur).then
          ELSE BranchDomains(program, step.cond, cur).else
    BY <1>6, Zenon DEF Enter, Regions
  <2>2. IF Holds(program, step.cond, n) THEN Covers(BranchDomains(program, step.cond, cur).then, n)
        ELSE Covers(BranchDomains(program, step.cond, cur).else, n)
    BY <1>1, <1>6, BranchesCover
  <2> QED BY <1>1, <2>1, <2>2 DEF Taken
<1> QED BY <1>3, <1>4, <1>5, <1>6 DEF Regions

LEMMA EnterIsExact ==
  ASSUME NEW program, NEW cur, NEW path, NEW i \in DOMAIN path,
         NEW n \in program.grid, PathOk(path), \A j \in DOMAIN path[i].cond : path[i].cond[j].c # "flag",
         Has(Enter(program, "open", cur, path[i]), n)
  PROVE  Has(cur, n) /\ Taken(program, path[i], n)
<1> DEFINE step == path[i]
           v == Root(step.cond)
<1>1. ConditionOk(step.cond) /\ step.arm \in {"then", "else"} /\ (v.c \in Regions => step.arm = "then")
  BY DEF PathOk
<1>2. ASSUME NEW S, Has(IntersectWith(cur, Known(S)), n) PROVE Has(cur, n) /\ n \in S
  BY <1>2 DEF Has, IntersectWith, Lift, Known, Unknown
<1>3. CASE v.c = "if_src"
  <2>1. Enter(program, "open", cur, step) = IntersectWith(cur, Known({v.pipe.src}))
    BY <1>3, Zenon DEF Enter
  <2>2. Has(cur, n) /\ n \in {v.pipe.src}
    BY <1>2, <2>1
  <2> QED BY <1>1, <1>3, <2>2, RegionsHold DEF Taken, Regions
<1>4. CASE v.c = "if_dst"
  <2>1. Enter(program, "open", cur, step) = IntersectWith(cur, Known(Destinations(v.pipe)))
    BY <1>4, Zenon DEF Enter
  <2>2. Has(cur, n) /\ n \in Destinations(v.pipe)
    BY <1>2, <2>1
  <2> QED BY <1>1, <1>4, <2>2, RegionsHold DEF Taken, Regions
<1>5. CASE v.c = "scope"
  <2>1. Enter(program, "open", cur, step) = cur
    BY <1>5, Zenon DEF Enter
  <2> QED BY <1>1, <1>5, <2>1, RegionsHold DEF Taken, Regions
<1>6. CASE v.c \notin Regions
  <2>1. Enter(program, "open", cur, step) =
          IF step.arm = "then" THEN BranchDomains(program, step.cond, cur).then
          ELSE BranchDomains(program, step.cond, cur).else
    BY <1>6, Zenon DEF Enter, Regions
  <2>2. /\ Has(BranchDomains(program, step.cond, cur).then, n) => Has(cur, n) /\ Holds(program, step.cond, n)
        /\ Has(BranchDomains(program, step.cond, cur).else, n) => Has(cur, n) /\ ~Holds(program, step.cond, n)
    BY <1>1, <1>6, BranchesAreExact
  <2> QED BY <1>1, <2>1, <2>2 DEF Taken
<1> QED BY <1>3, <1>4, <1>5, <1>6 DEF Regions

LEMMA PathCovers ==
  ASSUME NEW program, NEW scopes, NEW path, NEW n \in program.grid, PathOk(path),
         \A i \in DOMAIN path : Taken(program, path[i], n), scopes = "narrow" => InItsScopes(program, path, n)
  PROVE  \A i \in 0 .. Len(path) : Covers(DomainsAlong(program, scopes, path)[i], n)
<1> DEFINE D == DomainsAlong(program, scopes, path)
           T == {i \in 0 .. Len(path) : ~Covers(D[i], n)}
<1>1. IsSeq(path) /\ Len(path) \in Nat /\ DOMAIN path = 1 .. Len(path)
  BY DEF PathOk, IsSeq
<1>2. \A i \in 0 .. Len(path) :
        D[i] = IF i = 0 THEN Full(program) ELSE Enter(program, scopes, D[i - 1], path[i])
  BY <1>1, DomainsAreDefined
<1> HIDE DEF D
<1> SUFFICES ASSUME T # {} PROVE FALSE
  BY DEF D
<1>3. PICK m \in T : \A i \in T : m <= i
  <2>1. T \in SUBSET Nat
    BY <1>1
  <2> HIDE DEF T
  <2> QED BY <2>1, NatMin
<1>4. m \in 0 .. Len(path) /\ ~Covers(D[m], n)
  OBVIOUS
<1>5. CASE m = 0
  BY <1>2, <1>4, <1>5 DEF Covers, Full, Known
<1>6. CASE m # 0
  <2>1. m - 1 \in 0 .. Len(path) /\ ~(m <= m - 1) /\ m \in DOMAIN path
    BY <1>1, <1>4, <1>6
  <2>2. Covers(D[m - 1], n)
    BY <1>3, <2>1
  <2>3. D[m] = Enter(program, scopes, D[m - 1], path[m])
    BY <1>2, <1>4, <1>6
  <2>4. Covers(Enter(program, scopes, D[m - 1], path[m]), n)
    BY <2>1, <2>2, EnterCovers
  <2> QED BY <1>4, <2>3, <2>4
<1> QED BY <1>5, <1>6

LEMMA PathIsExact ==
  ASSUME NEW program, NEW path, NEW n \in program.grid, PathOk(path),
         \A i \in DOMAIN path : \A j \in DOMAIN path[i].cond : path[i].cond[j].c # "flag",
         Has(DomainUnder(program, "open", path), n)
  PROVE  \A i \in DOMAIN path : Taken(program, path[i], n)
<1> DEFINE D == DomainsAlong(program, "open", path)
           N == Len(path)
           T == {i \in 0 .. N : ~Has(D[N - i], n)}
<1>1. IsSeq(path) /\ N \in Nat /\ DOMAIN path = 1 .. N
  BY DEF PathOk, IsSeq
<1>2. \A i \in 0 .. N :
        D[i] = IF i = 0 THEN Full(program) ELSE Enter(program, "open", D[i - 1], path[i])
  BY <1>1, DomainsAreDefined
<1>3. Has(D[N], n)
  BY DEF DomainUnder
<1> HIDE DEF D, N
<1>4. ASSUME NEW i \in 1 .. N, Has(D[i], n)
      PROVE  Has(D[i - 1], n) /\ Taken(program, path[i], n)
  <2>1. D[i] = Enter(program, "open", D[i - 1], path[i])
    <3>1. i \in 0 .. N /\ i # 0
      BY <1>1
    <3> QED BY <1>2, <3>1
  <2> QED BY <1>1, <1>4, <2>1, EnterIsExact
<1>5. T = {}
  <2> SUFFICES ASSUME T # {} PROVE FALSE
    OBVIOUS
  <2>1. PICK m \in T : \A i \in T : m <= i
    <3>1. T \in SUBSET Nat
      BY <1>1
    <3> HIDE DEF T
    <3> QED BY <3>1, NatMin
  <2>2. m \in 0 .. N /\ ~Has(D[N - m], n)
    OBVIOUS
  <2>3. m # 0
    BY <1>1, <1>3, <2>2
  <2>4. m - 1 \in 0 .. N /\ ~(m <= m - 1) /\ N - (m - 1) \in 1 .. N
    BY <1>1, <2>2, <2>3
  <2>5. Has(D[N - (m - 1)], n)
    BY <2>1, <2>4
  <2>6. N - (m - 1) - 1 = N - m
    BY <1>1, <2>2
  <2> HIDE DEF T
  <2> QED BY <1>4, <2>2, <2>4, <2>5, <2>6
<1>6. ASSUME NEW i \in DOMAIN path
      PROVE  Taken(program, path[i], n)
  <2>1. N - i \in 0 .. N /\ N - (N - i) = i /\ i \in 1 .. N
    BY <1>1
  <2>2. Has(D[i], n)
    BY <1>5, <2>1
  <2> QED BY <1>4, <2>1, <2>2
<1> QED BY <1>6

(* An operation runs at nodes of its domain, when no scope on its way      *)
(* excludes them; it runs at all of them when no flag is on its way.       *)
LEMMA DomainCovers ==
  ASSUME NEW program, NEW scopes, NEW pos \in Positions(program), NEW n \in program.grid,
         ModuleOk(program), Runs(program, At(program, pos), n),
         scopes = "narrow" => InItsScopes(program, At(program, pos).path, n)
  PROVE  Covers(DomainAt(program, scopes, pos), n)
<1> DEFINE path == At(program, pos).path
<1>1. PathOk(path)
  BY DEF ModuleOk, OpOk
<1>2. Len(path) \in 0 .. Len(path)
  BY <1>1 DEF PathOk, IsSeq
<1>3. \A i \in DOMAIN path : Taken(program, path[i], n)
  BY DEF Runs, Taken
<1>4. Covers(DomainUnder(program, scopes, path), n)
  BY <1>1, <1>2, <1>3, PathCovers DEF DomainUnder
<1> QED BY <1>4, SetOperations DEF DomainAt

LEMMA DomainIsExact ==
  ASSUME NEW program, NEW pos \in Positions(program), NEW n \in program.grid,
         ModuleOk(program), Steady(At(program, pos)), Has(DomainAt(program, "open", pos), n)
  PROVE  Runs(program, At(program, pos), n)
<1> DEFINE path == At(program, pos).path
<1>1. PathOk(path)
  BY DEF ModuleOk, OpOk
<1>2. Has(DomainUnder(program, "open", path), n)
  BY SetMembers DEF DomainAt
<1>3. \A i \in DOMAIN path : Taken(program, path[i], n)
  BY <1>1, <1>2, PathIsExact DEF Steady
<1> QED BY <1>3 DEF Runs, Taken

(* The scopes of an accepted module exclude nobody.                        *)
LEMMA ScopesExcludeNobody ==
  ASSUME NEW program, NEW pos \in Positions(program), NEW n \in program.grid,
         ModuleOk(program), VerifyPipeNetGuards(program), Runs(program, At(program, pos), n)
  PROVE  InItsScopes(program, At(program, pos).path, n)
<1> DEFINE path == At(program, pos).path
<1>1. PathOk(path) /\ \A i \in DOMAIN path : Taken(program, path[i], n)
  BY DEF ModuleOk, OpOk, Runs, Taken
<1>2. CASE program.pipes = {}
  BY <1>2 DEF ModuleOk, OpOk, InItsScopes
<1>3. CASE program.pipes # {}
  <2> SUFFICES ASSUME NEW i \in DOMAIN path, Root(path[i].cond).c = "scope"
               PROVE  n \in ScopeNodes(program, Root(path[i].cond).roles)
    BY DEF InItsScopes
  <2>1. IsSubsetOf(DomainsAlong(program, "open", path)[i - 1],
                   Known(ScopeNodes(program, Root(path[i].cond).roles)))
    BY <1>3 DEF VerifyPipeNetGuards, ScopesOk
  <2>2. i - 1 \in 0 .. Len(path)
    BY <1>1 DEF PathOk, IsSeq
  <2>3. Covers(DomainsAlong(program, "open", path)[i - 1], n)
    BY <1>1, <2>2, PathCovers
  <2> QED BY <2>1, <2>3 DEF Covers, IsSubsetOf, Known
<1> QED BY <1>2, <1>3

-----------------------------------------------------------------------------
(* The passes and the code of a thread keep operations or add waits.       *)
LEMMA FlattenHas ==
  ASSUME NEW S, NEW seqs, IsSeq(seqs), \A i \in 1 .. Len(seqs) : seqs[i] \in Seq(S)
  PROVE  \A k \in 1 .. Len(seqs) : \A x \in 1 .. Len(seqs[k]) :
           \E y \in 1 .. Len(FlattenSeq(seqs)) : FlattenSeq(seqs)[y] = seqs[k][x]
<1> TAKE k \in 1 .. Len(seqs)
<1> TAKE z \in 1 .. Len(seqs[k])
<1> DEFINE e == seqs[k][z]
<1>0. \E x \in 1 .. Len(seqs[k]) : seqs[k][x] = e
  OBVIOUS
<1> HIDE DEF e
<1> SUFFICES \E x \in 1 .. Len(FlattenSeq(seqs)) : FlattenSeq(seqs)[x] = e
  BY DEF e
<1> DEFINE N == Len(seqs)
           In1(s) == s \in Seq(S) /\ \E x \in 1 .. Len(s) : s[x] = e
<1>1. N \in Nat /\ N >= 1 /\ k \in 1 .. N
  BY DEF IsSeq
<1>2. PICK f : /\ FlattenSeq(seqs) = f[N]
               /\ \A i \in 1 .. N : f[i] = IF i = 1 THEN seqs[i] ELSE f[i - 1] \o seqs[i]
  BY <1>1, FlattenIsDefined
<1>3. \A i \in 1 .. N : seqs[i] \in Seq(S)
  OBVIOUS
<1> HIDE DEF N
<1>4. \A i \in 1 .. N : f[i] \in Seq(S)
  <2> DEFINE T == {i \in 1 .. N : f[i] \notin Seq(S)}
  <2> SUFFICES ASSUME T # {} PROVE FALSE
    OBVIOUS
  <2>1. PICK m \in T : \A i \in T : m <= i
    <3>1. T \in SUBSET Nat
      BY <1>1
    <3> HIDE DEF T
    <3> QED BY <3>1, NatMin
  <2>2. m \in 1 .. N /\ seqs[m] \in Seq(S) /\ f[m] \notin Seq(S)
    BY <1>3
  <2>3. CASE m = 1
    BY <1>2, <2>2, <2>3
  <2>4. CASE m # 1
    <3>1. m - 1 \in 1 .. N /\ ~(m <= m - 1)
      BY <1>1, <2>2, <2>4
    <3>2. f[m - 1] \in Seq(S)
      BY <2>1, <3>1
    <3>3. f[m] = f[m - 1] \o seqs[m]
      BY <1>2, <2>2, <2>4
    <3> QED BY <2>2, <3>2, <3>3
  <2> QED BY <2>3, <2>4
<1>5. ASSUME NEW s, NEW t, s \in Seq(S), t \in Seq(S), In1(s) \/ In1(t)
      PROVE  In1(s \o t)
  <2>1. s \o t \in Seq(S) /\ Len(s \o t) = Len(s) + Len(t)
    BY <1>5
  <2>2. CASE In1(s)
    <3>1. PICK x \in 1 .. Len(s) : s[x] = e
      BY <2>2
    <3>2. x \in 1 .. Len(s \o t) /\ (s \o t)[x] = e
      BY <1>5, <2>1, <3>1
    <3> QED BY <2>1, <3>2
  <2>3. CASE In1(t)
    <3>1. PICK x \in 1 .. Len(t) : t[x] = e
      BY <2>3
    <3>2. Len(s) + x \in 1 .. Len(s \o t) /\ (s \o t)[Len(s) + x] = e
      BY <1>5, <2>1, <3>1
    <3> QED BY <2>1, <3>2
  <2> QED BY <1>5, <2>2, <2>3
<1>6. In1(seqs[k])
  BY <1>0, <1>1, <1>3
<1> HIDE DEF In1
<1>7. In1(f[k])
  <2>1. CASE k = 1
    BY <1>1, <1>2, <1>6, <2>1
  <2>2. CASE k # 1
    <3>1. k - 1 \in 1 .. N
      BY <1>1, <2>2
    <3>2. f[k] = f[k - 1] \o seqs[k]
      BY <1>1, <1>2, <2>2
    <3> QED BY <1>1, <1>3, <1>4, <1>5, <1>6, <3>1, <3>2
  <2> QED BY <2>1, <2>2
<1> DEFINE T == {i \in k .. N : ~In1(f[i])}
<1>8. T = {}
  <2> SUFFICES ASSUME T # {} PROVE FALSE
    OBVIOUS
  <2>1. PICK m \in T : \A i \in T : m <= i
    <3>1. T \in SUBSET Nat
      BY <1>1
    <3> HIDE DEF T
    <3> QED BY <3>1, NatMin
  <2>2. m \in k .. N /\ ~In1(f[m])
    OBVIOUS
  <2>3. m # k
    BY <1>7, <2>2
  <2>4. m - 1 \in k .. N /\ ~(m <= m - 1) /\ m - 1 \in 1 .. N /\ m \in 1 .. N /\ m # 1
    BY <1>1, <2>2, <2>3
  <2>5. In1(f[m - 1])
    BY <2>1, <2>4
  <2>6. f[m] = f[m - 1] \o seqs[m]
    BY <1>2, <2>4
  <2> HIDE DEF T
  <2> QED BY <1>3, <1>4, <1>5, <2>2, <2>4, <2>5, <2>6
<1>9. In1(f[N])
  BY <1>1, <1>8
<1> QED BY <1>2, <1>9 DEF In1

LEMMA FlattenIsSeq ==
  ASSUME NEW S, NEW seqs, IsSeq(seqs), \A i \in 1 .. Len(seqs) : seqs[i] \in Seq(S)
  PROVE  IsSeq(FlattenSeq(seqs)) /\ \A x \in DOMAIN FlattenSeq(seqs) : FlattenSeq(seqs)[x] \in S
<1>1. CASE Len(seqs) = 0
  <2>1. FlattenSeq(seqs) = seqs
    BY <1>1 DEF FlattenSeq
  <2> QED BY <1>1, <2>1 DEF IsSeq
<1>2. CASE Len(seqs) # 0
  <2>1. FlattenSeq(seqs) \in Seq(S)
    BY <1>2, FlattenKeeps
  <2> QED BY <2>1 DEF IsSeq
<1> QED BY <1>1, <1>2

LEMMA InsertedWaits ==
  ASSUME NEW p, ModuleOk(p)
  PROVE  ModuleOk(InsertCopyWait(p))
<1> DEFINE q == InsertCopyWait(p)
           named == {At(p, w).of : w \in OpsOf(p, {"wait"})}
           added(op) == WaitOp(<<op.id, "wait">>, op.path, op.pipe, op.id)
           expand(op) == IF op.kind = "post" /\ op.id \notin named THEN <<op, added(op)>> ELSE <<op>>
           pieces(f) == [i \in DOMAIN p.funcs[f] |-> expand(p.funcs[f][i])]
           funcs == [f \in DOMAIN p.funcs |-> FlattenSeq(pieces(f))]
<1>1. p = [grid |-> p.grid, pipes |-> p.pipes, flag |-> p.flag, funcs |-> p.funcs]
  BY DEF ModuleOk
<1>2. q = [p EXCEPT !.funcs = funcs]
  BY <1>1 DEF InsertCopyWait
<1> HIDE DEF q, funcs
<1>3. q = [grid |-> p.grid, pipes |-> p.pipes, flag |-> p.flag, funcs |-> funcs]
  BY <1>1, <1>2
<1>4. ASSUME NEW f \in DOMAIN p.funcs
      PROVE  IsSeq(funcs[f]) /\ \A x \in DOMAIN funcs[f] : OpOk(p, funcs[f][x])
  <2> DEFINE ops == p.funcs[f]
             S == {op \in {ops[i] : i \in DOMAIN ops} \cup {added(ops[i]) : i \in DOMAIN ops} : OpOk(p, op)}
  <2>1. IsSeq(ops) /\ \A i \in DOMAIN ops : OpOk(p, ops[i])
    <3>1. \A i \in DOMAIN ops : <<f, i>> \in Positions(p) /\ At(p, <<f, i>>) = ops[i]
      BY DEF Positions, At
    <3> QED BY <3>1 DEF ModuleOk
  <2>2. ASSUME NEW i \in DOMAIN ops
        PROVE  expand(ops[i]) \in Seq(S)
    <3>1. ops[i] \in S
      BY <2>1
    <3>2. CASE ops[i].kind = "post" /\ ops[i].id \notin named
      <4>1. OpOk(p, added(ops[i]))
        <5>1. /\ added(ops[i]).path = ops[i].path
              /\ added(ops[i]).pipe = ops[i].pipe /\ added(ops[i]).kind = "wait"
          BY DEF WaitOp, Op
        <5> HIDE DEF added
        <5> QED BY <2>1, <3>2, <5>1 DEF OpOk
      <4>2. added(ops[i]) \in S
        BY <4>1
      <4>3. expand(ops[i]) = <<ops[i], added(ops[i])>>
        BY <3>2
      <4> HIDE DEF S, added, expand
      <4> QED BY <3>1, <4>2, <4>3
    <3>3. CASE ~(ops[i].kind = "post" /\ ops[i].id \notin named)
      <4>1. expand(ops[i]) = <<ops[i]>>
        BY <3>3
      <4> HIDE DEF S, added, expand
      <4> QED BY <3>1, <4>1
    <3> QED BY <3>2, <3>3
  <2>3. IsSeq(pieces(f)) /\ Len(pieces(f)) = Len(ops)
    <3> HIDE DEF expand
    <3> QED BY <2>1 DEF IsSeq
  <2>4. \A i \in 1 .. Len(pieces(f)) : pieces(f)[i] \in Seq(S)
    <3>1. ASSUME NEW i \in 1 .. Len(pieces(f)) PROVE pieces(f)[i] \in Seq(S)
      <4>1. i \in DOMAIN ops
        BY <2>1, <2>3 DEF IsSeq
      <4>2. pieces(f)[i] = expand(ops[i])
        <5> HIDE DEF expand
        <5> QED BY <4>1
      <4> HIDE DEF pieces, expand, S
      <4> QED BY <2>2, <4>1, <4>2
    <3> QED BY <3>1
  <2>5. funcs[f] = FlattenSeq(pieces(f))
    <3> HIDE DEF pieces
    <3> QED BY DEF funcs
  <2>6. IsSeq(funcs[f]) /\ \A x \in DOMAIN funcs[f] : funcs[f][x] \in S
    <3> HIDE DEF pieces, S
    <3> QED BY <2>3, <2>4, <2>5, FlattenIsSeq
  <2> QED BY <2>6
<1>5. DOMAIN funcs = DOMAIN p.funcs
  BY DEF funcs
<1>6. ASSUME NEW pos \in Positions(q)
      PROVE  OpOk(q, At(q, pos))
  <2>1. PICK f \in DOMAIN funcs : pos \in {f} \X DOMAIN funcs[f]
    BY <1>3 DEF Positions
  <2>2. pos[1] = f /\ pos[2] \in DOMAIN funcs[f]
    BY <2>1
  <2>3. At(q, pos) = funcs[f][pos[2]]
    BY <1>3, <2>2 DEF At
  <2>4. OpOk(p, At(q, pos))
    BY <1>4, <1>5, <2>2, <2>3
  <2> QED BY <1>3, <2>4 DEF OpOk
<1> QED BY <1>3, <1>4, <1>5, <1>6 DEF ModuleOk, q

(* The code of a thread are the operations of its function that run.       *)
LEMMA CodeIsWhatRuns ==
  ASSUME ModuleOk(prog), NEW t \in Threads
  PROVE  /\ IsSeq(Code(t))
         /\ \A i \in DOMAIN Code(t) : \E k \in DOMAIN prog.funcs[t[2]] :
              Code(t)[i] = prog.funcs[t[2]][k] /\ Runs(prog, Code(t)[i], t[1])
         /\ \A k \in DOMAIN prog.funcs[t[2]] : Runs(prog, prog.funcs[t[2]][k], t[1]) =>
              \E i \in DOMAIN Code(t) : Code(t)[i] = prog.funcs[t[2]][k]
<1> DEFINE ops == prog.funcs[t[2]]
           R(op) == Runs(prog, op, t[1])
           pieces == [i \in DOMAIN ops |-> IF R(ops[i]) THEN <<ops[i]>> ELSE <<>>]
           S == {op \in {ops[i] : i \in DOMAIN ops} : R(op)}
<1>1. IsSeq(ops)
  BY DEF ModuleOk, Threads
<1>2. Code(t) = FlattenSeq(pieces)
  BY DEF Code, CodeAt
<1>3. IsSeq(pieces) /\ Len(pieces) = Len(ops)
  <2> HIDE DEF R
  <2> QED BY <1>1 DEF IsSeq
<1> HIDE DEF R
<1>4. \A i \in 1 .. Len(pieces) : pieces[i] \in Seq(S)
  <2> SUFFICES ASSUME NEW i \in 1 .. Len(pieces) PROVE pieces[i] \in Seq(S)
    OBVIOUS
  <2>1. i \in DOMAIN ops
    BY <1>1, <1>3 DEF IsSeq
  <2>2. CASE R(ops[i])
    <3>1. pieces[i] = <<ops[i]>> /\ ops[i] \in S
      BY <2>1, <2>2
    <3> HIDE DEF S, pieces
    <3> QED BY <3>1
  <2>3. CASE ~R(ops[i])
    <3>1. pieces[i] = <<>>
      BY <2>1, <2>3
    <3> HIDE DEF S, pieces
    <3> QED BY <3>1
  <2> QED BY <2>2, <2>3
<1>5. IsSeq(Code(t)) /\ \A i \in DOMAIN Code(t) : Code(t)[i] \in S
  <2> HIDE DEF pieces, S
  <2> QED BY <1>2, <1>3, <1>4, FlattenIsSeq
<1>6. ASSUME NEW k \in DOMAIN ops, R(ops[k])
      PROVE  \E i \in DOMAIN Code(t) : Code(t)[i] = ops[k]
  <2>1. k \in 1 .. Len(pieces)
    BY <1>1, <1>3 DEF IsSeq
  <2>2. pieces[k] = <<ops[k]>>
    BY <1>6
  <2>3. \E x \in 1 .. Len(FlattenSeq(pieces)) : FlattenSeq(pieces)[x] = ops[k]
    <3>1. 1 \in 1 .. Len(pieces[k]) /\ pieces[k][1] = ops[k]
      BY <2>2
    <3>2. \A j \in 1 .. Len(pieces) : \A x \in 1 .. Len(pieces[j]) :
            \E y \in 1 .. Len(FlattenSeq(pieces)) : FlattenSeq(pieces)[y] = pieces[j][x]
      <4>1. IsSeq(pieces) /\ \A i \in 1 .. Len(pieces) : pieces[i] \in Seq(S)
        BY <1>3, <1>4
      <4> HIDE DEF pieces, S
      <4> QED BY <4>1, FlattenHas, SMTT(30)
    <3> HIDE DEF pieces, S, ops
    <3> QED BY <2>1, <3>1, <3>2
  <2> HIDE DEF pieces
  <2> QED BY <1>2, <1>5, <2>3 DEF IsSeq
<1> QED BY <1>5, <1>6 DEF R

-----------------------------------------------------------------------------
(* A module under compilation is still a module; behind each verifier it   *)
(* is one that the verifier accepts; and what runs is its code.            *)
Phases == {"source", "waits", "guards", "verified", "running", "rejected"}
IInv ==
  /\ phase \in Phases
  /\ ModuleOk(prog)
  /\ phase \in {"guards", "verified", "running"} => VerifyPipeNetGuards(prog)
  /\ phase \in {"verified", "running"} => VerifyDFBSPSC(prog)
  /\ phase = "running" => image.code = [t \in Threads |-> Code(t)]

(* A running thread changes nothing of what was compiled.                  *)
LEMMA RunKeepsCompiled ==
  ASSUME Run
  PROVE  UNCHANGED compiled
<1>1. ASSUME NEW t, ThreadStep(t) PROVE UNCHANGED compiled
  <2>1. CASE Post(t)
    BY <2>1 DEF Post
  <2>2. CASE SendReady(t)
    BY <2>2 DEF SendReady
  <2>3. CASE SendReset(t)
    BY <2>3 DEF SendReset
  <2>4. CASE SendWrite(t)
    BY <2>4 DEF SendWrite
  <2>5. CASE Wait(t)
    BY <2>5 DEF Wait
  <2>6. CASE CBReserve(t)
    BY <2>6 DEF CBReserve, OnRing
  <2>7. CASE CBPush(t)
    BY <2>7 DEF CBPush, OnRing
  <2>8. CASE CBWait(t)
    BY <2>8 DEF CBWait, OnRing
  <2>9. CASE CBPop(t)
    BY <2>9 DEF CBPop, OnRing
  <2> QED BY <1>1, <2>1, <2>2, <2>3, <2>4, <2>5, <2>6, <2>7, <2>8, <2>9 DEF ThreadStep
<1>2. ASSUME NEW t, NEW n, Signal(t, n) PROVE UNCHANGED compiled
  BY <1>2 DEF Signal
<1>3. ASSUME NEW c, DeliverReady(c) PROVE UNCHANGED compiled
  BY <1>3 DEF DeliverReady
<1> QED BY <1>1, <1>2, <1>3 DEF Run

LEMMA StillCompiled ==
  ASSUME IInv, UNCHANGED compiled
  PROVE  IInv'
<1>1. phase' = phase /\ prog' = prog /\ image' = image
  BY DEF compiled
<1>2. ModuleOk(prog)' /\ phase' \in Phases
  BY <1>1 DEF IInv, Phases
<1>3. (phase \in {"guards", "verified", "running"} => VerifyPipeNetGuards(prog))'
  BY <1>1 DEF IInv
<1>4. (phase \in {"verified", "running"} => VerifyDFBSPSC(prog))'
  BY <1>1 DEF IInv
<1>5. (phase = "running" => image.code = [t \in Threads |-> Code(t)])'
  BY <1>1 DEF IInv, Threads, Code, CodeAt
<1> QED BY <1>2, <1>3, <1>4, <1>5 DEF IInv

(* The phases only go forward: no pass is left out and no rejected module  *)
(* is run (the pipeline of the compiler).                                  *)
THEOREM Invariance ==
  ASSUME ModulesOk
  PROVE  Spec => []IInv
<1>1. Init => IInv
  <2> SUFFICES ASSUME Init PROVE IInv
    OBVIOUS
  <2>1. ModuleOk(prog)
    BY DEF Init, ModulesOk
  <2>2. phase = "source"
    BY DEF Init
  <2> QED BY <2>1, <2>2 DEF IInv, Phases
<1>2. ASSUME IInv, [Next]_vars PROVE IInv'
  <2>1. CASE InsertWaits
    <3>1. phase' = "waits" /\ prog' = InsertCopyWait(prog)
      BY <2>1 DEF InsertWaits
    <3>2. ModuleOk(prog')
      BY <1>2, <3>1, InsertedWaits DEF IInv
    <3> QED BY <3>1, <3>2 DEF IInv, Phases
  <2>2. CASE VerifyGuards
    <3>1. prog' = prog /\ phase' = IF VerifyPipeNetGuards(prog) THEN "guards" ELSE "rejected"
      BY <2>2 DEF VerifyGuards
    <3> QED BY <1>2, <3>1 DEF IInv, Phases
  <2>3. CASE VerifySPSC
    <3>1. /\ prog' = prog /\ phase = "guards"
          /\ phase' = IF VerifyDFBSPSC(prog) THEN "verified" ELSE "rejected"
      BY <2>3 DEF VerifySPSC
    <3> QED BY <1>2, <3>1 DEF IInv, Phases
  <2>4. CASE Convert
    <3>1. prog' = prog /\ phase = "verified"
      BY <2>4 DEF Convert
    <3>2. CASE phase' = "rejected"
      BY <1>2, <3>1, <3>2 DEF IInv, Phases
    <3>3. CASE phase' # "rejected"
      <4>1. phase' = "running" /\ LaunchWith(ResourcePlan(prog), [t \in Threads |-> Code(t)])
        BY <2>4, <3>3 DEF Convert
      <4>2. image'.code = [t \in Threads |-> Code(t)]
        BY <4>1 DEF LaunchWith
      <4>3. Threads' = Threads /\ \A t \in Threads : Code(t)' = Code(t)
        BY <3>1 DEF Threads, Code, CodeAt
      <4>4. (image.code = [t \in Threads |-> Code(t)])'
        BY <4>2, <4>3
      <4> QED BY <1>2, <3>1, <4>1, <4>4 DEF IInv, Phases
    <3> QED BY <3>2, <3>3
  <2>5. CASE Run
    BY <1>2, <2>5, RunKeepsCompiled, StillCompiled
  <2>6. CASE UNCHANGED vars
    <3>1. UNCHANGED compiled
      BY <2>6 DEF vars, compiled
    <3> QED BY <1>2, <3>1, StillCompiled
  <2> QED BY <1>2, <2>1, <2>2, <2>3, <2>4, <2>5, <2>6 DEF Next, Compile
<1> QED BY <1>1, <1>2, PTL DEF Spec

(* The instructions of a thread are the operations of the module that run  *)
(* at its node.                                                            *)
LEMMA WhatRuns ==
  ASSUME IInv, phase = "running", NEW t \in Threads, NEW i \in DOMAIN image.code[t]
  PROVE  \E pos \in Positions(prog) :
           /\ pos[1] = t[2] /\ At(prog, pos) = image.code[t][i]
           /\ t[1] \in prog.grid /\ Runs(prog, At(prog, pos), t[1])
<1>1. image.code[t] = Code(t) /\ ModuleOk(prog)
  BY DEF IInv
<1>2. t[1] \in prog.grid /\ t[2] \in DOMAIN prog.funcs
  BY DEF Threads
<1>3. PICK k \in DOMAIN prog.funcs[t[2]] :
        Code(t)[i] = prog.funcs[t[2]][k] /\ Runs(prog, Code(t)[i], t[1])
  BY <1>1, CodeIsWhatRuns
<1>4. <<t[2], k>> \in Positions(prog) /\ At(prog, <<t[2], k>>) = image.code[t][i]
  BY <1>1, <1>2, <1>3 DEF Positions, At
<1> QED BY <1>1, <1>2, <1>3, <1>4

LEMMA WhatRunsIsThere ==
  ASSUME IInv, phase = "running", NEW pos \in Positions(prog), NEW n \in prog.grid,
         Runs(prog, At(prog, pos), n)
  PROVE  \E u \in Threads : u[1] = n /\ \E k \in DOMAIN image.code[u] : image.code[u][k] = At(prog, pos)
<1> DEFINE u == <<n, pos[1]>>
<1>1. pos[1] \in DOMAIN prog.funcs /\ pos[2] \in DOMAIN prog.funcs[pos[1]]
  BY DEF Positions
<1>2. u \in Threads /\ u[1] = n /\ u[2] = pos[1]
  BY <1>1 DEF Threads
<1>3. image.code[u] = Code(u) /\ ModuleOk(prog)
  BY <1>2 DEF IInv
<1>4. Runs(prog, prog.funcs[u[2]][pos[2]], u[1])
  BY <1>2 DEF At
<1>5. \E k \in DOMAIN Code(u) : Code(u)[k] = prog.funcs[u[2]][pos[2]]
  <2> HIDE DEF u
  <2> QED BY <1>1, <1>2, <1>3, <1>4, CodeIsWhatRuns
<1>6. \E k \in DOMAIN image.code[u] : image.code[u][k] = At(prog, pos)
  BY <1>2, <1>3, <1>5 DEF At
<1> QED BY <1>2, <1>6

-----------------------------------------------------------------------------
(* The domain analysis misses no node, whatever the conditions and however *)
(* deep the regions (LaunchNodeDomainAnalysis).                            *)
THEOREM DomainsMissNoNode ==
  ASSUME ModulesOk
  PROVE  Spec => []DomainsAreSound
<1>1. IInv => DomainsAreSound
  <2> SUFFICES ASSUME IInv, NEW pos \in Positions(prog), NEW n \in prog.grid,
                      Runs(prog, At(prog, pos), n), DomainAt(prog, "open", pos).known
               PROVE  n \in DomainAt(prog, "open", pos).nodes
    BY DEF DomainsAreSound
  <2> QED BY DomainCovers DEF IInv, Covers
<1> QED BY <1>1, Invariance, PTL

(* No node of an accepted module posts, sends or waits on a pipe without   *)
(* being at that end of it (TTLVerifyPipeNetGuards).                       *)
THEOREM AtItsEnd ==
  ASSUME ModulesOk
  PROVE  Spec => []OnlyAtItsEnd
<1>1. IInv => OnlyAtItsEnd
  <2> SUFFICES ASSUME IInv, phase = "running", NEW t \in Threads,
                      NEW i \in In(image.code, t, {"post", "send", "wait"})
               PROVE  t[1] \in RoleOf(image.code[t][i])
    BY DEF OnlyAtItsEnd
  <2>1. i \in DOMAIN image.code[t] /\ image.code[t][i].kind \in {"post", "send", "wait"}
    BY DEF In
  <2>2. PICK pos \in Positions(prog) :
          /\ At(prog, pos) = image.code[t][i]
          /\ t[1] \in prog.grid /\ Runs(prog, At(prog, pos), t[1])
    BY <2>1, WhatRuns
  <2>3. At(prog, pos).pipe \in prog.pipes
    BY <2>1, <2>2 DEF IInv, ModuleOk, OpOk
  <2>4. GuardsOk(prog)
    BY <2>3 DEF IInv, VerifyPipeNetGuards
  <2>5. IsSubsetOf(DomainAt(prog, "open", pos), Known(RoleOf(At(prog, pos))))
    BY <2>1, <2>2, <2>4 DEF GuardsOk, OpsOf
  <2>6. Covers(DomainAt(prog, "open", pos), t[1])
    BY <2>2, DomainCovers DEF IInv
  <2> QED BY <2>2, <2>5, <2>6 DEF IsSubsetOf, Known, Covers
<1> QED BY <1>1, Invariance, PTL

(* Every buffer of an accepted module has one producer and one consumer    *)
(* thread at a node (TTLVerifyDFBSPSC).  That this pass lets               *)
(* ttl.pipenet_scope narrow is sound because the guard verifier has seen   *)
(* before it that no node outside the scope's roles enters it.             *)
THEOREM OneThread ==
  ASSUME ModulesOk
  PROVE  Spec => []OneThreadPerEnd
<1>1. IInv => OneThreadPerEnd
  <2> SUFFICES ASSUME IInv, phase = "running", NEW s \in Threads, NEW t \in Threads,
                      NEW kind \in {"cb_reserve", "cb_wait"},
                      NEW i \in In(image.code, s, {kind}), NEW j \in In(image.code, t, {kind}),
                      s[1] = t[1], image.code[s][i].buf = image.code[t][j].buf, s # t
               PROVE  FALSE
    BY DEF OneThreadPerEnd
  <2> DEFINE buf == image.code[s][i].buf
             f == s[2]
             g == t[2]
             n == s[1]
             D == [h \in Participants(prog, kind, buf) |-> ParticipantDomain(prog, kind, buf, h)]
  <2>1. f # g
    BY DEF Threads
  <2>2. PICK a \in Positions(prog) :
          /\ a[1] = f /\ At(prog, a) = image.code[s][i]
          /\ n \in prog.grid /\ Runs(prog, At(prog, a), n)
    BY WhatRuns DEF In
  <2>3. PICK b \in Positions(prog) :
          /\ b[1] = g /\ At(prog, b) = image.code[t][j]
          /\ n \in prog.grid /\ Runs(prog, At(prog, b), n)
    BY WhatRuns DEF In
  <2>4. a \in Acquires(prog, kind, buf, f) /\ b \in Acquires(prog, kind, buf, g)
    BY <2>2, <2>3 DEF Acquires, OpsOf, In
  <2>5. f \in DOMAIN D /\ g \in DOMAIN D
    BY <2>2, <2>3, <2>4 DEF Participants, Positions
  <2>6. Disjoint(D)
    <3>1. buf \in {At(prog, pos).buf : pos \in Positions(prog)}
      BY <2>2
    <3>2. VerifyDFBSPSC(prog)
      BY DEF IInv
    <3>3. OneThreadPerNode(prog, kind, buf)
      <4> HIDE DEF buf
      <4> QED BY <3>1, <3>2 DEF VerifyDFBSPSC
    <3> QED BY <3>3 DEF OneThreadPerNode
  <2>7. /\ IntersectWith(D[f], D[g]).known
        /\ IntersectWith(D[f], D[g]).nodes = {}
    <3> HIDE DEF D
    <3> QED BY <2>1, <2>5, <2>6 DEF Disjoint
  <2>8. D[f].known /\ D[g].known /\ D[f].nodes \cap D[g].nodes = {}
    <3> HIDE DEF D
    <3> QED BY <2>7 DEF IntersectWith, Lift, Known, Unknown
  <2>9. ASSUME NEW h \in DOMAIN D, D[h].known, NEW c \in Acquires(prog, kind, buf, h),
               Runs(prog, At(prog, c), n)
        PROVE  n \in D[h].nodes
    <3>1. D[h] = ParticipantDomain(prog, kind, buf, h)
      OBVIOUS
    <3>2. /\ \A pos \in Acquires(prog, kind, buf, h) : DomainAt(prog, "narrow", pos).known
          /\ D[h].nodes = UNION {DomainAt(prog, "narrow", pos).nodes : pos \in Acquires(prog, kind, buf, h)}
      <4> HIDE DEF D, buf
      <4> QED BY <2>9, <3>1 DEF ParticipantDomain, Known, Unknown
    <3>3. c \in Positions(prog)
      BY DEF Acquires, OpsOf
    <3>4. InItsScopes(prog, At(prog, c).path, n)
      BY <2>2, <2>9, <3>3, ScopesExcludeNobody DEF IInv
    <3>5. Covers(DomainAt(prog, "narrow", c), n)
      BY <2>2, <2>9, <3>3, <3>4, DomainCovers DEF IInv
    <3> HIDE DEF D, buf
    <3> QED BY <3>2, <3>5 DEF Covers
  <2>10. n \in D[f].nodes /\ n \in D[g].nodes
    <3> HIDE DEF D, buf, f, g, n
    <3> QED BY <2>2, <2>3, <2>4, <2>5, <2>8, <2>9
  <2> HIDE DEF D, n
  <2> QED BY <2>8, <2>10
<1> QED BY <1>1, Invariance, PTL

(* A wait for a buffer of an accepted module with pipes is never for what  *)
(* no thread of its node pushes, if no push of the buffer depends on a     *)
(* value other than the coordinates (verifyCBWaits).                       *)
THEOREM WaitsPushed ==
  ASSUME ModulesOk
  PROVE  Spec => []WaitsArePushed
<1>1. IInv => WaitsArePushed
  <2> SUFFICES ASSUME IInv, phase = "running", prog.pipes # {}, NEW t \in Threads,
                      NEW i \in In(image.code, t, {"cb_wait"}),
                      \A pos \in OpsOf(prog, {"cb_push"}) :
                        At(prog, pos).buf = image.code[t][i].buf => Steady(At(prog, pos))
               PROVE  \E u \in Threads : u[1] = t[1] /\
                        \E k \in In(image.code, u, {"cb_push"}) : image.code[u][k].buf = image.code[t][i].buf
    BY DEF WaitsArePushed
  <2>1. i \in DOMAIN image.code[t] /\ image.code[t][i].kind = "cb_wait"
    BY DEF In
  <2>2. PICK w \in Positions(prog) :
          /\ At(prog, w) = image.code[t][i]
          /\ t[1] \in prog.grid /\ Runs(prog, At(prog, w), t[1])
    BY <2>1, WhatRuns
  <2> DEFINE pushes == {p \in OpsOf(prog, {"cb_push"}) : At(prog, p).buf = At(prog, w).buf}
             domains == {DomainAt(prog, "open", p) : p \in pushes}
  <2>3. CBWaitsOk(prog)
    BY DEF IInv, VerifyPipeNetGuards
  <2>4. w \in OpsOf(prog, {"cb_wait"})
    BY <2>1, <2>2 DEF OpsOf
  <2>5. /\ \A d \in domains : d.known
        /\ IsSubsetOf(DomainAt(prog, "open", w), Known(UNION {d.nodes : d \in domains}))
    BY <2>3, <2>4 DEF CBWaitsOk
  <2>6. Covers(DomainAt(prog, "open", w), t[1])
    BY <2>2, DomainCovers DEF IInv
  <2>7. t[1] \in UNION {d.nodes : d \in domains}
    <3> HIDE DEF domains
    <3> QED BY <2>5, <2>6 DEF IsSubsetOf, Known, Covers
  <2>8. PICK p \in pushes : t[1] \in DomainAt(prog, "open", p).nodes
    BY <2>7
  <2>9. p \in Positions(prog) /\ At(prog, p).kind = "cb_push" /\ Steady(At(prog, p))
    BY <2>2, <2>8 DEF OpsOf
  <2>10. Has(DomainAt(prog, "open", p), t[1])
    BY <2>5, <2>8 DEF Has
  <2>11. Runs(prog, At(prog, p), t[1])
    BY <2>2, <2>9, <2>10, DomainIsExact DEF IInv
  <2>12. PICK u \in Threads : u[1] = t[1] /\ \E k \in DOMAIN image.code[u] : image.code[u][k] = At(prog, p)
    BY <2>2, <2>9, <2>11, WhatRunsIsThere
  <2>13. PICK k \in DOMAIN image.code[u] : image.code[u][k] = At(prog, p)
    BY <2>12
  <2>14. k \in In(image.code, u, {"cb_push"}) /\ image.code[u][k].buf = image.code[t][i].buf
    BY <2>2, <2>8, <2>9, <2>13 DEF In
  <2> QED BY <2>12, <2>14
<1> QED BY <1>1, Invariance, PTL

(* What the guard verifier accepts keeps its promise on the device, for    *)
(* every module (TTLVerifyPipeNetGuards).                                  *)
THEOREM GuardsKept ==
  ASSUME ModulesOk
  PROVE  Spec => []GuardsAreKept
<1>1. OnlyAtItsEnd /\ WaitsArePushed => GuardsAreKept
  BY DEF GuardsAreKept
<1> QED BY <1>1, AtItsEnd, WaitsPushed, PTL

-----------------------------------------------------------------------------
(* What runs was compiled from one of the modules, and carries its plan.   *)
PInv ==
  /\ prog.pipes \subseteq AllPipes
  /\ phase = "source" => prog \in Programs
  /\ phase \in {"waits", "guards", "verified", "running"} => \E p \in Programs : prog = InsertCopyWait(p)
  /\ phase = "running" =>
       /\ image.plan = ResourcePlan(prog) /\ PlanTakesTurns(prog, image.plan, image.code)
       /\ image.orderly = Orderly(image.code)

LEMMA InsertedPipes ==
  ASSUME NEW p, ModuleOk(p)
  PROVE  InsertCopyWait(p).pipes = p.pipes
<1>1. p = [grid |-> p.grid, pipes |-> p.pipes, flag |-> p.flag, funcs |-> p.funcs]
  BY DEF ModuleOk
<1>2. \A funcs : [p EXCEPT !.funcs = funcs].pipes = p.pipes
  BY <1>1
<1> QED BY <1>2 DEF InsertCopyWait

LEMMA StillPlanned ==
  ASSUME PInv, UNCHANGED compiled
  PROVE  PInv'
<1>1. phase' = phase /\ prog' = prog /\ image' = image
  BY DEF compiled
<1>2. (phase = "running" => image.plan = ResourcePlan(prog) /\ PlanTakesTurns(prog, image.plan, image.code))'
  BY <1>1 DEF PInv
<1>3. (phase = "running" => image.orderly = Orderly(image.code))'
  BY <1>1 DEF PInv
<1>4. prog.pipes \subseteq AllPipes
  BY DEF PInv
<1> QED BY <1>4, <1>1, <1>2, <1>3 DEF PInv

THEOREM Planning ==
  ASSUME ModulesOk, PlansOk
  PROVE  Spec => []PInv
<1>1. Init => PInv
  BY DEF Init, PInv, ModulesOk
<1>2. ASSUME IInv, PInv, [Next]_vars PROVE PInv'
  <2>1. CASE InsertWaits
    <3>1. phase = "source" /\ phase' = "waits" /\ prog' = InsertCopyWait(prog)
      BY <2>1 DEF InsertWaits
    <3>2. prog'.pipes = prog.pipes
      BY <1>2, <3>1, InsertedPipes DEF IInv
    <3> QED BY <1>2, <3>1, <3>2 DEF PInv
  <2>2. CASE VerifyGuards
    BY <1>2, <2>2 DEF VerifyGuards, PInv
  <2>3. CASE VerifySPSC
    BY <1>2, <2>3 DEF VerifySPSC, PInv
  <2>4. CASE Convert
    <3>1. prog' = prog /\ phase = "verified"
      BY <2>4 DEF Convert
    <3>2. CASE phase' = "rejected"
      BY <1>2, <3>1, <3>2 DEF PInv
    <3>3. CASE phase' # "rejected"
      <4> DEFINE code == [t \in Threads |-> Code(t)]
      <4>1. phase' = "running" /\ PlanOk(prog) /\ LaunchWith(ResourcePlan(prog), code)
        BY <2>4, <3>3 DEF Convert
      <4> HIDE DEF code
      <4>2. image'.code = code /\ image'.plan = ResourcePlan(prog) /\ image'.orderly = Orderly(code)
        BY <4>1 DEF LaunchWith
      <4>3. PICK p \in Programs : prog = InsertCopyWait(p)
        BY <1>2, <3>1 DEF PInv
      <4>4. VerifyPipeNetGuards(prog) /\ VerifyDFBSPSC(prog)
        BY <1>2, <3>1 DEF IInv
      <4>5. code = [t \in prog.grid \X DOMAIN prog.funcs |-> CodeAt(prog, t)]
        BY DEF code, Threads, Code
      <4>6. PlanTakesTurns(prog, ResourcePlan(prog), code)
        <5>1. LET m == InsertCopyWait(p) IN
                PlanTakesTurns(m, ResourcePlan(m), [t \in m.grid \X DOMAIN m.funcs |-> CodeAt(m, t)])
          BY <4>1, <4>3, <4>4 DEF PlansOk
        <5> QED BY <4>3, <4>5, <5>1
      <4> QED BY <1>2, <3>1, <4>1, <4>2, <4>3, <4>6 DEF PInv
    <3> QED BY <3>2, <3>3
  <2>5. CASE Run
    BY <1>2, <2>5, RunKeepsCompiled, StillPlanned
  <2>6. CASE UNCHANGED vars
    <3>1. UNCHANGED compiled
      BY <2>6 DEF vars, compiled
    <3> QED BY <1>2, <3>1, StillPlanned
  <2> QED BY <1>2, <2>1, <2>2, <2>3, <2>4, <2>5, <2>6 DEF Next, Compile
<1> QED BY <1>1, <1>2, Invariance, PTL DEF Spec

-----------------------------------------------------------------------------
(* The running code of an orderly module.                                  *)

(* What the passes and the plan leave to rely on while it runs.            *)
Static ==
  /\ DOMAIN image.code = Threads
  /\ \A t \in Threads : Len(image.code[t]) \in Nat /\ DOMAIN image.code[t] = 1 .. Len(image.code[t])
  /\ \A t \in Threads : \A i \in In(image.code, t, {"post", "send", "wait"}) : image.code[t][i].pipe \in prog.pipes
  /\ \A t \in Threads : \A i \in In(image.code, t, {"post", "send"}) : image.code[t][i].pipe \in Units(prog)
  /\ \A t \in Threads : \A i \in In(image.code, t, {"post", "wait"}) :
       t[1] \in prog.grid /\ t[1] \in Destinations(image.code[t][i].pipe)
  /\ Units(prog) \subseteq prog.pipes
  /\ \A p \in prog.pipes : IsFiniteSet(Destinations(p)) /\ Destinations(p) # {}
  /\ \A p \in Units(prog) : image.plan[p].expected = Cardinality(Destinations(p))

(* As many nodes receive from a pipe as its collective send waits for.     *)
LEMMA DestinationsCounted ==
  ASSUME NEW p, PipeOk(p)
  PROVE  /\ IsFiniteSet(Destinations(p)) /\ Destinations(p) # {}
         /\ Cardinality(Destinations(p)) = ExpectedPosts(p)
<1> DEFINE X == p.start[1] .. p.end[1]
           Y == p.start[2] .. p.end[2]
<1>1. /\ p.start \in Nat \X Nat /\ p.end \in Nat \X Nat
      /\ p.start[1] <= p.end[1] /\ p.start[2] <= p.end[2]
      /\ p.declared \in {"yes", "no", "unset"} /\ (~HasSingleReceiver(p) => p.declared # "no")
  <2>1. p.start \in Nat \X Nat /\ p.end \in Nat \X Nat /\ p.declared \in {"yes", "no", "unset"}
    BY DEF PipeOk
  <2>2. \A axis \in 1 .. 2 : p.start[axis] <= p.end[axis]
    BY DEF PipeOk, CreatePipeOk
  <2>3. ~HasSingleReceiver(p) => p.declared # "no"
    BY DEF PipeOk, CreatePipeOk
  <2>4. 1 \in 1 .. 2 /\ 2 \in 1 .. 2
    OBVIOUS
  <2> QED BY <2>1, <2>2, <2>3, <2>4
<1>2. p.start[1] \in Nat /\ p.start[2] \in Nat /\ p.end[1] \in Nat /\ p.end[2] \in Nat
  BY <1>1
<1> HIDE DEF X, Y
<1>a. \A a, b \in Nat : a <= b => IsFiniteSet(a .. b) /\ Cardinality(a .. b) = b - a + 1
  BY FS_Interval
<1>3. IsFiniteSet(X) /\ Cardinality(X) = p.end[1] - p.start[1] + 1
  BY <1>1, <1>2, <1>a DEF X
<1>4. IsFiniteSet(Y) /\ Cardinality(Y) = p.end[2] - p.start[2] + 1
  BY <1>1, <1>2, <1>a DEF Y
<1>5. Destinations(p) = X \X Y
  BY DEF Destinations, X, Y
<1>6. IsFiniteSet(X \X Y) /\ Cardinality(X \X Y) = Cardinality(X) * Cardinality(Y)
  BY <1>3, <1>4, FS_Product
<1>7. Destinations(p) # {}
  <2>1. p.start[1] \in X /\ p.start[2] \in Y
    BY <1>1, <1>2 DEF X, Y
  <2>2. <<p.start[1], p.start[2]>> \in X \X Y
    BY <2>1
  <2> QED BY <1>5, <2>2
<1>8. Cardinality(Destinations(p)) = NumDests(p)
  BY <1>3, <1>4, <1>5, <1>6 DEF NumDests
<1>9. HasSingleReceiver(p) => NumDests(p) = 1
  BY <1>2 DEF HasSingleReceiver, NumDests
<1>10. Cardinality(Destinations(p)) = ExpectedPosts(p)
  BY <1>1, <1>8, <1>9 DEF ExpectedPosts, IsCollective
<1> QED BY <1>5, <1>6, <1>7, <1>10

LEMMA RunsStatically ==
  ASSUME IInv, PInv, OnlyAtItsEnd, phase = "running"
  PROVE  Static
<1>1. DOMAIN image.code = Threads
  BY DEF IInv
<1>2. \A t \in Threads : IsSeq(image.code[t])
  BY CodeIsWhatRuns DEF IInv
<1>3. ASSUME NEW t \in Threads, NEW i \in In(image.code, t, {"post", "send", "wait"})
      PROVE  /\ image.code[t][i].pipe \in prog.pipes
             /\ image.code[t][i].kind \in {"post", "send"} => image.code[t][i].pipe \in Units(prog)
             /\ t[1] \in prog.grid
  <2>1. i \in DOMAIN image.code[t] /\ image.code[t][i].kind \in {"post", "send", "wait"}
    BY <1>3 DEF In
  <2>2. PICK pos \in Positions(prog) : At(prog, pos) = image.code[t][i] /\ t[1] \in prog.grid
    BY <2>1, WhatRuns
  <2>3. image.code[t][i].pipe \in prog.pipes
    BY <2>1, <2>2 DEF IInv, ModuleOk, OpOk
  <2>4. image.code[t][i].kind \in {"post", "send"} => image.code[t][i].pipe \in Units(prog)
    BY <2>2, <2>3 DEF Units, Posts, Sends, EventsOf, OpsOf
  <2> QED BY <2>2, <2>3, <2>4
<1>4. ASSUME NEW t \in Threads, NEW i \in In(image.code, t, {"post", "wait"})
      PROVE  t[1] \in Destinations(image.code[t][i].pipe)
  <2>1. i \in In(image.code, t, {"post", "send", "wait"}) /\ image.code[t][i].kind \in {"post", "wait"}
    BY <1>4 DEF In
  <2>2. t[1] \in RoleOf(image.code[t][i])
    BY <2>1 DEF OnlyAtItsEnd
  <2> QED BY <2>1, <2>2 DEF RoleOf
<1>5. Units(prog) \subseteq prog.pipes
  BY DEF Units
<1>6. \A p \in prog.pipes : PipeOk(p)
  BY DEF IInv, ModuleOk
<1>7. \A p \in prog.pipes : IsFiniteSet(Destinations(p)) /\ Destinations(p) # {}
  BY <1>6, DestinationsCounted
<1>8. \A p \in Units(prog) : image.plan[p].expected = Cardinality(Destinations(p))
  <2> SUFFICES ASSUME NEW p \in Units(prog) PROVE image.plan[p].expected = Cardinality(Destinations(p))
    OBVIOUS
  <2>1. image.plan = ResourcePlan(prog) /\ DOMAIN image.plan = Units(prog)
    BY DEF PInv, PlanTakesTurns
  <2>2. image.plan[p].expected = ExpectedPosts(p)
    BY <2>1 DEF ResourcePlan
  <2> QED BY <1>5, <1>6, <2>2, DestinationsCounted
<1>9. \A t \in Threads : Len(image.code[t]) \in Nat /\ DOMAIN image.code[t] = 1 .. Len(image.code[t])
  BY <1>2 DEF IsSeq
<1>10. \A t \in Threads : \A i \in In(image.code, t, {"post", "send"}) : image.code[t][i].pipe \in Units(prog)
  BY <1>3 DEF In
<1>11. \A t \in Threads : \A i \in In(image.code, t, {"post", "wait"}) :
         t[1] \in prog.grid /\ t[1] \in Destinations(image.code[t][i].pipe)
  BY <1>3, <1>4 DEF In
<1> QED BY <1>1, <1>3, <1>5, <1>7, <1>8, <1>9, <1>10, <1>11 DEF Static

-----------------------------------------------------------------------------
(* A thread awaits a receive from the instruction behind the post to the   *)
(* wait.  In an orderly module it awaits one receive of a PipeNet at most. *)
AwaitsAt(code, t, p, a) ==
  \E i \in Receives(code, t, p), k \in In(code, t, {"wait"}) :
    code[t][k].of = code[t][i].id /\ i < a /\ a <= k

(* The wait of a post, and the post of a wait.                             *)
LEMMA TheWait ==
  ASSUME Static, Orderly(image.code), NEW t \in Threads, NEW i \in In(image.code, t, {"post"})
  PROVE  \E k \in In(image.code, t, {"wait"}) :
           /\ i < k /\ image.code[t][k].of = image.code[t][i].id
           /\ image.code[t][k].pipe = image.code[t][i].pipe
           /\ \A h \in In(image.code, t, {"wait"}) : image.code[t][h].of = image.code[t][i].id => h = k
           /\ \A j \in In(image.code, t, {"post"}) :
                (i < j /\ j < k) => image.code[t][j].pipe.net # image.code[t][i].pipe.net
<1> DEFINE waits == {k \in In(image.code, t, {"wait"}) : image.code[t][k].of = image.code[t][i].id}
<1>1. t \in DOMAIN image.code
  BY DEF Static
<1>2. PICK k \in waits :
        /\ waits = {k} /\ i < k /\ image.code[t][k].pipe = image.code[t][i].pipe
        /\ \A j \in In(image.code, t, {"post"}) :
             (i < j /\ j < k) => image.code[t][j].pipe.net # image.code[t][i].pipe.net
  BY <1>1 DEF Orderly
<1>3. \A h \in In(image.code, t, {"wait"}) : image.code[t][h].of = image.code[t][i].id => h = k
  BY <1>2
<1> QED BY <1>2, <1>3

LEMMA OneAwait ==
  ASSUME Static, Orderly(image.code), NEW t \in Threads, NEW a, NEW p, NEW q,
         a \in Nat, AwaitsAt(image.code, t, p, a), AwaitsAt(image.code, t, q, a), p.net = q.net
  PROVE  p = q
<1> DEFINE Between(r, i, k) ==
      /\ i \in Receives(image.code, t, r) /\ k \in In(image.code, t, {"wait"})
      /\ image.code[t][k].of = image.code[t][i].id /\ i < a /\ a <= k
<1>1. ASSUME NEW r, NEW s, NEW i, NEW j, NEW k, NEW l, Between(r, i, k), Between(s, j, l), r.net = s.net, i < j
      PROVE  FALSE
  <2>1. /\ i \in In(image.code, t, {"post"}) /\ image.code[t][i].pipe = r
        /\ j \in In(image.code, t, {"post"}) /\ image.code[t][j].pipe = s
    BY <1>1 DEF Receives
  <2>2. PICK h \in In(image.code, t, {"wait"}) :
          /\ \A g \in In(image.code, t, {"wait"}) : image.code[t][g].of = image.code[t][i].id => g = h
          /\ \A g \in In(image.code, t, {"post"}) :
               (i < g /\ g < h) => image.code[t][g].pipe.net # image.code[t][i].pipe.net
    BY <2>1, TheWait
  <2>3. h = k
    BY <1>1, <2>2
  <2>4. i \in Nat /\ j \in Nat /\ k \in Nat
    BY <1>1, <2>1 DEF In, Static
  <2> QED BY <1>1, <2>1, <2>2, <2>3, <2>4
<1>2. PICK i, k : Between(p, i, k)
  BY DEF AwaitsAt
<1>3. PICK j, l : Between(q, j, l)
  BY DEF AwaitsAt
<1>4. i = j
  <2>1. i \in Nat /\ j \in Nat
    BY <1>2, <1>3 DEF Receives, In, Static
  <2>2. ~(i < j) /\ ~(j < i)
    <3> HIDE DEF Between
    <3> QED BY <1>1, <1>2, <1>3
  <2> QED BY <2>1, <2>2
<1> QED BY <1>2, <1>3, <1>4 DEF Receives

(* How the instructions change what is awaited.                            *)
LEMMA PostAwaits ==
  ASSUME Static, Orderly(image.code), NEW t \in Threads, NEW a \in In(image.code, t, {"post"})
  PROVE  /\ ~AwaitsAt(image.code, t, image.code[t][a].pipe, a) /\ AwaitsAt(image.code, t, image.code[t][a].pipe, a + 1)
         /\ \A q : q # image.code[t][a].pipe => (AwaitsAt(image.code, t, q, a + 1) <=> AwaitsAt(image.code, t, q, a))
<1> DEFINE p == image.code[t][a].pipe
<1>1. a \in Nat /\ (\A k \in In(image.code, t, {"wait"}) : k \in Nat /\ k # a)
      /\ \A q : \A i \in Receives(image.code, t, q) : i \in Nat
  BY DEF In, Receives, Static
<1>2. PICK k \in In(image.code, t, {"wait"}) : a < k /\ image.code[t][k].of = image.code[t][a].id
  BY TheWait
<1>3. AwaitsAt(image.code, t, p, a + 1)
  <2>1. a \in Receives(image.code, t, p)
    BY DEF Receives
  <2> QED BY <1>1, <1>2, <2>1 DEF AwaitsAt
<1>4. ASSUME AwaitsAt(image.code, t, p, a) PROVE FALSE
  <2>1. PICK i \in Receives(image.code, t, p), h \in In(image.code, t, {"wait"}) :
          image.code[t][h].of = image.code[t][i].id /\ i < a /\ a <= h
    BY <1>4 DEF AwaitsAt
  <2>2. i \in In(image.code, t, {"post"}) /\ image.code[t][i].pipe = p
    BY <2>1 DEF Receives
  <2>3. PICK g \in In(image.code, t, {"wait"}) :
          /\ \A f \in In(image.code, t, {"wait"}) : image.code[t][f].of = image.code[t][i].id => f = g
          /\ \A j \in In(image.code, t, {"post"}) :
               (i < j /\ j < g) => image.code[t][j].pipe.net # image.code[t][i].pipe.net
    BY <2>2, TheWait
  <2>4. g = h
    BY <2>1, <2>3
  <2>5. a < g
    BY <1>1, <2>1, <2>4
  <2> QED BY <2>1, <2>2, <2>3, <2>5
<1>5. ASSUME NEW q, q # p PROVE AwaitsAt(image.code, t, q, a + 1) <=> AwaitsAt(image.code, t, q, a)
  <2>1. \A i \in Receives(image.code, t, q) : i # a
    BY <1>5 DEF Receives
  <2> QED BY <1>1, <2>1 DEF AwaitsAt
<1> QED BY <1>3, <1>4, <1>5

LEMMA WaitAwaits ==
  ASSUME Static, Orderly(image.code), NEW t \in Threads, NEW a \in In(image.code, t, {"wait"})
  PROVE  /\ AwaitsAt(image.code, t, image.code[t][a].pipe, a) /\ ~AwaitsAt(image.code, t, image.code[t][a].pipe, a + 1)
         /\ \A q : q # image.code[t][a].pipe => (AwaitsAt(image.code, t, q, a + 1) <=> AwaitsAt(image.code, t, q, a))
<1> DEFINE p == image.code[t][a].pipe
<1>1. a \in Nat /\ (\A k \in In(image.code, t, {"wait"}) : k \in Nat)
      /\ \A q : \A i \in Receives(image.code, t, q) : i \in Nat /\ i # a
  BY DEF In, Receives, Static
<1>2. PICK i \in Receives(image.code, t, p) : i < a /\ image.code[t][i].id = image.code[t][a].of
  BY DEF Orderly, Static
<1>3. AwaitsAt(image.code, t, p, a)
  BY <1>1, <1>2 DEF AwaitsAt
<1>4. ASSUME NEW q, NEW h \in Receives(image.code, t, q), NEW k \in In(image.code, t, {"wait"}),
             image.code[t][k].of = image.code[t][h].id, k = a
      PROVE  q = p
  <2>1. h \in In(image.code, t, {"post"}) /\ image.code[t][h].pipe = q
    BY DEF Receives
  <2>2. PICK g \in In(image.code, t, {"wait"}) :
          /\ image.code[t][g].pipe = image.code[t][h].pipe
          /\ \A f \in In(image.code, t, {"wait"}) : image.code[t][f].of = image.code[t][h].id => f = g
    BY <2>1, TheWait
  <2> QED BY <1>4, <2>1, <2>2
<1>5. ASSUME AwaitsAt(image.code, t, p, a + 1) PROVE FALSE
  <2>1. PICK j \in Receives(image.code, t, p), k \in In(image.code, t, {"wait"}) :
          image.code[t][k].of = image.code[t][j].id /\ j < a + 1 /\ a + 1 <= k
    BY <1>5 DEF AwaitsAt
  <2>2. j \in In(image.code, t, {"post"}) /\ i \in In(image.code, t, {"post"})
        /\ image.code[t][j].pipe = p /\ image.code[t][i].pipe = p
    BY DEF Receives
  <2> DEFINE WaitedAt(l, g) ==
               /\ l < g /\ image.code[t][g].of = image.code[t][l].id
               /\ image.code[t][g].pipe = image.code[t][l].pipe
               /\ \A f \in In(image.code, t, {"wait"}) : image.code[t][f].of = image.code[t][l].id => f = g
               /\ \A h \in In(image.code, t, {"post"}) :
                    (l < h /\ h < g) => image.code[t][h].pipe.net # image.code[t][l].pipe.net
  <2>a. \A l \in In(image.code, t, {"post"}) : \E g \in In(image.code, t, {"wait"}) : WaitedAt(l, g)
    <3> TAKE l \in In(image.code, t, {"post"})
    <3> QED BY TheWait
  <2>3. PICK g \in In(image.code, t, {"wait"}) : WaitedAt(j, g)
    <3> HIDE DEF WaitedAt
    <3> QED BY <2>2, <2>a
  <2>4. PICK e \in In(image.code, t, {"wait"}) : WaitedAt(i, e)
    <3> HIDE DEF WaitedAt
    <3> QED BY <2>2, <2>a
  <2>5. g = k /\ e = a
    BY <1>2, <2>1, <2>3, <2>4
  <2>6. i \in Nat /\ j \in Nat /\ k \in Nat /\ i < a /\ j < a /\ a < k
    BY <1>1, <1>2, <2>1
  <2>7. ~(j < i)
    BY <1>1, <2>2, <2>3, <2>5, <2>6
  <2>8. ~(i < j)
    BY <2>2, <2>4, <2>5, <2>6
  <2>9. i = j
    BY <2>6, <2>7, <2>8
  <2> QED BY <1>1, <1>2, <2>1, <2>3, <2>5, <2>6, <2>9
<1>6. ASSUME NEW q, q # p PROVE AwaitsAt(image.code, t, q, a + 1) <=> AwaitsAt(image.code, t, q, a)
  <2>1. \A h \in Receives(image.code, t, q), k \in In(image.code, t, {"wait"}) :
          image.code[t][k].of = image.code[t][h].id => k # a
    BY <1>4, <1>6
  <2> QED BY <1>1, <2>1 DEF AwaitsAt
<1> QED BY <1>3, <1>5, <1>6

LEMMA OtherAwaits ==
  ASSUME Static, NEW t \in Threads, NEW a \in DOMAIN image.code[t],
         image.code[t][a].kind \notin {"post", "wait"}
  PROVE  \A q : AwaitsAt(image.code, t, q, a + 1) <=> AwaitsAt(image.code, t, q, a)
<1>1. a \in Nat /\ (\A k \in In(image.code, t, {"wait"}) : k \in Nat /\ k # a)
      /\ \A q : \A i \in Receives(image.code, t, q) : i \in Nat /\ i # a
  BY DEF In, Receives, Static
<1> QED BY <1>1 DEF AwaitsAt

-----------------------------------------------------------------------------
(* The counters of a running orderly module.                               *)
Stages == {"op", "reset", "write", "signal"}
Counters == {Counter(p) : p \in Units(prog)}
Sending(t, p, stage) == pc[t].stage = stage /\ Current(t).pipe = p
Awaited(p, n) == \E t \in Threads : t[1] = n /\ AwaitsAt(image.code, t, p, pc[t].at)
Pending(p, n) == \E t \in Threads : Sending(t, p, "signal") /\ n \in pending[t]
Opened(p) == {n \in Destinations(p) : open[<<p, n>>] = 1}
Sharers(p) == {q \in Units(prog) : q # p /\ Counter(q) = Counter(p)}

TypesOk ==
  /\ pc \in [Threads -> [round : Nat, at : Nat, stage : Stages]]
  /\ pending = [t \in Threads |-> pending[t]]
  /\ sem \in [Counters -> Nat] /\ flight \in [Counters -> Nat]
  /\ open \in [Ends -> Nat] /\ filled \in [Ends -> Nat]
  /\ done \in [prog.grid \X Nets -> Nat] /\ waited \in [Threads \X Nets -> Nat]

(* A thread is at one of its instructions, and at a send when in one.      *)
PcOk ==
  \A t \in Threads :
    /\ pc[t].at \in DOMAIN image.code[t] \/ (image.code[t] = <<>> /\ pc[t].stage = "op")
    /\ pc[t].stage # "op" => Current(t).kind = "send"

(* A receive is open or filled from its post to its wait, and no other is. *)
EndsOk ==
  \A p \in prog.pipes : \A n \in Destinations(p) :
    open[<<p, n>>] + filled[<<p, n>>] = IF Awaited(p, n) THEN 1 ELSE 0

(* What a send relies on in each of its stages.                            *)
SendsOk ==
  \A t \in Threads : \A p \in prog.pipes :
    /\ Sending(t, p, "reset") =>
         /\ \A n \in Destinations(p) : open[<<p, n>>] = 1
         /\ flight[Counter(p)] = 0
    /\ Sending(t, p, "write") =>
         /\ \A n \in Destinations(p) : open[<<p, n>>] = 1
         /\ flight[Counter(p)] = 0 /\ sem[Counter(p)] = 0
    /\ Sending(t, p, "signal") =>
         /\ pending[t] # {} /\ pending[t] \subseteq Destinations(p)
         /\ \A n \in pending[t] : filled[<<p, n>>] = 1

(* The ready counter, with the increments on their way, is the number of   *)
(* the open receives of the one pipe that has any.                         *)
CountOk ==
  \A p \in Units(prog) :
    /\ (Opened(p) # {} /\ \A t \in Threads : ~Sending(t, p, "write")) =>
         sem[Counter(p)] + flight[Counter(p)] = Cardinality(Opened(p))
    /\ (\A q \in Sharers(p) \cup {p} : Opened(q) = {}) =>
         sem[Counter(p)] + flight[Counter(p)] = 0

(* The completion counter of a PipeNet is ahead of the waits by the        *)
(* receive that is filled and signalled.                                   *)
Arrived(net, n) ==
  \E p \in prog.pipes :
    p.net = net /\ n \in Destinations(p) /\ filled[<<p, n>>] = 1 /\ ~Pending(p, n)
ReceivesFrom(code, t, net) == \E i \in In(code, t, {"post"}) : code[t][i].pipe.net = net
DoneOk ==
  \A t \in Threads : \A net \in Nets : ReceivesFrom(image.code, t, net) =>
    done[<<t[1], net>>] = waited[<<t, net>>] + IF Arrived(net, t[1]) THEN 1 ELSE 0

(* A pipe that shares its counter and is open: its one thread has posted   *)
(* and not yet sent.                                                       *)
InTurn(code, t, p, a) ==
  \E i \in Receives(code, t, p) : i < a /\ \A k \in SendsIn(code, t, p) : i < k => a <= k
TurnsOk ==
  \A p \in Units(prog) : (Sharers(p) # {} /\ Opened(p) # {}) =>
    \A t \in Threads : Receives(image.code, t, p) # {} => InTurn(image.code, t, p, pc[t].at)

DInv == TypesOk /\ PcOk /\ EndsOk /\ SendsOk /\ CountOk /\ DoneOk /\ TurnsOk
Running == phase = "running" /\ Static /\ PInv /\ Orderly(image.code)

-----------------------------------------------------------------------------
(* Where a thread is, and where it goes.                                   *)
LEMMA AtInstruction ==
  ASSUME Running, PcOk, NEW t \in Threads, NEW kind, NEW stage, IsAt(t, kind, stage)
  PROVE  /\ pc[t].at \in In(image.code, t, {kind}) /\ pc[t].at \in Nat /\ pc[t].at \in DOMAIN image.code[t]
         /\ Current(t) = image.code[t][pc[t].at] /\ Current(t).kind = kind /\ pc[t].stage = stage
<1>1. Current(t).kind = kind /\ pc[t].stage = stage /\ image.code[t] # <<>>
  BY DEF IsAt
<1>2. pc[t].at \in DOMAIN image.code[t]
  BY <1>1 DEF PcOk
<1> QED BY <1>1, <1>2 DEF Current, In, Running, Static

LEMMA NextInstruction ==
  ASSUME Running, TypesOk, PcOk, NEW t \in Threads, NEW kind, NEW stage, IsAt(t, kind, stage)
  PROVE  /\ NextPc(t) \in [round : Nat, at : Nat, stage : Stages]
         /\ NextPc(t).at \in DOMAIN image.code[t] /\ NextPc(t).stage = "op"
         /\ NextPc(t).at = pc[t].at + 1 \/ (NextPc(t).at = 1 /\ pc[t].at = Len(image.code[t]))
         /\ \A q : AwaitsAt(image.code, t, q, NextPc(t).at) <=> AwaitsAt(image.code, t, q, pc[t].at + 1)
<1> DEFINE a == pc[t].at
           len == Len(image.code[t])
<1>1. pc[t] \in [round : Nat, at : Nat, stage : Stages]
  BY DEF TypesOk
<1>2. a \in Nat /\ a \in 1 .. len /\ len \in Nat /\ DOMAIN image.code[t] = 1 .. len
  <2>1. a \in Nat /\ a \in DOMAIN image.code[t]
    BY AtInstruction
  <2> QED BY <2>1 DEF Running, Static
<1>3. CASE a < len
  <2>1. NextPc(t) = [round |-> pc[t].round, at |-> a + 1, stage |-> "op"]
    BY <1>3 DEF NextPc
  <2>2. /\ NextPc(t).at = a + 1 /\ NextPc(t).stage = "op"
        /\ NextPc(t) \in [round : Nat, at : Nat, stage : Stages]
    BY <1>1, <1>2, <2>1 DEF Stages
  <2> QED BY <1>2, <1>3, <2>2
<1>4. CASE ~(a < len)
  <2>1. NextPc(t) = [round |-> pc[t].round + 1, at |-> 1, stage |-> "op"]
    BY <1>4 DEF NextPc
  <2>2. /\ NextPc(t).at = 1 /\ NextPc(t).stage = "op"
        /\ NextPc(t) \in [round : Nat, at : Nat, stage : Stages]
    BY <1>1, <2>1 DEF Stages
  <2>3. a = len
    BY <1>2, <1>4
  <2>4. \A q : ~AwaitsAt(image.code, t, q, 1) /\ ~AwaitsAt(image.code, t, q, a + 1)
    <3>1. \A i \in DOMAIN image.code[t] : i \in Nat /\ 1 <= i /\ i <= a
      BY <1>2, <2>3
    <3> QED BY <1>2, <3>1 DEF AwaitsAt, Receives, In
  <2> QED BY <1>2, <2>2, <2>3, <2>4
<1> QED BY <1>3, <1>4

(* What a step of a thread changes of what is awaited.                     *)
LEMMA StillAwaited ==
  ASSUME UNCHANGED compiled, NEW t \in Threads, NEW r, DOMAIN pc = Threads, pc' = [pc EXCEPT ![t] = r],
         \A q : AwaitsAt(image.code, t, q, r.at) <=> AwaitsAt(image.code, t, q, pc[t].at)
  PROVE  \A p, n : Awaited(p, n)' <=> Awaited(p, n)
<1>1. Threads' = Threads /\ image' = image
  BY DEF Threads, compiled
<1>2. pc'[t] = r /\ \A u \in Threads : u # t => pc'[u] = pc[u]
  OBVIOUS
<1>3. \A u \in Threads : \A q : AwaitsAt(image.code, u, q, pc'[u].at) <=> AwaitsAt(image.code, u, q, pc[u].at)
  BY <1>2
<1> QED BY <1>1, <1>3 DEF Awaited

LEMMA PostAwaited ==
  ASSUME Running, TypesOk, PcOk, NEW t \in Threads, NEW p, IsAt(t, "post", "op"), p = Current(t).pipe,
         UNCHANGED compiled, Advance(t)
  PROVE  /\ ~Awaited(p, t[1]) /\ Awaited(p, t[1])'
         /\ \A q, n : (q # p \/ n # t[1]) => (Awaited(q, n)' <=> Awaited(q, n))
<1> DEFINE a == pc[t].at
<1>1. Threads' = Threads /\ image' = image
  BY DEF Threads, compiled
<1>2. a \in In(image.code, t, {"post"}) /\ p = image.code[t][a].pipe
  BY AtInstruction
<1>3. /\ ~AwaitsAt(image.code, t, p, a) /\ AwaitsAt(image.code, t, p, a + 1)
      /\ \A q : q # p => (AwaitsAt(image.code, t, q, a + 1) <=> AwaitsAt(image.code, t, q, a))
  BY <1>2, PostAwaits DEF Running
<1>4. \A q : AwaitsAt(image.code, t, q, NextPc(t).at) <=> AwaitsAt(image.code, t, q, a + 1)
  BY NextInstruction
<1>5. pc'[t] = NextPc(t) /\ \A u \in Threads : u # t => pc'[u] = pc[u]
  BY DEF Advance, TypesOk
<1>6. \A u \in Threads : u[1] = t[1] /\ AwaitsAt(image.code, u, p, pc[u].at) => u = t
  <2> SUFFICES ASSUME NEW u \in Threads, u[1] = t[1], AwaitsAt(image.code, u, p, pc[u].at) PROVE u = t
    OBVIOUS
  <2>1. PICK i \in In(image.code, u, {"post"}) : image.code[u][i].pipe = p
    BY DEF AwaitsAt, Receives
  <2>2. u \in DOMAIN image.code /\ t \in DOMAIN image.code
    BY DEF Running, Static
  <2>3. \A k \in In(image.code, u, {"post"}), j \in In(image.code, t, {"post"}) :
          (u[1] = t[1] /\ image.code[u][k].pipe.net = image.code[t][j].pipe.net) => u = t
    BY <2>2 DEF Running, Orderly
  <2>4. image.code[u][i].pipe.net = image.code[t][a].pipe.net
    BY <1>2, <2>1
  <2> HIDE DEF a
  <2> QED BY <1>2, <2>1, <2>3, <2>4
<1>7. ~Awaited(p, t[1])
  BY <1>3, <1>6 DEF Awaited
<1>8. Awaited(p, t[1])'
  BY <1>1, <1>3, <1>4, <1>5 DEF Awaited
<1>9. ASSUME NEW q, NEW n, q # p \/ n # t[1] PROVE Awaited(q, n)' <=> Awaited(q, n)
  <2>1. \A u \in Threads : u[1] = n =>
          (AwaitsAt(image.code, u, q, pc'[u].at) <=> AwaitsAt(image.code, u, q, pc[u].at))
    BY <1>3, <1>4, <1>5, <1>9
  <2> QED BY <1>1, <2>1 DEF Awaited
<1> QED BY <1>7, <1>8, <1>9

LEMMA WaitAwaited ==
  ASSUME Running, TypesOk, PcOk, NEW t \in Threads, NEW p, IsAt(t, "wait", "op"), p = Current(t).pipe,
         UNCHANGED compiled, Advance(t)
  PROVE  /\ Awaited(p, t[1]) /\ ~Awaited(p, t[1])'
         /\ \A q, n : (q # p \/ n # t[1]) => (Awaited(q, n)' <=> Awaited(q, n))
<1> DEFINE a == pc[t].at
<1>1. Threads' = Threads /\ image' = image
  BY DEF Threads, compiled
<1>2. a \in In(image.code, t, {"wait"}) /\ p = image.code[t][a].pipe
  BY AtInstruction
<1>3. /\ AwaitsAt(image.code, t, p, a) /\ ~AwaitsAt(image.code, t, p, a + 1)
      /\ \A q : q # p => (AwaitsAt(image.code, t, q, a + 1) <=> AwaitsAt(image.code, t, q, a))
  BY <1>2, WaitAwaits DEF Running
<1>4. \A q : AwaitsAt(image.code, t, q, NextPc(t).at) <=> AwaitsAt(image.code, t, q, a + 1)
  BY NextInstruction
<1>5. pc'[t] = NextPc(t) /\ \A u \in Threads : u # t => pc'[u] = pc[u]
  BY DEF Advance, TypesOk
<1>6. \A u \in Threads : u[1] = t[1] /\ AwaitsAt(image.code, u, p, pc[u].at) => u = t
  <2> SUFFICES ASSUME NEW u \in Threads, u[1] = t[1], AwaitsAt(image.code, u, p, pc[u].at) PROVE u = t
    OBVIOUS
  <2>1. PICK i \in In(image.code, u, {"post"}) : image.code[u][i].pipe = p
    BY DEF AwaitsAt, Receives
  <2>2. PICK j \in In(image.code, t, {"post"}) : image.code[t][j].pipe = p
    BY <1>3 DEF AwaitsAt, Receives
  <2>3. u \in DOMAIN image.code /\ t \in DOMAIN image.code
    BY DEF Running, Static
  <2> QED BY <2>1, <2>2, <2>3 DEF Running, Orderly
<1>7. Awaited(p, t[1])
  BY <1>3 DEF Awaited
<1>8. ~Awaited(p, t[1])'
  <2>1. \A u \in Threads : u[1] = t[1] => ~AwaitsAt(image.code, u, p, pc'[u].at)
    BY <1>3, <1>4, <1>5, <1>6
  <2> QED BY <1>1, <2>1 DEF Awaited
<1>9. ASSUME NEW q, NEW n, q # p \/ n # t[1] PROVE Awaited(q, n)' <=> Awaited(q, n)
  <2>1. \A u \in Threads : u[1] = n =>
          (AwaitsAt(image.code, u, q, pc'[u].at) <=> AwaitsAt(image.code, u, q, pc[u].at))
    BY <1>3, <1>4, <1>5, <1>9
  <2> QED BY <1>1, <2>1 DEF Awaited
<1> QED BY <1>7, <1>8, <1>9

-----------------------------------------------------------------------------
(* What follows from the invariant in one state.                           *)
LEMMA SameModule ==
  ASSUME UNCHANGED compiled
  PROVE  /\ prog' = prog /\ image' = image /\ phase' = phase
         /\ Threads' = Threads /\ Ends' = Ends /\ Nets' = Nets /\ Counters' = Counters
         /\ \A p : Counter(p)' = Counter(p) /\ Sharers(p)' = Sharers(p)
<1>1. prog' = prog /\ image' = image /\ phase' = phase
  BY DEF compiled
<1>2. \A p : Counter(p)' = Counter(p)
  BY <1>1 DEF Counter
<1>3. Counters' = Counters /\ \A p : Sharers(p)' = Sharers(p)
  BY <1>1, <1>2 DEF Counters, Sharers
<1> QED BY <1>1, <1>2, <1>3 DEF Threads, Ends, Nets

LEMMA OneAwaited ==
  ASSUME Running, TypesOk, NEW p, NEW q, NEW n, Awaited(p, n), Awaited(q, n), p.net = q.net
  PROVE  p = q
<1>1. PICK u \in Threads : u[1] = n /\ AwaitsAt(image.code, u, p, pc[u].at)
  BY DEF Awaited
<1>2. PICK v \in Threads : v[1] = n /\ AwaitsAt(image.code, v, q, pc[v].at)
  BY DEF Awaited
<1>3. PICK i \in In(image.code, u, {"post"}) : image.code[u][i].pipe = p
  BY <1>1 DEF AwaitsAt, Receives
<1>4. PICK j \in In(image.code, v, {"post"}) : image.code[v][j].pipe = q
  BY <1>2 DEF AwaitsAt, Receives
<1>5. u = v
  <2>1. u \in DOMAIN image.code /\ v \in DOMAIN image.code
    BY DEF Running, Static
  <2> QED BY <1>1, <1>2, <1>3, <1>4, <2>1 DEF Running, Orderly
<1>6. pc[u].at \in Nat
  BY DEF TypesOk
<1> QED BY <1>1, <1>2, <1>5, <1>6, OneAwait DEF Running

LEMMA EndStates ==
  ASSUME TypesOk, EndsOk, NEW p \in prog.pipes, NEW n \in Destinations(p)
  PROVE  /\ <<p, n>> \in Ends
         /\ open[<<p, n>>] \in {0, 1} /\ filled[<<p, n>>] \in {0, 1}
         /\ open[<<p, n>>] = 1 \/ filled[<<p, n>>] = 1 <=> Awaited(p, n)
         /\ ~(open[<<p, n>>] = 1 /\ filled[<<p, n>>] = 1)
<1>1. <<p, n>> \in Ends
  BY DEF Ends
<1>2. open[<<p, n>>] \in Nat /\ filled[<<p, n>>] \in Nat
  BY <1>1 DEF TypesOk
<1>3. open[<<p, n>>] + filled[<<p, n>>] = IF Awaited(p, n) THEN 1 ELSE 0
  BY DEF EndsOk
<1> QED BY <1>1, <1>2, <1>3

(* Where a receive is open, a thread of the node posts on the pipe.        *)
LEMMA OpenIsPosted ==
  ASSUME TypesOk, EndsOk, NEW p \in prog.pipes, NEW n \in Destinations(p),
         open[<<p, n>>] = 1 \/ filled[<<p, n>>] = 1
  PROVE  \E u \in Threads : u[1] = n /\ Receives(image.code, u, p) # {}
<1>1. Awaited(p, n)
  BY EndStates
<1>2. PICK u \in Threads : u[1] = n /\ AwaitsAt(image.code, u, p, pc[u].at)
  BY <1>1 DEF Awaited
<1>3. Receives(image.code, u, p) # {}
  BY <1>2 DEF AwaitsAt
<1> QED BY <1>2, <1>3

(* Two pipes that share their counter are used by one thread, in turns.    *)
LEMMA SharedThread ==
  ASSUME Running, NEW p \in Units(prog), NEW q \in Sharers(p)
  PROVE  \E s \in Threads :
           /\ \A u \in Threads : u # s => Events(image.code, u, p) = {} /\ Events(image.code, u, q) = {}
           /\ \A i \in Receives(image.code, s, p) : \E k \in SendsIn(image.code, s, p) :
                i < k /\ \A j \in Events(image.code, s, q) : j < i \/ k < j
<1>1. q \in Units(prog) /\ q # p /\ p.src = q.src /\ image.plan[p].ready = image.plan[q].ready
  BY DEF Sharers, Counter
<1>2. PlanTakesTurns(prog, image.plan, image.code)
  BY DEF Running, PInv
<1>3. TakeTurns(image.code, p, q)
  BY <1>1, <1>2 DEF PlanTakesTurns
<1>4. DOMAIN image.code = Threads
  BY DEF Running, Static
<1> QED BY <1>3, <1>4 DEF TakeTurns

LEMMA SharersMutual ==
  ASSUME NEW p \in Units(prog), NEW q \in Sharers(p)
  PROVE  q \in Units(prog) /\ p \in Sharers(q) /\ q # p /\ Counter(q) = Counter(p)
BY DEF Sharers

(* A thread that is at a post or a send of a pipe finds the pipes that     *)
(* share its counter closed.                                               *)
LEMMA OthersClosed ==
  ASSUME Running, TypesOk, EndsOk, TurnsOk, NEW t \in Threads, NEW p \in Units(prog), NEW q \in Sharers(p),
         pc[t].at \in Events(image.code, t, p)
  PROVE  Opened(q) = {}
<1> SUFFICES ASSUME Opened(q) # {} PROVE FALSE
  OBVIOUS
<1> DEFINE a == pc[t].at
<1>1. q \in Units(prog) /\ p \in Sharers(q) /\ q \in prog.pipes
  BY SharersMutual DEF Running, Static
<1>2. PICK n \in Destinations(q) : open[<<q, n>>] = 1
  BY DEF Opened
<1>3. PICK u \in Threads : Receives(image.code, u, q) # {}
  BY <1>1, <1>2, OpenIsPosted
<1>4. PICK s \in Threads :
        /\ \A v \in Threads : v # s => Events(image.code, v, q) = {} /\ Events(image.code, v, p) = {}
        /\ \A i \in Receives(image.code, s, q) : \E k \in SendsIn(image.code, s, q) :
             i < k /\ \A j \in Events(image.code, s, p) : j < i \/ k < j
  BY <1>1, SharedThread
<1>5. u = s /\ t = s
  BY <1>3, <1>4 DEF Events
<1>6. PICK i \in Receives(image.code, t, q) : i < a /\ \A k \in SendsIn(image.code, t, q) : i < k => a <= k
  BY <1>1, <1>3, <1>5 DEF TurnsOk, InTurn
<1>7. PICK k \in SendsIn(image.code, t, q) : i < k /\ \A j \in Events(image.code, t, p) : j < i \/ k < j
  BY <1>4, <1>5, <1>6
<1>8. a <= k /\ (a < i \/ k < a)
  BY <1>6, <1>7
<1>9. a \in Nat /\ i \in Nat /\ k \in Nat
  BY <1>6, <1>7, SMTT(30) DEF Events, Receives, SendsIn, In, Running, Static
<1> QED BY <1>6, <1>8, <1>9

(* One thread sends on a pipe.                                             *)
LEMMA OneSender ==
  ASSUME Running, PcOk, NEW t \in Threads, NEW u \in Threads, NEW p,
         pc[t].at \in SendsIn(image.code, t, p), pc[u].stage # "op", Current(u).pipe = p
  PROVE  u = t
<1>1. pc[u].at \in DOMAIN image.code[u] /\ image.code[u][pc[u].at].kind = "send"
  BY DEF PcOk, Current
<1>2. pc[u].at \in In(image.code, u, {"send"}) /\ image.code[u][pc[u].at].pipe = p
  BY <1>1 DEF In, Current
<1>3. pc[t].at \in In(image.code, t, {"send"}) /\ image.code[t][pc[t].at].pipe = p
  BY DEF SendsIn
<1>4. u \in DOMAIN image.code /\ t \in DOMAIN image.code
  BY DEF Running, Static
<1> QED BY <1>2, <1>3, <1>4 DEF Running, Orderly

LEMMA StillSending ==
  ASSUME TypesOk, UNCHANGED compiled, NEW t \in Threads, NEW r, pc' = [pc EXCEPT ![t] = r],
         pc[t].stage = "op", r.stage = "op"
  PROVE  \A u \in Threads : \A q : \A stage \in {"reset", "write", "signal"} :
           Sending(u, q, stage)' <=> Sending(u, q, stage)
<1>1. pc'[t] = r /\ \A u \in Threads : u # t => pc'[u] = pc[u]
  BY DEF TypesOk
<1>2. image' = image
  BY DEF compiled
<1> QED BY <1>1, <1>2 DEF Sending, Current

(* A thread that has posted on a pipe, in its turn, and is at another      *)
(* instruction than a send on it, stays in its turn.                       *)
LEMMA StillInTurn ==
  ASSUME Running, TypesOk, PcOk, NEW t \in Threads, NEW p \in Units(prog), Sharers(p) # {},
         InTurn(image.code, t, p, pc[t].at), NEW kind, NEW stage, IsAt(t, kind, stage),
         pc[t].at \notin SendsIn(image.code, t, p)
  PROVE  InTurn(image.code, t, p, NextPc(t).at)
<1> DEFINE a == pc[t].at
<1>1. PICK i \in Receives(image.code, t, p) : i < a /\ \A k \in SendsIn(image.code, t, p) : i < k => a <= k
  BY DEF InTurn
<1>2. PICK q : q \in Sharers(p)
  OBVIOUS
<1>3. PICK s \in Threads :
        /\ \A v \in Threads : v # s => Events(image.code, v, p) = {}
        /\ \A h \in Receives(image.code, s, p) : \E k \in SendsIn(image.code, s, p) : h < k
  BY <1>2, SharedThread
<1>4. t = s
  BY <1>1, <1>3 DEF Events
<1>5. PICK k \in SendsIn(image.code, t, p) : i < k
  BY <1>1, <1>3, <1>4
<1>6. /\ \A h \in SendsIn(image.code, t, p) : h \in Nat /\ h <= Len(image.code[t]) /\ h # a
      /\ a \in Nat /\ i \in Nat /\ Len(image.code[t]) \in Nat
  <2>1. a \in Nat
    BY AtInstruction
  <2> QED BY <2>1 DEF SendsIn, Receives, In, Running, Static
<1>7. NextPc(t).at = a + 1
  <2>1. NextPc(t).at = a + 1 \/ a = Len(image.code[t])
    BY NextInstruction
  <2>2. a < Len(image.code[t])
    BY <1>1, <1>5, <1>6
  <2> QED BY <1>6, <2>1, <2>2
<1> QED BY <1>1, <1>6, <1>7 DEF InTurn

-----------------------------------------------------------------------------
(* The operations on dataflow buffers change none of it.                   *)
LEMMA MoveKeeps ==
  ASSUME Running, DInv, NEW t \in Threads, NEW kind, kind \notin {"post", "send", "wait"},
         IsAt(t, kind, "op"), Advance(t),
         UNCHANGED <<compiled, pending, sem, flight, done, waited, open, filled>>
  PROVE  DInv'
<1> DEFINE r == NextPc(t)
           a == pc[t].at
<1> USE DEF DInv
<1>1. /\ UNCHANGED compiled /\ pending' = pending /\ sem' = sem /\ flight' = flight
      /\ done' = done /\ waited' = waited /\ open' = open /\ filled' = filled
  OBVIOUS
<1>2. /\ prog' = prog /\ image' = image /\ Threads' = Threads /\ Ends' = Ends /\ Nets' = Nets
      /\ Counters' = Counters /\ \A p : Counter(p)' = Counter(p) /\ Sharers(p)' = Sharers(p)
  BY <1>1, SameModule
<1>3. pc' = [pc EXCEPT ![t] = r] /\ DOMAIN pc = Threads
  BY DEF Advance, TypesOk
<1>4. a \in DOMAIN image.code[t] /\ image.code[t][a].kind = kind /\ pc[t].stage = "op"
  BY AtInstruction
<1>5. r \in [round : Nat, at : Nat, stage : Stages] /\ r.at \in DOMAIN image.code[t] /\ r.stage = "op"
  BY NextInstruction
<1>6. \A q : AwaitsAt(image.code, t, q, r.at) <=> AwaitsAt(image.code, t, q, a)
  <2>1. \A q : AwaitsAt(image.code, t, q, r.at) <=> AwaitsAt(image.code, t, q, a + 1)
    BY NextInstruction
  <2>2. \A q : AwaitsAt(image.code, t, q, a + 1) <=> AwaitsAt(image.code, t, q, a)
    BY <1>4, OtherAwaits DEF Running
  <2> QED BY <2>1, <2>2
<1> HIDE DEF r
<1>7. \A p, n : Awaited(p, n)' <=> Awaited(p, n)
  BY <1>1, <1>3, <1>6, StillAwaited
<1>8. \A u \in Threads : \A q : \A stage \in {"reset", "write", "signal"} :
        Sending(u, q, stage)' <=> Sending(u, q, stage)
  BY <1>1, <1>3, <1>4, <1>5, StillSending
<1>9. \A p, n : Pending(p, n)' <=> Pending(p, n)
  BY <1>1, <1>2, <1>8 DEF Pending
<1>10. \A p : Opened(p)' = Opened(p)
  BY <1>1 DEF Opened
<1>11. TypesOk'
  BY <1>1, <1>2, <1>3, <1>5 DEF TypesOk
<1>12. PcOk'
  <2>1. \A u \in Threads : u # t => pc'[u] = pc[u]
    BY <1>3
  <2>2. pc'[t] = r
    BY <1>3
  <2> QED BY <1>2, <1>5, <2>1, <2>2 DEF PcOk, Current
<1>13. EndsOk'
  BY <1>1, <1>2, <1>7 DEF EndsOk
<1>14. SendsOk'
  BY <1>1, <1>2, <1>8 DEF SendsOk
<1>15. CountOk'
  BY <1>1, <1>2, <1>8, <1>10 DEF CountOk
<1>16. DoneOk'
  <2>1. \A net, n : Arrived(net, n)' <=> Arrived(net, n)
    BY <1>1, <1>2, <1>9 DEF Arrived
  <2> QED BY <1>1, <1>2, <2>1 DEF DoneOk
<1>17. TurnsOk'
  <2> SUFFICES ASSUME NEW p \in Units(prog), Sharers(p) # {}, Opened(p) # {},
                      NEW u \in Threads, Receives(image.code, u, p) # {}
               PROVE  InTurn(image.code, u, p, pc'[u].at)
    BY <1>2, <1>10 DEF TurnsOk
  <2>1. InTurn(image.code, u, p, pc[u].at)
    BY DEF TurnsOk
  <2>2. CASE u = t
    <3>1. a \notin SendsIn(image.code, t, p)
      BY <1>4 DEF SendsIn, In
    <3>2. InTurn(image.code, t, p, r.at)
      BY <2>1, <2>2, <3>1, StillInTurn DEF r
    <3> QED BY <1>3, <2>2, <3>2
  <2>3. CASE u # t
    BY <1>3, <2>1, <2>3
  <2> QED BY <2>2, <2>3
<1> QED BY <1>11, <1>12, <1>13, <1>14, <1>15, <1>16, <1>17

-----------------------------------------------------------------------------
(* The stages of a send.                                                   *)
LEMMA AtSend ==
  ASSUME Running, PcOk, NEW t \in Threads, NEW stage, NEW p, IsAt(t, "send", stage), p = Current(t).pipe
  PROVE  /\ p \in Units(prog) /\ p \in prog.pipes /\ Counter(p) \in Counters
         /\ pc[t].at \in SendsIn(image.code, t, p) /\ pc[t].at \in Events(image.code, t, p)
         /\ image.plan[p].expected = Cardinality(Destinations(p))
         /\ IsFiniteSet(Destinations(p)) /\ Destinations(p) # {}
         /\ \A u \in Threads : (pc[u].stage # "op" /\ Current(u).pipe = p) => u = t
<1>1. pc[t].at \in In(image.code, t, {"send"}) /\ p = image.code[t][pc[t].at].pipe
  BY AtInstruction
<1>2. pc[t].at \in In(image.code, t, {"post", "send"})
  BY <1>1 DEF In
<1>3. p \in Units(prog) /\ p \in prog.pipes
  BY <1>1, <1>2 DEF Running, Static
<1>4. pc[t].at \in SendsIn(image.code, t, p)
  BY <1>1 DEF SendsIn
<1>5. \A u \in Threads : (pc[u].stage # "op" /\ Current(u).pipe = p) => u = t
  BY <1>4, OneSender
<1> QED BY <1>3, <1>4, <1>5 DEF Events, Counters, Running, Static

LEMMA StageStep ==
  ASSUME Running, TypesOk, PcOk, NEW t \in Threads, NEW old, IsAt(t, "send", old),
         NEW stage \in Stages, ToStage(t, stage), UNCHANGED compiled
  PROVE  /\ pc' \in [Threads -> [round : Nat, at : Nat, stage : Stages]]
         /\ pc'[t].at = pc[t].at /\ pc'[t].stage = stage /\ Current(t)' = Current(t)
         /\ \A u \in Threads : u # t => pc'[u] = pc[u] /\ Current(u)' = Current(u)
         /\ \A p, n : Awaited(p, n)' <=> Awaited(p, n)
         /\ \A u \in Threads : pc'[u].at = pc[u].at
         /\ PcOk'
<1> DEFINE r == [round |-> pc[t].round, at |-> pc[t].at, stage |-> stage]
<1>1. pc[t] \in [round : Nat, at : Nat, stage : Stages] /\ DOMAIN pc = Threads
  BY DEF TypesOk
<1>2. [pc[t] EXCEPT !.stage = stage] = r
  BY <1>1
<1>3. pc' = [pc EXCEPT ![t] = r]
  BY <1>2 DEF ToStage
<1>4. r \in [round : Nat, at : Nat, stage : Stages] /\ r.at = pc[t].at /\ r.stage = stage
  BY <1>1
<1> HIDE DEF r
<1>5. pc'[t] = r /\ \A u \in Threads : u # t => pc'[u] = pc[u]
  BY <1>1, <1>3
<1>6. pc' \in [Threads -> [round : Nat, at : Nat, stage : Stages]]
  BY <1>3, <1>4 DEF TypesOk
<1>7. image' = image /\ Threads' = Threads
  BY SameModule
<1>8. Current(t)' = Current(t) /\ \A u \in Threads : u # t => Current(u)' = Current(u)
  BY <1>4, <1>5, <1>7 DEF Current
<1>9. \A p, n : Awaited(p, n)' <=> Awaited(p, n)
  BY <1>1, <1>3, <1>4, StillAwaited
<1>10. Current(t).kind = "send" /\ pc[t].at \in DOMAIN image.code[t]
  BY AtInstruction
<1>11. PcOk'
  BY <1>4, <1>5, <1>7, <1>8, <1>10 DEF PcOk
<1> QED BY <1>4, <1>5, <1>6, <1>8, <1>9, <1>11

LEMMA DeliverKeeps ==
  ASSUME Running, DInv, NEW c \in DOMAIN flight, DeliverReady(c)
  PROVE  DInv'
<1> USE DEF DInv
<1>1. /\ UNCHANGED compiled /\ pc' = pc /\ pending' = pending /\ flight[c] > 0
      /\ flight' = [flight EXCEPT ![c] = @ - 1] /\ sem' = [sem EXCEPT ![c] = @ + 1]
      /\ done' = done /\ waited' = waited /\ open' = open /\ filled' = filled
  BY DEF DeliverReady, history
<1>2. /\ prog' = prog /\ image' = image /\ Threads' = Threads /\ Ends' = Ends /\ Nets' = Nets
      /\ Counters' = Counters /\ \A p : Counter(p)' = Counter(p) /\ Sharers(p)' = Sharers(p)
  BY <1>1, SameModule
<1>3. c \in Counters /\ flight \in [Counters -> Nat] /\ sem \in [Counters -> Nat]
  BY DEF TypesOk
<1>4. /\ flight' \in [Counters -> Nat] /\ sem' \in [Counters -> Nat]
      /\ \A d \in Counters : sem'[d] + flight'[d] = sem[d] + flight[d]
      /\ \A d \in Counters : flight[d] = 0 => flight'[d] = 0 /\ sem'[d] = sem[d]
  BY <1>1, <1>3
<1>5. \A u \in Threads : Current(u)' = Current(u)
  BY <1>1, <1>2 DEF Current
<1>6. \A u \in Threads : \A q, stage : Sending(u, q, stage)' <=> Sending(u, q, stage)
  BY <1>1, <1>5 DEF Sending
<1>7. \A p, n : Awaited(p, n)' <=> Awaited(p, n)
  BY <1>1, <1>2 DEF Awaited
<1>8. \A p : Opened(p)' = Opened(p)
  BY <1>1 DEF Opened
<1>9. TypesOk'
  BY <1>1, <1>2, <1>4 DEF TypesOk
<1>10. PcOk'
  BY <1>1, <1>2, <1>5 DEF PcOk
<1>11. EndsOk'
  BY <1>1, <1>2, <1>7 DEF EndsOk
<1>12. SendsOk'
  <2>1. ASSUME NEW u \in Threads, NEW p, Sending(u, p, "reset") \/ Sending(u, p, "write")
        PROVE  Counter(p) \in Counters
    <3>1. Current(u).pipe = p /\ Current(u).kind = "send" /\ pc[u].at \in DOMAIN image.code[u]
      BY <2>1 DEF Sending, PcOk
    <3>2. pc[u].at \in In(image.code, u, {"post", "send"})
      BY <3>1 DEF In, Current
    <3>3. p \in Units(prog)
      BY <3>1, <3>2 DEF Current, Running, Static
    <3> QED BY <3>3 DEF Counters
  <2> QED BY <1>1, <1>2, <1>4, <1>6, <2>1 DEF SendsOk
<1>13. CountOk'
  <2>1. \A p \in Units(prog) : Counter(p) \in Counters
    BY DEF Counters
  <2> QED BY <1>2, <1>4, <1>6, <1>8, <2>1 DEF CountOk
<1>14. DoneOk'
  <2>1. \A p, n : Pending(p, n)' <=> Pending(p, n)
    BY <1>1, <1>2, <1>6 DEF Pending
  <2>2. \A net, n : Arrived(net, n)' <=> Arrived(net, n)
    BY <1>1, <1>2, <2>1 DEF Arrived
  <2> QED BY <1>1, <1>2, <2>2 DEF DoneOk
<1>15. TurnsOk'
  BY <1>1, <1>2, <1>8 DEF TurnsOk
<1> QED BY <1>9, <1>10, <1>11, <1>12, <1>13, <1>14, <1>15

LEMMA OpenedCount ==
  ASSUME NEW p, IsFiniteSet(Destinations(p))
  PROVE  /\ IsFiniteSet(Opened(p)) /\ Cardinality(Opened(p)) \in Nat
         /\ Cardinality(Destinations(p)) \in Nat
         /\ Cardinality(Opened(p)) <= Cardinality(Destinations(p))
         /\ Cardinality(Opened(p)) = Cardinality(Destinations(p)) => Opened(p) = Destinations(p)
<1>1. Opened(p) \in SUBSET Destinations(p)
  BY DEF Opened
<1>2. /\ IsFiniteSet(Opened(p)) /\ Cardinality(Opened(p)) <= Cardinality(Destinations(p))
      /\ Cardinality(Destinations(p)) = Cardinality(Opened(p)) => Destinations(p) = Opened(p)
  BY <1>1, FS_Subset
<1>3. Cardinality(Opened(p)) \in Nat /\ Cardinality(Destinations(p)) \in Nat
  BY <1>2, FS_CardinalityType
<1> QED BY <1>2, <1>3

(* A send that finds its counter full finds every receive open.            *)
LEMMA AllPosted ==
  ASSUME Running, DInv, NEW t \in Threads, NEW p, IsAt(t, "send", "op"), p = Current(t).pipe,
         sem[Counter(p)] = image.plan[p].expected
  PROVE  (\A n \in Destinations(p) : open[<<p, n>>] = 1) /\ flight[Counter(p)] = 0
<1> USE DEF DInv
<1>1. /\ p \in Units(prog) /\ Counter(p) \in Counters /\ pc[t].at \in Events(image.code, t, p)
      /\ sem[Counter(p)] = Cardinality(Destinations(p))
      /\ IsFiniteSet(Destinations(p)) /\ Destinations(p) # {}
      /\ \A u \in Threads : (pc[u].stage # "op" /\ Current(u).pipe = p) => u = t
  BY AtSend
<1>2. pc[t].stage = "op"
  BY AtInstruction
<1>3. sem[Counter(p)] \in Nat /\ flight[Counter(p)] \in Nat
  BY <1>1 DEF TypesOk
<1>4. Cardinality(Destinations(p)) \in Nat /\ Cardinality(Destinations(p)) # 0
  BY <1>1, FS_CardinalityType, FS_EmptySet
<1>5. Opened(p) # {}
  <2> SUFFICES ASSUME Opened(p) = {} PROVE FALSE
    OBVIOUS
  <2>1. \A q \in Sharers(p) : Opened(q) = {}
    BY <1>1, OthersClosed
  <2>2. sem[Counter(p)] + flight[Counter(p)] = 0
    BY <1>1, <2>1 DEF CountOk
  <2> QED BY <1>1, <1>3, <1>4, <2>2
<1>6. \A u \in Threads : ~Sending(u, p, "write")
  BY <1>1, <1>2 DEF Sending
<1>7. sem[Counter(p)] + flight[Counter(p)] = Cardinality(Opened(p))
  BY <1>1, <1>5, <1>6 DEF CountOk
<1>8. Cardinality(Opened(p)) = Cardinality(Destinations(p)) /\ flight[Counter(p)] = 0
  BY <1>1, <1>3, <1>4, <1>7, OpenedCount
<1>9. Opened(p) = Destinations(p)
  BY <1>1, <1>8, OpenedCount
<1> QED BY <1>8, <1>9 DEF Opened

LEMMA ReadyKeeps ==
  ASSUME Running, DInv, NEW t \in Threads, SendReady(t)
  PROVE  DInv'
<1> USE DEF DInv
<1>1. PICK p : p = Current(t).pipe
  OBVIOUS
<1>2. /\ UNCHANGED compiled /\ IsAt(t, "send", "op") /\ ToStage(t, "reset") /\ pending' = pending
      /\ sem[Counter(p)] = image.plan[p].expected /\ flight' = flight /\ sem' = sem
      /\ done' = done /\ waited' = waited /\ open' = open /\ filled' = filled
  BY <1>1 DEF SendReady, history
<1>3. /\ prog' = prog /\ image' = image /\ Threads' = Threads /\ Ends' = Ends /\ Nets' = Nets
      /\ Counters' = Counters /\ \A q : Counter(q)' = Counter(q) /\ Sharers(q)' = Sharers(q)
  BY <1>2, SameModule
<1>4. /\ pc' \in [Threads -> [round : Nat, at : Nat, stage : Stages]]
      /\ pc'[t].stage = "reset" /\ Current(t)' = Current(t)
      /\ \A u \in Threads : u # t => pc'[u] = pc[u] /\ Current(u)' = Current(u)
      /\ \A q, n : Awaited(q, n)' <=> Awaited(q, n)
      /\ \A u \in Threads : pc'[u].at = pc[u].at
      /\ PcOk'
  BY <1>2, StageStep DEF Stages
<1>5. pc[t].stage = "op"
  BY <1>2, AtInstruction
<1>6. \A u \in Threads : \A q : /\ Sending(u, q, "write")' <=> Sending(u, q, "write")
                                /\ Sending(u, q, "signal")' <=> Sending(u, q, "signal")
                                /\ Sending(u, q, "reset")' => Sending(u, q, "reset") \/ q = p
  BY <1>1, <1>4, <1>5 DEF Sending
<1>7. (\A n \in Destinations(p) : open[<<p, n>>] = 1) /\ flight[Counter(p)] = 0
  BY <1>1, <1>2, AllPosted
<1>8. \A q : Opened(q)' = Opened(q)
  BY <1>2 DEF Opened
<1>9. TypesOk'
  BY <1>2, <1>3, <1>4 DEF TypesOk
<1>10. EndsOk'
  BY <1>2, <1>3, <1>4 DEF EndsOk
<1>11. SendsOk'
  BY <1>2, <1>3, <1>6, <1>7 DEF SendsOk
<1>12. CountOk'
  BY <1>2, <1>3, <1>6, <1>8 DEF CountOk
<1>13. DoneOk'
  <2>1. \A q, n : Pending(q, n)' <=> Pending(q, n)
    BY <1>2, <1>3, <1>6 DEF Pending
  <2>2. \A net, n : Arrived(net, n)' <=> Arrived(net, n)
    BY <1>2, <1>3, <2>1 DEF Arrived
  <2> QED BY <1>2, <1>3, <2>2 DEF DoneOk
<1>14. TurnsOk'
  BY <1>3, <1>4, <1>8 DEF TurnsOk
<1> QED BY <1>4, <1>9, <1>10, <1>11, <1>12, <1>13, <1>14

LEMMA ResetKeeps ==
  ASSUME Running, DInv, NEW t \in Threads, SendReset(t)
  PROVE  DInv'
<1> USE DEF DInv
<1>1. PICK p : p = Current(t).pipe
  OBVIOUS
<1>2. /\ UNCHANGED compiled /\ IsAt(t, "send", "reset") /\ ToStage(t, "write") /\ pending' = pending
      /\ sem' = [sem EXCEPT ![Counter(p)] = 0] /\ flight' = flight
      /\ done' = done /\ waited' = waited /\ open' = open /\ filled' = filled
  BY <1>1 DEF SendReset, history
<1>3. /\ prog' = prog /\ image' = image /\ Threads' = Threads /\ Ends' = Ends /\ Nets' = Nets
      /\ Counters' = Counters /\ \A q : Counter(q)' = Counter(q) /\ Sharers(q)' = Sharers(q)
  BY <1>2, SameModule
<1>4. /\ pc' \in [Threads -> [round : Nat, at : Nat, stage : Stages]]
      /\ pc'[t].stage = "write" /\ Current(t)' = Current(t)
      /\ \A u \in Threads : u # t => pc'[u] = pc[u] /\ Current(u)' = Current(u)
      /\ \A q, n : Awaited(q, n)' <=> Awaited(q, n)
      /\ \A u \in Threads : pc'[u].at = pc[u].at
      /\ PcOk'
  BY <1>2, StageStep DEF Stages
<1>5. pc[t].stage = "reset"
  BY <1>2, AtInstruction
<1>6. /\ p \in Units(prog) /\ p \in prog.pipes /\ Counter(p) \in Counters
      /\ pc[t].at \in Events(image.code, t, p)
      /\ \A u \in Threads : (pc[u].stage # "op" /\ Current(u).pipe = p) => u = t
  BY <1>1, <1>2, AtSend
<1>7. \A u \in Threads : \A q : /\ Sending(u, q, "write")' <=> Sending(u, q, "write") \/ (u = t /\ q = p)
                                /\ Sending(u, q, "signal")' <=> Sending(u, q, "signal")
                                /\ Sending(u, q, "reset")' => Sending(u, q, "reset")
  BY <1>1, <1>4, <1>5 DEF Sending
<1>8. (\A n \in Destinations(p) : open[<<p, n>>] = 1) /\ flight[Counter(p)] = 0
  BY <1>1, <1>5, <1>6 DEF SendsOk, Sending
<1>9. \A q : Opened(q)' = Opened(q)
  BY <1>2 DEF Opened
<1>10. sem \in [Counters -> Nat]
  BY DEF TypesOk
<1>11. /\ sem'[Counter(p)] = 0 /\ sem' \in [Counters -> Nat]
       /\ \A d \in Counters : d # Counter(p) => sem'[d] = sem[d]
       /\ \A d \in Counters : sem[d] = 0 => sem'[d] = 0
  BY <1>2, <1>6, <1>10
<1>12. TypesOk'
  BY <1>2, <1>3, <1>4, <1>11 DEF TypesOk
<1>13. EndsOk'
  BY <1>2, <1>3, <1>4 DEF EndsOk
<1>14. SendsOk'
  <2>1. ASSUME NEW u \in Threads, NEW q, Sending(u, q, "write")
        PROVE  Counter(q) \in Counters
    <3>1. Current(u).pipe = q /\ Current(u).kind = "send" /\ pc[u].at \in DOMAIN image.code[u]
      BY <2>1 DEF Sending, PcOk
    <3>2. pc[u].at \in In(image.code, u, {"post", "send"})
      BY <3>1 DEF In, Current
    <3>3. q \in Units(prog)
      BY <3>1, <3>2 DEF Current, Running, Static
    <3> QED BY <3>3 DEF Counters
  <2> QED BY <1>2, <1>3, <1>7, <1>8, <1>11, <2>1 DEF SendsOk
<1>15. CountOk'
  <2> SUFFICES ASSUME NEW q \in Units(prog)
               PROVE  /\ (Opened(q) # {} /\ \A u \in Threads : ~Sending(u, q, "write")') =>
                           sem'[Counter(q)] + flight[Counter(q)] = Cardinality(Opened(q))
                      /\ (\A s \in Sharers(q) \cup {q} : Opened(s) = {}) =>
                           sem'[Counter(q)] + flight[Counter(q)] = 0
    BY <1>2, <1>3, <1>9 DEF CountOk
  <2>1. Counter(q) \in Counters
    BY DEF Counters
  <2>2. CASE Counter(q) # Counter(p)
    <3>1. q # p /\ sem'[Counter(q)] = sem[Counter(q)]
      BY <1>11, <2>1, <2>2
    <3>2. \A u \in Threads : Sending(u, q, "write")' <=> Sending(u, q, "write")
      BY <1>7, <3>1
    <3> QED BY <3>1, <3>2 DEF CountOk
  <2>3. CASE q = p
    <3>1. Sending(t, p, "write")'
      BY <1>7
    <3> QED BY <1>8, <1>11, <2>3, <3>1
  <2>4. CASE q # p /\ Counter(q) = Counter(p)
    <3>1. q \in Sharers(p)
      BY <2>4 DEF Sharers
    <3>2. Opened(q) = {}
      BY <1>6, <3>1, OthersClosed
    <3> QED BY <1>8, <1>11, <2>4, <3>2
  <2> QED BY <2>2, <2>3, <2>4
<1>16. DoneOk'
  <2>1. \A q, n : Pending(q, n)' <=> Pending(q, n)
    BY <1>2, <1>3, <1>7 DEF Pending
  <2>2. \A net, n : Arrived(net, n)' <=> Arrived(net, n)
    BY <1>2, <1>3, <2>1 DEF Arrived
  <2> QED BY <1>2, <1>3, <2>2 DEF DoneOk
<1>17. TurnsOk'
  BY <1>3, <1>4, <1>9 DEF TurnsOk
<1> QED BY <1>4, <1>12, <1>13, <1>14, <1>15, <1>16, <1>17

LEMMA WriteKeeps ==
  ASSUME Running, DInv, NEW t \in Threads, SendWrite(t)
  PROVE  DInv'
<1> USE DEF DInv
<1>1. PICK p : p = Current(t).pipe
  OBVIOUS
<1>2. /\ UNCHANGED compiled /\ IsAt(t, "send", "write") /\ ToStage(t, "signal")
      /\ pending' = [pending EXCEPT ![t] = Destinations(p)]
      /\ open' = [e \in DOMAIN open |-> IF e[1] = p THEN open[e] - 1 ELSE open[e]]
      /\ filled' = [e \in DOMAIN filled |-> IF e[1] = p THEN filled[e] + 1 ELSE filled[e]]
      /\ sem' = sem /\ flight' = flight /\ done' = done /\ waited' = waited
  BY <1>1 DEF SendWrite
<1>3. /\ prog' = prog /\ image' = image /\ Threads' = Threads /\ Ends' = Ends /\ Nets' = Nets
      /\ Counters' = Counters /\ \A q : Counter(q)' = Counter(q) /\ Sharers(q)' = Sharers(q)
  BY <1>2, SameModule
<1>4. /\ pc' \in [Threads -> [round : Nat, at : Nat, stage : Stages]]
      /\ pc'[t].stage = "signal" /\ Current(t)' = Current(t)
      /\ \A u \in Threads : u # t => pc'[u] = pc[u] /\ Current(u)' = Current(u)
      /\ \A q, n : Awaited(q, n)' <=> Awaited(q, n)
      /\ \A u \in Threads : pc'[u].at = pc[u].at
      /\ PcOk'
  BY <1>2, StageStep DEF Stages
<1>5. pc[t].stage = "write"
  BY <1>2, AtInstruction
<1>6. /\ p \in Units(prog) /\ p \in prog.pipes /\ Counter(p) \in Counters /\ Destinations(p) # {}
      /\ \A u \in Threads : (pc[u].stage # "op" /\ Current(u).pipe = p) => u = t
  BY <1>1, <1>2, AtSend
<1>7. /\ \A u \in Threads : u # t => \A q, stage : Sending(u, q, stage)' <=> Sending(u, q, stage)
      /\ \A q, stage : Sending(t, q, stage)' <=> q = p /\ stage = "signal"
      /\ \A u \in Threads : \A q : (u # t /\ \E stage : stage # "op" /\ Sending(u, q, stage)) => q # p
      /\ \A q, stage : Sending(t, q, stage) <=> q = p /\ stage = "write"
  BY <1>1, <1>4, <1>5, <1>6 DEF Sending
<1>8. (\A n \in Destinations(p) : open[<<p, n>>] = 1) /\ flight[Counter(p)] = 0 /\ sem[Counter(p)] = 0
  BY <1>6, <1>7 DEF SendsOk
<1>9. \A q \in prog.pipes : \A n \in Destinations(q) :
        /\ <<q, n>> \in Ends
        /\ q = p => open'[<<q, n>>] = 0 /\ filled[<<q, n>>] = 0 /\ filled'[<<q, n>>] = 1
        /\ q # p => open'[<<q, n>>] = open[<<q, n>>] /\ filled'[<<q, n>>] = filled[<<q, n>>]
  <2> SUFFICES ASSUME NEW q \in prog.pipes, NEW n \in Destinations(q)
               PROVE  /\ <<q, n>> \in Ends
                      /\ q = p => open'[<<q, n>>] = 0 /\ filled[<<q, n>>] = 0 /\ filled'[<<q, n>>] = 1
                      /\ q # p => open'[<<q, n>>] = open[<<q, n>>] /\ filled'[<<q, n>>] = filled[<<q, n>>]
    OBVIOUS
  <2>1. /\ <<q, n>> \in Ends /\ filled[<<q, n>>] \in {0, 1}
        /\ ~(open[<<q, n>>] = 1 /\ filled[<<q, n>>] = 1)
    BY EndStates
  <2>2. <<q, n>> \in DOMAIN open /\ <<q, n>> \in DOMAIN filled /\ <<q, n>>[1] = q
    BY <2>1 DEF TypesOk
  <2>3. /\ open'[<<q, n>>] = IF q = p THEN open[<<q, n>>] - 1 ELSE open[<<q, n>>]
        /\ filled'[<<q, n>>] = IF q = p THEN filled[<<q, n>>] + 1 ELSE filled[<<q, n>>]
    BY <1>2, <2>2
  <2> QED BY <1>8, <2>1, <2>3
<1>10. pending'[t] = Destinations(p) /\ \A u \in Threads : u # t => pending'[u] = pending[u]
  BY <1>2 DEF TypesOk
<1>11. Opened(p)' = {} /\ \A q \in prog.pipes : q # p => Opened(q)' = Opened(q)
  BY <1>6, <1>9 DEF Opened
<1>12. TypesOk'
  <2>1. open' \in [Ends -> Nat] /\ filled' \in [Ends -> Nat]
    <3>1. DOMAIN open' = Ends /\ DOMAIN filled' = Ends
      BY <1>2 DEF TypesOk
    <3>2. ASSUME NEW e \in Ends PROVE open'[e] \in Nat /\ filled'[e] \in Nat
      <4>1. PICK q \in prog.pipes : \E n \in Destinations(q) : e = <<q, n>>
        BY DEF Ends
      <4>2. PICK n \in Destinations(q) : e = <<q, n>>
        BY <4>1
      <4> QED BY <1>9, <4>1, <4>2 DEF TypesOk
    <3>3. open' = [e \in Ends |-> open'[e]] /\ filled' = [e \in Ends |-> filled'[e]]
      BY <1>2, <3>1
    <3> QED BY <3>2, <3>3
  <2>2. pending' = [u \in Threads |-> pending'[u]]
    BY <1>2 DEF TypesOk
  <2> QED BY <1>2, <1>3, <1>4, <2>1, <2>2 DEF TypesOk
<1>13. EndsOk'
  <2>1. ASSUME NEW q \in prog.pipes, NEW n \in Destinations(q)
        PROVE  open'[<<q, n>>] + filled'[<<q, n>>] = open[<<q, n>>] + filled[<<q, n>>]
    <3>1. CASE q = p
      BY <1>8, <1>9, <2>1, <3>1
    <3>2. CASE q # p
      BY <1>9, <2>1, <3>2
    <3> QED BY <3>1, <3>2
  <2> QED BY <1>3, <1>4, <2>1 DEF EndsOk
<1>14. SendsOk'
  <2> SUFFICES ASSUME NEW u \in Threads, NEW q \in prog.pipes
               PROVE  /\ Sending(u, q, "reset")' =>
                           (\A n \in Destinations(q) : open'[<<q, n>>] = 1) /\ flight[Counter(q)] = 0
                      /\ Sending(u, q, "write")' =>
                           /\ \A n \in Destinations(q) : open'[<<q, n>>] = 1
                           /\ flight[Counter(q)] = 0 /\ sem[Counter(q)] = 0
                      /\ Sending(u, q, "signal")' =>
                           /\ pending'[u] # {} /\ pending'[u] \subseteq Destinations(q)
                           /\ \A n \in pending'[u] : filled'[<<q, n>>] = 1
    BY <1>2, <1>3 DEF SendsOk
  <2>1. CASE u = t
    BY <1>6, <1>7, <1>9, <1>10, <2>1
  <2>2. CASE u # t
    <3>1. \A stage : Sending(u, q, stage)' <=> Sending(u, q, stage)
      BY <1>7, <2>2
    <3>2. pending'[u] = pending[u]
      BY <1>10, <2>2
    <3>3. (Sending(u, q, "reset") \/ Sending(u, q, "write") \/ Sending(u, q, "signal")) => q # p
      BY <1>7, <2>2
    <3>4. q # p => \A n \in Destinations(q) : open'[<<q, n>>] = open[<<q, n>>] /\ filled'[<<q, n>>] = filled[<<q, n>>]
      BY <1>9
    <3> QED BY <3>1, <3>2, <3>3, <3>4 DEF SendsOk
  <2> QED BY <2>1, <2>2
<1>15. CountOk'
  <2> SUFFICES ASSUME NEW q \in Units(prog)
               PROVE  /\ (Opened(q)' # {} /\ \A u \in Threads : ~Sending(u, q, "write")') =>
                           sem[Counter(q)] + flight[Counter(q)] = Cardinality(Opened(q)')
                      /\ (\A s \in Sharers(q) \cup {q} : Opened(s)' = {}) =>
                           sem[Counter(q)] + flight[Counter(q)] = 0
    BY <1>2, <1>3 DEF CountOk
  <2>1. q \in prog.pipes /\ Sharers(q) \subseteq prog.pipes
    BY DEF Running, Static, Sharers
  <2>2. CASE q = p
    BY <1>8, <1>11, <2>2
  <2>3. CASE q # p
    <3>1. Opened(q)' = Opened(q) /\ \A u \in Threads : Sending(u, q, "write") => Sending(u, q, "write")'
      BY <1>7, <1>11, <2>1, <2>3
    <3>2. (Opened(q)' # {} /\ \A u \in Threads : ~Sending(u, q, "write")') =>
            sem[Counter(q)] + flight[Counter(q)] = Cardinality(Opened(q)')
      BY <3>1 DEF CountOk
    <3>3. CASE Counter(q) = Counter(p)
      BY <1>8, <3>2, <3>3
    <3>4. CASE Counter(q) # Counter(p)
      <4>1. p \notin Sharers(q) \cup {q}
        BY <2>3, <3>4 DEF Sharers
      <4>2. \A s \in Sharers(q) \cup {q} : Opened(s)' = Opened(s)
        BY <1>11, <2>1, <4>1
      <4> QED BY <3>2, <4>2 DEF CountOk
    <3> QED BY <3>3, <3>4
  <2> QED BY <2>2, <2>3
<1>16. DoneOk'
  <2>1. \A q \in prog.pipes : q # p => \A n : Pending(q, n)' <=> Pending(q, n)
    BY <1>3, <1>7, <1>10 DEF Pending
  <2>2. \A n \in Destinations(p) : Pending(p, n)'
    BY <1>3, <1>7, <1>10 DEF Pending
  <2>3. \A net, n : Arrived(net, n)' <=> Arrived(net, n)
    <3> SUFFICES ASSUME NEW net, NEW n PROVE Arrived(net, n)' <=> Arrived(net, n)
      OBVIOUS
    <3>1. ASSUME NEW q \in prog.pipes, n \in Destinations(q)
          PROVE  (filled'[<<q, n>>] = 1 /\ ~Pending(q, n)') <=> (filled[<<q, n>>] = 1 /\ ~Pending(q, n))
      <4>1. CASE q = p
        BY <1>9, <2>2, <3>1, <4>1
      <4>2. CASE q # p
        BY <1>9, <2>1, <3>1, <4>2
      <4> QED BY <4>1, <4>2
    <3> QED BY <1>3, <3>1 DEF Arrived
  <2> QED BY <1>2, <1>3, <2>3 DEF DoneOk
<1>17. TurnsOk'
  <2>1. \A q \in Units(prog) : Opened(q)' # {} => Opened(q) # {}
    BY <1>11 DEF Running, Static
  <2> QED BY <1>3, <1>4, <2>1 DEF TurnsOk
<1> QED BY <1>4, <1>12, <1>13, <1>14, <1>15, <1>16, <1>17

-----------------------------------------------------------------------------
(* A thread that has done one whole instruction.                           *)
LEMMA AdvanceStep ==
  ASSUME Running, TypesOk, PcOk, NEW t \in Threads, NEW kind, kind # "send", IsAt(t, kind, "op"), Advance(t),
         UNCHANGED compiled
  PROVE  /\ pc' \in [Threads -> [round : Nat, at : Nat, stage : Stages]] /\ PcOk'
         /\ \A u \in Threads : \A q : \A stage \in {"reset", "write", "signal"} :
              Sending(u, q, stage)' <=> Sending(u, q, stage)
         /\ \A u \in Threads : \A q \in Units(prog) :
              (Sharers(q) # {} /\ InTurn(image.code, u, q, pc[u].at)) => InTurn(image.code, u, q, pc'[u].at)
<1> DEFINE r == NextPc(t)
           a == pc[t].at
<1>1. pc' = [pc EXCEPT ![t] = r] /\ DOMAIN pc = Threads
  BY DEF Advance, TypesOk
<1>2. a \in DOMAIN image.code[t] /\ image.code[t][a].kind = kind /\ pc[t].stage = "op"
  BY AtInstruction
<1>3. r \in [round : Nat, at : Nat, stage : Stages] /\ r.at \in DOMAIN image.code[t] /\ r.stage = "op"
  BY NextInstruction
<1>4. ASSUME NEW q \in Units(prog), Sharers(q) # {}, InTurn(image.code, t, q, a)
      PROVE  InTurn(image.code, t, q, r.at)
  <2>1. a \notin SendsIn(image.code, t, q)
    BY <1>2 DEF SendsIn, In
  <2> QED BY <1>4, <2>1, StillInTurn
<1> HIDE DEF r
<1>5. pc'[t] = r /\ \A u \in Threads : u # t => pc'[u] = pc[u]
  BY <1>1
<1>6. pc' \in [Threads -> [round : Nat, at : Nat, stage : Stages]]
  BY <1>1, <1>3 DEF TypesOk
<1>7. image' = image /\ Threads' = Threads
  BY SameModule
<1>8. PcOk'
  BY <1>3, <1>5, <1>7 DEF PcOk, Current
<1>9. \A u \in Threads : \A q : \A stage \in {"reset", "write", "signal"} :
        Sending(u, q, stage)' <=> Sending(u, q, stage)
  BY <1>1, <1>2, <1>3, StillSending
<1> QED BY <1>4, <1>5, <1>6, <1>8, <1>9

(* A wait that returns finds its own receive filled and signalled: the     *)
(* count of the PipeNet is ahead of the waits, and no other receive of the *)
(* PipeNet is awaited here.                                                *)
LEMMA WaitFinds ==
  ASSUME Running, DInv, NEW t \in Threads, Wait(t), NEW p, NEW n, p = Current(t).pipe, n = t[1]
  PROVE  /\ p \in prog.pipes /\ n \in prog.grid /\ n \in Destinations(p) /\ p.net \in Nets /\ <<p, n>> \in Ends
         /\ Awaited(p, n) /\ ~Awaited(p, n)'
         /\ \A q, m : (q # p \/ m # n) => (Awaited(q, m)' <=> Awaited(q, m))
         /\ ReceivesFrom(image.code, t, p.net) /\ Arrived(p.net, n)
         /\ filled[<<p, n>>] = 1 /\ ~Pending(p, n) /\ open[<<p, n>>] = 0
<1> USE DEF DInv
<1> DEFINE c == <<t, p.net>>
<1>1. /\ UNCHANGED compiled /\ IsAt(t, "wait", "op") /\ Advance(t)
      /\ done[<<n, p.net>>] >= waited[c] + 1
  BY DEF Wait
<1>2. pc[t].at \in In(image.code, t, {"wait"}) /\ p = image.code[t][pc[t].at].pipe
  BY <1>1, AtInstruction
<1>3. p \in prog.pipes /\ n \in prog.grid /\ n \in Destinations(p) /\ p.net \in Nets /\ <<p, n>> \in Ends
  <2>1. pc[t].at \in In(image.code, t, {"post", "send", "wait"}) /\ pc[t].at \in In(image.code, t, {"post", "wait"})
    BY <1>2 DEF In
  <2>2. p \in prog.pipes /\ n \in prog.grid /\ n \in Destinations(p)
    BY <1>2, <2>1 DEF Running, Static
  <2>3. p.net \in Nets
    BY <2>2 DEF Nets
  <2>4. <<p, n>> \in Ends
    BY <2>2 DEF Ends
  <2> QED BY <2>2, <2>3, <2>4
<1>4. /\ Awaited(p, n) /\ ~Awaited(p, n)'
      /\ \A q, m : (q # p \/ m # n) => (Awaited(q, m)' <=> Awaited(q, m))
  BY <1>1, WaitAwaited
<1>5. ReceivesFrom(image.code, t, p.net)
  <2>1. AwaitsAt(image.code, t, p, pc[t].at)
    BY <1>2, WaitAwaits DEF Running
  <2> QED BY <2>1 DEF AwaitsAt, Receives, ReceivesFrom
<1>6. Arrived(p.net, n)
  <2>1. done[<<n, p.net>>] = waited[c] + IF Arrived(p.net, n) THEN 1 ELSE 0
    BY <1>3, <1>5 DEF DoneOk
  <2>2. done[<<n, p.net>>] \in Nat /\ waited[c] \in Nat
    BY <1>3 DEF TypesOk
  <2> QED BY <1>1, <2>1, <2>2
<1>7. filled[<<p, n>>] = 1 /\ ~Pending(p, n) /\ open[<<p, n>>] = 0
  <2>1. PICK q \in prog.pipes : q.net = p.net /\ n \in Destinations(q) /\ filled[<<q, n>>] = 1 /\ ~Pending(q, n)
    BY <1>6 DEF Arrived
  <2>2. Awaited(q, n)
    BY <2>1, EndStates
  <2>3. q = p
    BY <1>4, <2>1, <2>2, OneAwaited
  <2> QED BY <1>3, <2>1, <2>3, EndStates
<1> QED BY <1>3, <1>4, <1>5, <1>6, <1>7

LEMMA WaitKeeps ==
  ASSUME Running, DInv, NEW t \in Threads, Wait(t)
  PROVE  DInv'
<1> USE DEF DInv
<1>1. PICK p, n : p = Current(t).pipe /\ n = t[1]
  OBVIOUS
<1> DEFINE c == <<t, p.net>>
<1>2. /\ UNCHANGED compiled /\ IsAt(t, "wait", "op") /\ Advance(t)
      /\ done[<<n, p.net>>] >= waited[c] + 1
      /\ waited' = [waited EXCEPT ![c] = @ + 1] /\ filled' = [filled EXCEPT ![<<p, n>>] = @ - 1]
      /\ pending' = pending /\ sem' = sem /\ flight' = flight /\ done' = done /\ open' = open
  BY <1>1 DEF Wait
<1>3. /\ prog' = prog /\ image' = image /\ Threads' = Threads /\ Ends' = Ends /\ Nets' = Nets
      /\ Counters' = Counters /\ \A q : Counter(q)' = Counter(q) /\ Sharers(q)' = Sharers(q)
  BY <1>2, SameModule
<1>4. /\ pc' \in [Threads -> [round : Nat, at : Nat, stage : Stages]] /\ PcOk'
      /\ \A u \in Threads : \A q : \A stage \in {"reset", "write", "signal"} :
           Sending(u, q, stage)' <=> Sending(u, q, stage)
      /\ \A u \in Threads : \A q \in Units(prog) :
           (Sharers(q) # {} /\ InTurn(image.code, u, q, pc[u].at)) => InTurn(image.code, u, q, pc'[u].at)
  BY <1>2, AdvanceStep
<1>5. p \in prog.pipes /\ n \in prog.grid /\ n \in Destinations(p) /\ p.net \in Nets /\ <<p, n>> \in Ends
  BY <1>1, WaitFinds
<1>6. /\ Awaited(p, n) /\ ~Awaited(p, n)'
      /\ \A q, m : (q # p \/ m # n) => (Awaited(q, m)' <=> Awaited(q, m))
  BY <1>1, WaitFinds
<1>7. ReceivesFrom(image.code, t, p.net) /\ Arrived(p.net, n)
  BY <1>1, WaitFinds
<1>8. filled[<<p, n>>] = 1 /\ ~Pending(p, n) /\ open[<<p, n>>] = 0
  BY <1>1, WaitFinds
<1>9. /\ filled'[<<p, n>>] = 0 /\ filled' \in [Ends -> Nat]
       /\ \A q, m : (<<q, m>> \in Ends /\ (q # p \/ m # n)) => filled'[<<q, m>>] = filled[<<q, m>>]
  BY <1>2, <1>5, <1>8 DEF TypesOk
<1>10. \A q, m : Pending(q, m)' <=> Pending(q, m)
  BY <1>2, <1>3, <1>4 DEF Pending
<1>11. \A q : Opened(q)' = Opened(q)
  BY <1>2 DEF Opened
<1>12. TypesOk'
  <2>1. waited \in [Threads \X Nets -> Nat] /\ c \in Threads \X Nets
    BY <1>5 DEF TypesOk
  <2>2. waited' \in [Threads \X Nets -> Nat]
    BY <1>2, <2>1
  <2> QED BY <1>2, <1>3, <1>4, <1>9, <2>2 DEF TypesOk
<1>13. EndsOk'
  <2>1. ASSUME NEW q \in prog.pipes, NEW m \in Destinations(q)
        PROVE  open[<<q, m>>] + filled'[<<q, m>>] = IF Awaited(q, m)' THEN 1 ELSE 0
    <3>1. CASE q = p /\ m = n
      BY <1>6, <1>8, <1>9, <3>1
    <3>2. CASE q # p \/ m # n
      <4>1. <<q, m>> \in Ends
        BY EndStates
      <4> QED BY <1>6, <1>9, <3>2, <4>1 DEF EndsOk
    <3> QED BY <3>1, <3>2
  <2> QED BY <1>2, <1>3, <2>1 DEF EndsOk
<1>14. SendsOk'
  <2>1. ASSUME NEW u \in Threads, NEW q \in prog.pipes, Sending(u, q, "signal"), NEW m \in pending[u]
        PROVE  filled'[<<q, m>>] = 1
    <3>1. filled[<<q, m>>] = 1 /\ m \in Destinations(q) /\ Pending(q, m)
      BY <2>1 DEF SendsOk, Pending
    <3>2. <<q, m>> \in Ends /\ (q # p \/ m # n)
      BY <1>8, <3>1, EndStates
    <3> QED BY <1>9, <3>1, <3>2
  <2> QED BY <1>2, <1>3, <1>4, <2>1 DEF SendsOk
<1>15. CountOk'
  BY <1>2, <1>3, <1>4, <1>11 DEF CountOk
<1>16. DoneOk'
  <2> SUFFICES ASSUME NEW u \in Threads, NEW net \in Nets, ReceivesFrom(image.code, u, net)
               PROVE  done[<<u[1], net>>] = waited'[<<u, net>>] + IF Arrived(net, u[1])' THEN 1 ELSE 0
    BY <1>2, <1>3 DEF DoneOk
  <2>1. done[<<u[1], net>>] = waited[<<u, net>>] + IF Arrived(net, u[1]) THEN 1 ELSE 0
    BY DEF DoneOk
  <2>2. waited \in [Threads \X Nets -> Nat]
    BY DEF TypesOk
  <2>3. CASE net = p.net /\ u[1] = n
    <3>1. u = t
      <4>1. PICK i \in In(image.code, u, {"post"}) : image.code[u][i].pipe.net = p.net
        BY <2>3 DEF ReceivesFrom
      <4>2. PICK j \in In(image.code, t, {"post"}) : image.code[t][j].pipe.net = p.net
        BY <1>7 DEF ReceivesFrom
      <4>3. u \in DOMAIN image.code /\ t \in DOMAIN image.code
        BY DEF Running, Static
      <4> QED BY <1>1, <2>3, <4>1, <4>2, <4>3 DEF Running, Orderly
    <3>2. ~Arrived(p.net, n)'
      <4> SUFFICES ASSUME NEW q \in prog.pipes, q.net = p.net, n \in Destinations(q), filled'[<<q, n>>] = 1
                   PROVE  FALSE
        BY <1>3 DEF Arrived
      <4>1. q # p
        BY <1>9
      <4>2. filled[<<q, n>>] = 1
        BY <1>9, <4>1, EndStates
      <4>3. Awaited(q, n)
        BY <4>2, EndStates
      <4> QED BY <1>6, <4>1, <4>3, OneAwaited
    <3>3. ~Arrived(net, u[1])'
      BY <2>3, <3>2, <1>1, <3>1
    <3>4. waited'[c] = waited[c] + 1 /\ waited[c] \in Nat
      BY <1>2, <1>5, <2>2
    <3> QED BY <1>7, <2>1, <2>3, <3>1, <3>3, <3>4
  <2>4. CASE net # p.net \/ u[1] # n
    <3>1. waited'[<<u, net>>] = waited[<<u, net>>]
      BY <1>1, <1>2, <2>2, <2>4
    <3>2. ASSUME NEW q \in prog.pipes, q.net = net, u[1] \in Destinations(q)
          PROVE  filled'[<<q, u[1]>>] = filled[<<q, u[1]>>]
      BY <1>9, <2>4, <3>2, EndStates
    <3>3. Arrived(net, u[1])' <=> Arrived(net, u[1])
      BY <1>3, <1>10, <3>2 DEF Arrived
    <3> QED BY <2>1, <3>1, <3>3
  <2> QED BY <2>3, <2>4
<1>17. TurnsOk'
  BY <1>3, <1>4, <1>11 DEF TurnsOk
<1> QED BY <1>4, <1>12, <1>13, <1>14, <1>15, <1>16, <1>17

LEMMA PostKeeps ==
  ASSUME Running, DInv, NEW t \in Threads, Post(t)
  PROVE  DInv'
<1> USE DEF DInv
<1>1. PICK p, n : p = Current(t).pipe /\ n = t[1]
  OBVIOUS
<1> DEFINE a == pc[t].at
<1>2. /\ UNCHANGED compiled /\ IsAt(t, "post", "op") /\ Advance(t)
      /\ flight' = [flight EXCEPT ![Counter(p)] = @ + 1] /\ open' = [open EXCEPT ![<<p, n>>] = @ + 1]
      /\ pending' = pending /\ sem' = sem /\ done' = done /\ waited' = waited /\ filled' = filled
  BY <1>1 DEF Post
<1>3. /\ prog' = prog /\ image' = image /\ Threads' = Threads /\ Ends' = Ends /\ Nets' = Nets
      /\ Counters' = Counters /\ \A q : Counter(q)' = Counter(q) /\ Sharers(q)' = Sharers(q)
  BY <1>2, SameModule
<1>4. /\ pc' \in [Threads -> [round : Nat, at : Nat, stage : Stages]] /\ PcOk'
      /\ \A u \in Threads : \A q : \A stage \in {"reset", "write", "signal"} :
           Sending(u, q, stage)' <=> Sending(u, q, stage)
      /\ \A u \in Threads : \A q \in Units(prog) :
           (Sharers(q) # {} /\ InTurn(image.code, u, q, pc[u].at)) => InTurn(image.code, u, q, pc'[u].at)
  BY <1>2, AdvanceStep
<1>5. a \in In(image.code, t, {"post"}) /\ p = image.code[t][a].pipe
  BY <1>1, <1>2, AtInstruction
<1>6. /\ p \in Units(prog) /\ p \in prog.pipes /\ n \in Destinations(p) /\ <<p, n>> \in Ends
      /\ Counter(p) \in Counters /\ IsFiniteSet(Destinations(p)) /\ a \in Receives(image.code, t, p)
  <2>1. a \in In(image.code, t, {"post", "send"}) /\ a \in In(image.code, t, {"post", "wait"})
    BY <1>5 DEF In
  <2>2. p \in Units(prog) /\ p \in prog.pipes /\ n \in Destinations(p) /\ IsFiniteSet(Destinations(p))
    BY <1>1, <1>5, <2>1 DEF Running, Static
  <2>3. Counter(p) \in Counters /\ a \in Receives(image.code, t, p)
    BY <1>5, <2>2 DEF Counters, Receives
  <2>4. <<p, n>> \in Ends
    BY <2>2 DEF Ends
  <2> QED BY <2>2, <2>3, <2>4
<1>7. /\ ~Awaited(p, n) /\ Awaited(p, n)'
      /\ \A q, m : (q # p \/ m # n) => (Awaited(q, m)' <=> Awaited(q, m))
  BY <1>1, <1>2, PostAwaited
<1>8. open[<<p, n>>] = 0 /\ filled[<<p, n>>] = 0
  BY <1>6, <1>7, EndStates
<1>9. /\ open' \in [Ends -> Nat] /\ open'[<<p, n>>] = 1
      /\ \A q, m : (<<q, m>> \in Ends /\ (q # p \/ m # n)) => open'[<<q, m>>] = open[<<q, m>>]
  BY <1>2, <1>6, <1>8 DEF TypesOk
<1>10. /\ flight' \in [Counters -> Nat] /\ flight'[Counter(p)] = flight[Counter(p)] + 1
       /\ \A c \in Counters : c # Counter(p) => flight'[c] = flight[c]
  BY <1>2, <1>6 DEF TypesOk
<1>11. \A q \in Sharers(p) : Opened(q) = {}
  <2>1. a \in Events(image.code, t, p)
    BY <1>6 DEF Events
  <2> QED BY <1>6, <2>1, OthersClosed
<1>12. /\ Opened(p)' = Opened(p) \cup {n} /\ n \notin Opened(p)
       /\ \A q \in prog.pipes : q # p => Opened(q)' = Opened(q)
  <2>1. \A q \in prog.pipes : \A m \in Destinations(q) : <<q, m>> \in Ends
    BY DEF Ends
  <2> QED BY <1>6, <1>8, <1>9, <2>1 DEF Opened
<1>13. ASSUME NEW u \in Threads, NEW q \in prog.pipes, Sending(u, q, "reset") \/ Sending(u, q, "write")
       PROVE  q # p /\ Counter(q) # Counter(p) /\ Counter(q) \in Counters
  <2>1. Current(u).pipe = q /\ Current(u).kind = "send" /\ pc[u].at \in DOMAIN image.code[u]
    BY <1>13 DEF Sending, PcOk
  <2>2. pc[u].at \in In(image.code, u, {"post", "send"})
    BY <2>1 DEF In, Current
  <2>3. q \in Units(prog)
    BY <2>1, <2>2 DEF Current, Running, Static
  <2>4. \A m \in Destinations(q) : open[<<q, m>>] = 1
    BY <1>13 DEF SendsOk
  <2>5. q # p
    BY <1>6, <1>8, <2>4
  <2>6. Opened(q) # {}
    BY <2>4 DEF Opened, Running, Static
  <2>7. q \notin Sharers(p)
    BY <1>11, <2>6
  <2> QED BY <2>3, <2>5, <2>7 DEF Sharers, Counters
<1>14. TypesOk'
  BY <1>2, <1>3, <1>4, <1>9, <1>10 DEF TypesOk
<1>15. EndsOk'
  <2>1. ASSUME NEW q \in prog.pipes, NEW m \in Destinations(q)
        PROVE  open'[<<q, m>>] + filled[<<q, m>>] = IF Awaited(q, m)' THEN 1 ELSE 0
    <3>1. CASE q = p /\ m = n
      BY <1>7, <1>8, <1>9, <3>1
    <3>2. CASE q # p \/ m # n
      <4>1. <<q, m>> \in Ends
        BY EndStates
      <4> QED BY <1>7, <1>9, <3>2, <4>1 DEF EndsOk
    <3> QED BY <3>1, <3>2
  <2> QED BY <1>2, <1>3, <2>1 DEF EndsOk
<1>16. SendsOk'
  <2>1. ASSUME NEW u \in Threads, NEW q \in prog.pipes, Sending(u, q, "reset") \/ Sending(u, q, "write")
        PROVE  flight'[Counter(q)] = flight[Counter(q)] /\ \A m \in Destinations(q) : open'[<<q, m>>] = open[<<q, m>>]
    <3>1. q # p /\ Counter(q) # Counter(p) /\ Counter(q) \in Counters
      BY <1>13, <2>1
    <3> QED BY <1>9, <1>10, <3>1, EndStates
  <2> QED BY <1>2, <1>3, <1>4, <2>1 DEF SendsOk
<1>17. CountOk'
  <2> SUFFICES ASSUME NEW q \in Units(prog)
               PROVE  /\ (Opened(q)' # {} /\ \A u \in Threads : ~Sending(u, q, "write")') =>
                           sem[Counter(q)] + flight'[Counter(q)] = Cardinality(Opened(q)')
                      /\ (\A s \in Sharers(q) \cup {q} : Opened(s)' = {}) =>
                           sem[Counter(q)] + flight'[Counter(q)] = 0
    BY <1>2, <1>3 DEF CountOk
  <2>1. q \in prog.pipes /\ Sharers(q) \subseteq prog.pipes /\ Counter(q) \in Counters
    BY DEF Running, Static, Sharers, Counters
  <2>2. CASE q = p
    <3>1. sem[Counter(p)] + flight[Counter(p)] = Cardinality(Opened(p))
      <4>1. CASE Opened(p) = {}
        <5>1. sem[Counter(p)] + flight[Counter(p)] = 0
          BY <1>6, <1>11, <4>1 DEF CountOk
        <5> QED BY <4>1, <5>1, FS_EmptySet
      <4>2. CASE Opened(p) # {}
        <5>1. \A u \in Threads : ~Sending(u, p, "write")
          BY <1>6, <1>13
        <5> QED BY <1>6, <4>2, <5>1 DEF CountOk
      <4> QED BY <4>1, <4>2
    <3>2. IsFiniteSet(Opened(p)) /\ Cardinality(Opened(p)) \in Nat
      BY <1>6, OpenedCount
    <3>3. Cardinality(Opened(p) \cup {n}) = Cardinality(Opened(p)) + 1
      BY <1>12, <3>2, FS_AddElement
    <3>4. sem[Counter(p)] \in Nat /\ flight[Counter(p)] \in Nat
      BY <1>6 DEF TypesOk
    <3>5. sem[Counter(p)] + flight'[Counter(p)] = Cardinality(Opened(p)')
      BY <1>10, <1>12, <3>1, <3>2, <3>3, <3>4
    <3> QED BY <1>12, <2>2, <3>5
  <2>3. CASE q \in Sharers(p)
    <3>1. p \in Sharers(q) /\ q # p
      BY <1>6, <2>3, SharersMutual
    <3>2. Opened(q)' = {} /\ Opened(p)' # {}
      BY <1>11, <1>12, <2>1, <2>3, <3>1
    <3> QED BY <3>1, <3>2
  <2>4. CASE q # p /\ q \notin Sharers(p)
    <3>1. Counter(q) # Counter(p) /\ p \notin Sharers(q) \cup {q}
      BY <2>4 DEF Sharers
    <3>2. Opened(q)' = Opened(q) /\ \A s \in Sharers(q) \cup {q} : Opened(s)' = Opened(s)
      BY <1>12, <2>1, <2>4, <3>1
    <3>3. flight'[Counter(q)] = flight[Counter(q)]
      BY <1>10, <2>1, <3>1
    <3>4. \A u \in Threads : Sending(u, q, "write")' <=> Sending(u, q, "write")
      BY <1>4
    <3> QED BY <3>2, <3>3, <3>4 DEF CountOk
  <2> QED BY <2>2, <2>3, <2>4
<1>18. DoneOk'
  <2>1. \A q, m : Pending(q, m)' <=> Pending(q, m)
    BY <1>2, <1>3, <1>4 DEF Pending
  <2>2. \A net, m : Arrived(net, m)' <=> Arrived(net, m)
    BY <1>2, <1>3, <2>1 DEF Arrived
  <2> QED BY <1>2, <1>3, <2>2 DEF DoneOk
<1>19. TurnsOk'
  <2> SUFFICES ASSUME NEW q \in Units(prog), Sharers(q) # {}, Opened(q)' # {},
                      NEW u \in Threads, Receives(image.code, u, q) # {}
               PROVE  InTurn(image.code, u, q, pc'[u].at)
    BY <1>3 DEF TurnsOk
  <2>1. CASE q # p
    <3>1. Opened(q) # {}
      BY <1>12, <2>1 DEF Running, Static
    <3>2. InTurn(image.code, u, q, pc[u].at)
      BY <3>1 DEF TurnsOk
    <3> QED BY <1>4, <3>2
  <2>2. CASE q = p
    <3>1. PICK s \in Threads :
            /\ \A v \in Threads : v # s => Events(image.code, v, p) = {}
            /\ \A i \in Receives(image.code, s, p) : \E k \in SendsIn(image.code, s, p) : i < k
      <4>1. PICK h : h \in Sharers(p)
        BY <2>2
      <4> QED BY <1>6, <4>1, SharedThread
    <3>2. t = s /\ u = s
      BY <1>6, <2>2, <3>1 DEF Events
    <3>3. PICK k \in SendsIn(image.code, t, p) : a < k
      BY <1>6, <3>1, <3>2
    <3>4. /\ \A h \in SendsIn(image.code, t, p) : h \in Nat /\ h <= Len(image.code[t])
          /\ a \in Nat /\ Len(image.code[t]) \in Nat
      <4>1. a \in Nat
        BY <1>2, AtInstruction
      <4> QED BY <4>1 DEF SendsIn, In, Running, Static
    <3>5. pc'[t] = NextPc(t)
      BY <1>2 DEF Advance, TypesOk
    <3>6. pc'[t].at = a + 1
      <4>1. NextPc(t).at = a + 1 \/ a = Len(image.code[t])
        BY <1>2, NextInstruction
      <4>2. a < Len(image.code[t])
        BY <3>3, <3>4
      <4> QED BY <3>4, <3>5, <4>1, <4>2
    <3>7. InTurn(image.code, t, p, a + 1)
      BY <1>6, <3>4 DEF InTurn
    <3> QED BY <2>2, <3>2, <3>6, <3>7
  <2> QED BY <2>1, <2>2
<1> QED BY <1>4, <1>14, <1>15, <1>16, <1>17, <1>18, <1>19

(* The last signal of a send takes its thread on.                          *)
LEMMA SignalKeeps ==
  ASSUME Running, DInv, NEW t \in Threads, NEW n \in pending[t], Signal(t, n)
  PROVE  DInv'
<1> USE DEF DInv
<1>1. PICK p : p = Current(t).pipe
  OBVIOUS
<1> DEFINE a == pc[t].at
           end == <<n, p.net>>
<1>2. /\ UNCHANGED compiled /\ IsAt(t, "send", "signal")
      /\ done' = [done EXCEPT ![end] = @ + 1] /\ pending' = [pending EXCEPT ![t] = @ \ {n}]
      /\ IF pending[t] = {n} THEN Advance(t) ELSE pc' = pc
      /\ sem' = sem /\ flight' = flight /\ waited' = waited /\ open' = open /\ filled' = filled
  BY <1>1 DEF Signal, history
<1>3. /\ prog' = prog /\ image' = image /\ Threads' = Threads /\ Ends' = Ends /\ Nets' = Nets
      /\ Counters' = Counters /\ \A q : Counter(q)' = Counter(q) /\ Sharers(q)' = Sharers(q)
  BY <1>2, SameModule
<1>4. /\ p \in Units(prog) /\ p \in prog.pipes /\ Counter(p) \in Counters /\ a \in SendsIn(image.code, t, p)
      /\ \A u \in Threads : (pc[u].stage # "op" /\ Current(u).pipe = p) => u = t
  BY <1>1, <1>2, AtSend
<1>5. pc[t].stage = "signal" /\ a \in DOMAIN image.code[t] /\ Current(t) = image.code[t][a] /\ Current(t).kind = "send"
  BY <1>2, AtInstruction
<1>6. pending[t] \subseteq Destinations(p) /\ \A m \in pending[t] : filled[<<p, m>>] = 1
  BY <1>1, <1>4, <1>5 DEF SendsOk, Sending
<1>7. n \in Destinations(p) /\ <<p, n>> \in Ends /\ filled[<<p, n>>] = 1 /\ Awaited(p, n)
  BY <1>4, <1>6, EndStates
<1>8. n \in prog.grid /\ end \in prog.grid \X Nets
  <2>1. PICK u \in Threads : u[1] = n
    BY <1>7 DEF Awaited
  <2> QED BY <1>4, <2>1 DEF Threads, Nets
<1>9. \E r : /\ pc' = [pc EXCEPT ![t] = r] /\ r \in [round : Nat, at : Nat, stage : Stages]
             /\ r.at \in DOMAIN image.code[t]
             /\ \A q : AwaitsAt(image.code, t, q, r.at) <=> AwaitsAt(image.code, t, q, a)
             /\ \/ pending[t] = {n} /\ r = NextPc(t) /\ r.stage = "op"
                \/ pending[t] # {n} /\ r = pc[t]
  <2>1. CASE pending[t] = {n}
    <3>1. /\ NextPc(t) \in [round : Nat, at : Nat, stage : Stages]
          /\ NextPc(t).at \in DOMAIN image.code[t] /\ NextPc(t).stage = "op"
          /\ \A q : AwaitsAt(image.code, t, q, NextPc(t).at) <=> AwaitsAt(image.code, t, q, a + 1)
      BY <1>2, NextInstruction
    <3>2. \A q : AwaitsAt(image.code, t, q, a + 1) <=> AwaitsAt(image.code, t, q, a)
      BY <1>5, OtherAwaits DEF Running
    <3>3. pc' = [pc EXCEPT ![t] = NextPc(t)]
      BY <1>2, <2>1 DEF Advance
    <3> QED BY <2>1, <3>1, <3>2, <3>3
  <2>2. CASE pending[t] # {n}
    <3>1. pc \in [Threads -> [round : Nat, at : Nat, stage : Stages]]
      BY DEF TypesOk
    <3>2. pc' = [pc EXCEPT ![t] = pc[t]]
      BY <1>2, <2>2, <3>1
    <3> QED BY <1>5, <2>2, <3>1, <3>2
  <2> QED BY <2>1, <2>2
<1>10. PICK r : /\ pc' = [pc EXCEPT ![t] = r] /\ r \in [round : Nat, at : Nat, stage : Stages]
                /\ r.at \in DOMAIN image.code[t]
                /\ \A q : AwaitsAt(image.code, t, q, r.at) <=> AwaitsAt(image.code, t, q, a)
                /\ \/ pending[t] = {n} /\ r = NextPc(t) /\ r.stage = "op"
                   \/ pending[t] # {n} /\ r = pc[t]
  BY <1>9
<1>11. /\ pc'[t] = r /\ pc' \in [Threads -> [round : Nat, at : Nat, stage : Stages]]
       /\ \A u \in Threads : u # t => pc'[u] = pc[u] /\ Current(u)' = Current(u)
       /\ r = pc[t] => Current(t)' = Current(t)
  BY <1>3, <1>10 DEF TypesOk, Current
<1>12. pending'[t] = pending[t] \ {n} /\ \A u \in Threads : u # t => pending'[u] = pending[u]
  BY <1>2 DEF TypesOk
<1>13. \A q, m : Awaited(q, m)' <=> Awaited(q, m)
  BY <1>2, <1>10, StillAwaited DEF TypesOk
<1>14. /\ \A u \in Threads : u # t => \A q, stage : Sending(u, q, stage)' <=> Sending(u, q, stage)
       /\ \A q : \A stage \in {"reset", "write", "signal"} :
            /\ Sending(t, q, stage)' <=> q = p /\ stage = "signal" /\ pending[t] # {n}
            /\ Sending(t, q, stage) <=> q = p /\ stage = "signal"
  BY <1>1, <1>5, <1>10, <1>11 DEF Sending
<1>15. \A q : Opened(q)' = Opened(q)
  BY <1>2 DEF Opened
<1>16. \A q, m : Pending(q, m)' <=> Pending(q, m) /\ ~(q = p /\ m = n)
  <2> SUFFICES ASSUME NEW q, NEW m PROVE Pending(q, m)' <=> Pending(q, m) /\ ~(q = p /\ m = n)
    OBVIOUS
  <2>1. \A u \in Threads : Sending(u, p, "signal") => u = t
    BY <1>4 DEF Sending
  <2>2. Pending(q, m)' <=> \E u \in Threads : Sending(u, q, "signal")' /\ m \in pending'[u]
    BY <1>3 DEF Pending
  <2>3. CASE q = p
    <3>1. Pending(q, m) <=> m \in pending[t]
      BY <1>14, <2>1, <2>3 DEF Pending
    <3>2. Pending(q, m)' <=> pending[t] # {n} /\ m \in pending[t] \ {n}
      BY <1>12, <1>14, <2>1, <2>2, <2>3
    <3> QED BY <2>3, <3>1, <3>2
  <2>4. CASE q # p
    BY <1>12, <1>14, <2>2, <2>4 DEF Pending
  <2> QED BY <2>3, <2>4
<1>17. TypesOk'
  <2>1. done' \in [prog.grid \X Nets -> Nat]
    BY <1>2, <1>8 DEF TypesOk
  <2>2. pending' = [u \in Threads |-> pending'[u]]
    BY <1>2 DEF TypesOk
  <2> QED BY <1>2, <1>3, <1>11, <2>1, <2>2 DEF TypesOk
<1>18. PcOk'
  <2>1. pc'[t].stage # "op" => Current(t)'.kind = "send"
    BY <1>5, <1>10, <1>11
  <2> QED BY <1>3, <1>10, <1>11, <2>1 DEF PcOk
<1>19. EndsOk'
  BY <1>2, <1>3, <1>13 DEF EndsOk
<1>20. SendsOk'
  <2> SUFFICES ASSUME NEW u \in Threads, NEW q \in prog.pipes
               PROVE  /\ Sending(u, q, "reset")' =>
                           (\A m \in Destinations(q) : open[<<q, m>>] = 1) /\ flight[Counter(q)] = 0
                      /\ Sending(u, q, "write")' =>
                           /\ \A m \in Destinations(q) : open[<<q, m>>] = 1
                           /\ flight[Counter(q)] = 0 /\ sem[Counter(q)] = 0
                      /\ Sending(u, q, "signal")' =>
                           /\ pending'[u] # {} /\ pending'[u] \subseteq Destinations(q)
                           /\ \A m \in pending'[u] : filled[<<q, m>>] = 1
    BY <1>2, <1>3 DEF SendsOk
  <2>1. CASE u = t
    BY <1>6, <1>12, <1>14, <2>1
  <2>2. CASE u # t
    BY <1>12, <1>14, <2>2 DEF SendsOk
  <2> QED BY <2>1, <2>2
<1>21. CountOk'
  <2>1. \A u \in Threads : \A q : Sending(u, q, "write")' <=> Sending(u, q, "write")
    BY <1>14
  <2> QED BY <1>2, <1>3, <1>15, <2>1 DEF CountOk
<1>22. DoneOk'
  <2> SUFFICES ASSUME NEW u \in Threads, NEW net \in Nets, ReceivesFrom(image.code, u, net)
               PROVE  done'[<<u[1], net>>] = waited[<<u, net>>] + IF Arrived(net, u[1])' THEN 1 ELSE 0
    BY <1>2, <1>3 DEF DoneOk
  <2>1. done[<<u[1], net>>] = waited[<<u, net>>] + IF Arrived(net, u[1]) THEN 1 ELSE 0
    BY DEF DoneOk
  <2>2. done \in [prog.grid \X Nets -> Nat] /\ waited \in [Threads \X Nets -> Nat]
        /\ <<u[1], net>> \in prog.grid \X Nets /\ <<u, net>> \in Threads \X Nets
    BY DEF TypesOk, Threads
  <2>3. CASE net = p.net /\ u[1] = n
    <3>1. ~Arrived(net, u[1])
      <4> SUFFICES ASSUME NEW q \in prog.pipes, q.net = p.net, n \in Destinations(q), filled[<<q, n>>] = 1,
                          ~Pending(q, n)
                   PROVE  FALSE
        BY <2>3 DEF Arrived
      <4>1. Awaited(q, n)
        BY EndStates
      <4>2. q = p
        BY <1>7, <4>1, OneAwaited
      <4> QED BY <1>14, <4>2 DEF Pending
    <3>2. Arrived(net, u[1])'
      BY <1>2, <1>3, <1>4, <1>7, <1>16, <2>3 DEF Arrived
    <3>3. done'[<<u[1], net>>] = done[<<u[1], net>>] + 1
      BY <1>2, <2>2, <2>3
    <3> QED BY <2>1, <2>2, <3>1, <3>2, <3>3
  <2>4. CASE net # p.net \/ u[1] # n
    <3>1. done'[<<u[1], net>>] = done[<<u[1], net>>]
      BY <1>2, <2>2, <2>4
    <3>2. ASSUME NEW q \in prog.pipes, q.net = net
          PROVE  Pending(q, u[1])' <=> Pending(q, u[1])
      BY <1>16, <2>4, <3>2
    <3>3. Arrived(net, u[1])' <=> Arrived(net, u[1])
      BY <1>2, <1>3, <3>2 DEF Arrived
    <3> QED BY <2>1, <3>1, <3>3
  <2> QED BY <2>3, <2>4
<1>23. TurnsOk'
  <2> SUFFICES ASSUME NEW q \in Units(prog), Sharers(q) # {}, Opened(q) # {},
                      NEW u \in Threads, Receives(image.code, u, q) # {}
               PROVE  InTurn(image.code, u, q, pc'[u].at)
    BY <1>3, <1>15 DEF TurnsOk
  <2>1. InTurn(image.code, u, q, pc[u].at)
    BY DEF TurnsOk
  <2>2. CASE u # t \/ r = pc[t]
    BY <1>11, <2>1, <2>2
  <2>3. CASE u = t /\ r = NextPc(t) /\ q # p
    <3>1. a \notin SendsIn(image.code, t, q)
      BY <1>4, <2>3 DEF SendsIn
    <3>2. InTurn(image.code, t, q, NextPc(t).at)
      BY <1>2, <2>1, <2>3, <3>1, StillInTurn
    <3> QED BY <1>11, <2>3, <3>2
  <2>4. CASE q = p
    <3>1. PICK m \in Destinations(p) : open[<<p, m>>] = 1
      BY <2>4 DEF Opened
    <3>2. PICK v \in Threads : v[1] = m /\ Receives(image.code, v, p) # {}
      BY <1>4, <3>1, OpenIsPosted
    <3>3. PICK w \in Threads : w[1] = n /\ Receives(image.code, w, p) # {}
      BY <1>4, <1>7, OpenIsPosted
    <3>4. PICK h : h \in Sharers(p)
      BY <2>4
    <3>5. PICK s \in Threads : \A x \in Threads : x # s => Events(image.code, x, p) = {}
      BY <1>4, <3>4, SharedThread
    <3>6. m = n
      BY <3>2, <3>3, <3>5 DEF Events
    <3> QED BY <1>4, <1>7, <3>1, <3>6, EndStates
  <2> QED BY <1>10, <2>2, <2>3, <2>4
<1> QED BY <1>17, <1>18, <1>19, <1>20, <1>21, <1>22, <1>23

-----------------------------------------------------------------------------
(* From the launch on.                                                     *)
LEMMA LaunchStarts ==
  ASSUME IInv, IInv', PInv', Static', Convert, phase' = "running"
  PROVE  DInv'
<1> DEFINE plan == ResourcePlan(prog)
           code == [t \in Threads |-> Code(t)]
<1>1. prog' = prog /\ LaunchWith(plan, code)
  BY DEF Convert
<1> HIDE DEF plan, code
<1>2. Threads' = Threads /\ Ends' = Ends /\ Nets' = Nets
  BY <1>1 DEF Threads, Ends, Nets
<1>3. /\ image'.plan = plan /\ image'.code = code
      /\ pc' = [t \in Threads |-> [round |-> 1, at |-> 1, stage |-> "op"]]
      /\ pending' = [t \in Threads |-> {}]
      /\ open' = [e \in Ends |-> 0] /\ filled' = [e \in Ends |-> 0]
      /\ done' = [c \in prog.grid \X Nets |-> 0] /\ waited' = [c \in Threads \X Nets |-> 0]
  BY <1>1 DEF LaunchWith
<1>4. DOMAIN plan = Units(prog)
  BY <1>1, <1>3 DEF PInv, PlanTakesTurns
<1>5. Counters' = {<<p.src, plan[p].ready>> : p \in Units(prog)}
  BY <1>1, <1>3 DEF Counters, Counter
<1>6. sem' = [c \in Counters' |-> 0] /\ flight' = [c \in Counters' |-> 0]
  BY <1>1, <1>4, <1>5 DEF LaunchWith
<1>7. \A t \in Threads : pc'[t] = [round |-> 1, at |-> 1, stage |-> "op"]
  BY <1>3
<1>8. \A p \in prog.pipes : \A n \in Destinations(p) : open'[<<p, n>>] = 0 /\ filled'[<<p, n>>] = 0
  BY <1>3 DEF Ends
<1>9. \A t \in Threads : /\ Len(code[t]) \in Nat /\ DOMAIN code[t] = 1 .. Len(code[t])
                         /\ Len(code[t]) = 0 => code[t] = <<>>
  <2> SUFFICES ASSUME NEW t \in Threads
               PROVE  /\ Len(code[t]) \in Nat /\ DOMAIN code[t] = 1 .. Len(code[t])
                      /\ Len(code[t]) = 0 => code[t] = <<>>
    OBVIOUS
  <2>1. IsSeq(Code(t)) /\ code[t] = Code(t)
    BY CodeIsWhatRuns DEF IInv, code
  <2> QED BY <2>1 DEF IsSeq
<1>10. \A p, n : ~Awaited(p, n)'
  <2> SUFFICES ASSUME NEW p, NEW n, NEW t \in Threads, AwaitsAt(code, t, p, 1) PROVE FALSE
    BY <1>2, <1>3, <1>7 DEF Awaited
  <2>1. PICK i \in Receives(code, t, p) : i < 1
    BY DEF AwaitsAt
  <2>2. i \in 1 .. Len(code[t])
    BY <1>9 DEF Receives, In
  <2> QED BY <1>9, <2>1, <2>2
<1>11. Units(prog) \subseteq prog.pipes
  BY DEF Units
<1>12. \A p \in prog.pipes : Opened(p)' = {}
  BY <1>8 DEF Opened
<1>13. TypesOk'
  <2>1. pc' \in [Threads -> [round : Nat, at : Nat, stage : Stages]]
    BY <1>3 DEF Stages
  <2>2. sem' \in [Counters' -> Nat] /\ flight' \in [Counters' -> Nat]
    BY <1>6
  <2>3. pending' = [t \in Threads |-> pending'[t]]
    BY <1>3
  <2> QED BY <1>1, <1>2, <1>3, <2>1, <2>2, <2>3 DEF TypesOk
<1>14. PcOk'
  <2> SUFFICES ASSUME NEW t \in Threads
               PROVE  pc'[t].stage = "op" /\ (pc'[t].at \in DOMAIN code[t] \/ code[t] = <<>>)
    BY <1>2, <1>3 DEF PcOk
  <2> QED BY <1>7, <1>9
<1>15. EndsOk'
  <2>1. ASSUME NEW p \in prog.pipes, NEW n \in Destinations(p)
        PROVE  open'[<<p, n>>] + filled'[<<p, n>>] = IF Awaited(p, n)' THEN 1 ELSE 0
    BY <1>8, <1>10
  <2> QED BY <1>1, <2>1 DEF EndsOk
<1>16. \A t \in Threads : \A p : \A stage \in {"reset", "write", "signal"} : ~Sending(t, p, stage)'
  BY <1>7 DEF Sending
<1>17. SendsOk'
  BY <1>1, <1>2, <1>16 DEF SendsOk
<1>18. CountOk'
  <2>1. \A p \in Units(prog) : Counter(p)' \in Counters'
    BY <1>1 DEF Counters
  <2> QED BY <1>1, <1>6, <1>11, <1>12, <2>1 DEF CountOk
<1>19. DoneOk'
  <2>1. ASSUME NEW net, NEW n PROVE ~Arrived(net, n)'
    <3>1. \A p \in prog.pipes : n \in Destinations(p) => filled'[<<p, n>>] # 1
      BY <1>8
    <3> QED BY <1>1, <3>1 DEF Arrived
  <2> QED BY <1>2, <1>3, <2>1 DEF DoneOk, Threads
<1>20. TurnsOk'
  BY <1>1, <1>11, <1>12 DEF TurnsOk
<1> QED BY <1>13, <1>14, <1>15, <1>17, <1>18, <1>19, <1>20 DEF DInv

LEMMA RunKeeps ==
  ASSUME Running, DInv, Run
  PROVE  DInv'
<1>1. DOMAIN pc = Threads
  BY DEF DInv, TypesOk
<1>3. ASSUME NEW t \in Threads, ThreadStep(t)
      PROVE  DInv'
  <2>1. CASE Post(t)
    BY <2>1, PostKeeps
  <2>2. CASE SendReady(t)
    BY <2>2, ReadyKeeps
  <2>3. CASE SendReset(t)
    BY <2>3, ResetKeeps
  <2>4. CASE SendWrite(t)
    BY <2>4, WriteKeeps
  <2>5. CASE Wait(t)
    BY <2>5, WaitKeeps
  <2>6. CASE CBReserve(t) \/ CBPush(t) \/ CBWait(t) \/ CBPop(t)
    <3>1. \E kind \in {"cb_reserve", "cb_push", "cb_wait", "cb_pop"} : 
            IsAt(t, kind, "op") /\ Advance(t)
            /\ UNCHANGED <<compiled, pending, sem, flight, done, waited, open, filled>>
      BY <2>6 DEF CBReserve, CBPush, CBWait, CBPop, OnRing
    <3> QED BY <3>1, MoveKeeps
  <2> QED BY <1>3, <2>1, <2>2, <2>3, <2>4, <2>5, <2>6 DEF ThreadStep
<1>4. ASSUME NEW t \in Threads, NEW n \in pending[t], Signal(t, n)
      PROVE  DInv'
  BY <1>4, SignalKeeps
<1>5. ASSUME NEW c \in DOMAIN flight, DeliverReady(c)
      PROVE  DInv'
  BY <1>5, DeliverKeeps
<1> QED BY <1>1, <1>3, <1>4, <1>5 DEF Run

LEMMA StutterKeeps ==
  ASSUME DInv, UNCHANGED vars
  PROVE  DInv'
<1>1. /\ prog' = prog /\ image' = image /\ pc' = pc /\ pending' = pending /\ sem' = sem /\ flight' = flight
      /\ done' = done /\ waited' = waited /\ open' = open /\ filled' = filled
  BY DEF vars, machine, history
<1>2. UNCHANGED compiled
  BY DEF vars, compiled
<1>3. /\ Threads' = Threads /\ Ends' = Ends /\ Nets' = Nets /\ Counters' = Counters
      /\ \A p : Counter(p)' = Counter(p) /\ Sharers(p)' = Sharers(p)
  BY <1>2, SameModule
<1>4. \A u \in Threads : Current(u)' = Current(u)
  BY <1>1 DEF Current
<1>5. \A u \in Threads : \A q, stage : Sending(u, q, stage)' <=> Sending(u, q, stage)
  BY <1>1, <1>4 DEF Sending
<1>6. \A p, n : /\ Awaited(p, n)' <=> Awaited(p, n)
                /\ Pending(p, n)' <=> Pending(p, n)
  BY <1>1, <1>3, <1>5 DEF Awaited, Pending
<1>7. \A p : Opened(p)' = Opened(p)
  BY <1>1 DEF Opened
<1>8. \A net, n : Arrived(net, n)' <=> Arrived(net, n)
  BY <1>1, <1>6 DEF Arrived
<1>9. TypesOk' /\ PcOk'
  BY <1>1, <1>3, <1>4 DEF DInv, TypesOk, PcOk
<1>10. EndsOk'
  BY <1>1, <1>6 DEF DInv, EndsOk
<1>11. SendsOk'
  BY <1>1, <1>3, <1>5 DEF DInv, SendsOk
<1>12. CountOk'
  BY <1>1, <1>3, <1>5, <1>7 DEF DInv, CountOk
<1>13. DoneOk'
  BY <1>1, <1>3, <1>8 DEF DInv, DoneOk
<1>14. TurnsOk'
  BY <1>1, <1>3, <1>7 DEF DInv, TurnsOk
<1> QED BY <1>9, <1>10, <1>11, <1>12, <1>13, <1>14 DEF DInv

-----------------------------------------------------------------------------
(* The counters count, in every orderly module that no pass refuses.       *)
DeviceInv == (phase = "running" /\ image.orderly) => DInv
Reliable == phase = "running" => Static

LEMMA ReliableHolds ==
  ASSUME IInv, PInv, OnlyAtItsEnd
  PROVE  Reliable
BY RunsStatically DEF Reliable

THEOREM CountersCount ==
  ASSUME ModulesOk, PlansOk
  PROVE  Spec => [](Reliable /\ DeviceInv)
<1>1. Init => DeviceInv
  BY DEF Init, DeviceInv
<1>2. ASSUME DeviceInv, IInv, PInv, Reliable, IInv', PInv', Reliable', [Next]_vars
      PROVE  DeviceInv'
  <2> SUFFICES ASSUME phase' = "running", image'.orderly PROVE DInv'
    BY DEF DeviceInv
  <2>1. CASE InsertWaits \/ VerifyGuards \/ VerifySPSC
    BY <2>1 DEF InsertWaits, VerifyGuards, VerifySPSC
  <2>2. CASE Convert
    BY <1>2, <2>2, LaunchStarts DEF Reliable
  <2>3. CASE Run
    <3>1. phase = "running" /\ image.orderly
      BY <2>3, RunKeepsCompiled DEF compiled
    <3>2. Running
      BY <1>2, <3>1 DEF Running, PInv, Reliable
    <3> QED BY <1>2, <2>3, <3>1, <3>2, RunKeeps DEF DeviceInv
  <2>4. CASE UNCHANGED vars
    <3>1. phase = "running" /\ image.orderly
      BY <2>4 DEF vars
    <3> QED BY <1>2, <2>4, <3>1, StutterKeeps DEF DeviceInv
  <2> QED BY <1>2, <2>1, <2>2, <2>3, <2>4 DEF Next, Compile
<1>3. IInv /\ PInv /\ OnlyAtItsEnd => Reliable
  BY ReliableHolds
<1>4. Spec => []IInv
  BY Invariance
<1>5. Spec => []PInv
  BY Planning
<1>6. Spec => []OnlyAtItsEnd
  BY AtItsEnd
<1> QED BY <1>1, <1>2, <1>3, <1>4, <1>5, <1>6, PTL DEF Spec

(* One thread posts on a pipe that shares its counter, so that it has one  *)
(* receive open at most.                                                   *)
LEMMA SharedOpensOne ==
  ASSUME Running, DInv, NEW p \in Units(prog), NEW q \in Sharers(p)
  PROVE  Cardinality(Opened(q)) <= 1 /\ Cardinality(Opened(q)) \in Nat
<1>1. q \in Units(prog) /\ p \in Sharers(q) /\ q \in prog.pipes
  BY SharersMutual DEF Running, Static
<1>2. PICK s \in Threads : \A u \in Threads : u # s => Events(image.code, u, q) = {}
  BY <1>1, SharedThread
<1>3. Opened(q) \subseteq {s[1]}
  <2> SUFFICES ASSUME NEW n \in Destinations(q), open[<<q, n>>] = 1 PROVE n = s[1]
    BY DEF Opened
  <2>1. PICK u \in Threads : u[1] = n /\ Receives(image.code, u, q) # {}
    BY <1>1, OpenIsPosted DEF DInv
  <2> QED BY <1>2, <2>1 DEF Events
<1>4. IsFiniteSet({s[1]}) /\ Cardinality({s[1]}) = 1
  BY FS_Singleton
<1>5. IsFiniteSet(Opened(q)) /\ Cardinality(Opened(q)) <= 1
  BY <1>3, <1>4, FS_Subset
<1> QED BY <1>5, FS_CardinalityType

(* The ready counter of a send never passes the number that its spin tests *)
(* for (lowerPipeTransferSend), in an orderly module.                      *)
THEOREM ReadyBounded ==
  ASSUME ModulesOk, PlansOk
  PROVE  Spec => []ReadyNeverPassesExpected
<1>1. ASSUME IInv, PInv, Reliable, DeviceInv
      PROVE  ReadyNeverPassesExpected
  <2> SUFFICES ASSUME phase = "running", image.orderly, NEW p \in DOMAIN image.plan
               PROVE  sem[Counter(p)] + flight[Counter(p)] <= image.plan[p].expected
    BY DEF ReadyNeverPassesExpected
  <2>1. Running /\ DInv
    BY <1>1 DEF Running, PInv, Reliable, DeviceInv
  <2>2. p \in Units(prog) /\ p \in prog.pipes
    BY <1>1, <2>1 DEF PInv, PlanTakesTurns, Running, Static
  <2>3. IsFiniteSet(Destinations(p)) /\ Destinations(p) # {} /\ image.plan[p].expected = Cardinality(Destinations(p))
    BY <2>1, <2>2 DEF Running, Static
  <2>4. image.plan[p].expected \in Nat /\ image.plan[p].expected >= 1
    <3>1. Cardinality(Destinations(p)) \in Nat /\ Cardinality(Destinations(p)) # 0
      BY <2>3, FS_CardinalityType, FS_EmptySet
    <3> QED BY <2>3, <3>1
  <2>5. ASSUME NEW q \in Units(prog), Counter(q) = Counter(p), Opened(q) # {}
        PROVE  \/ sem[Counter(p)] + flight[Counter(p)] = 0
               \/ sem[Counter(p)] + flight[Counter(p)] = Cardinality(Opened(q))
    <3>1. q \in prog.pipes
      BY <2>1 DEF Running, Static
    <3>2. CASE \E t \in Threads : Sending(t, q, "write")
      BY <2>1, <2>5, <3>1, <3>2 DEF DInv, SendsOk
    <3>3. CASE \A t \in Threads : ~Sending(t, q, "write")
      BY <2>1, <2>5, <3>3 DEF DInv, CountOk
    <3> QED BY <3>2, <3>3
  <2>6. CASE Opened(p) # {}
    <3>1. Cardinality(Opened(p)) <= image.plan[p].expected
      BY <2>3, OpenedCount
    <3> QED BY <2>2, <2>4, <2>5, <2>6, <3>1
  <2>7. CASE \E q \in Sharers(p) : Opened(q) # {}
    <3>1. PICK q \in Sharers(p) : Opened(q) # {}
      BY <2>7
    <3>2. q \in Units(prog) /\ Counter(q) = Counter(p)
      BY <2>2, SharersMutual
    <3>3. Cardinality(Opened(q)) <= 1 /\ Cardinality(Opened(q)) \in Nat
      BY <2>1, <2>2, SharedOpensOne
    <3>4. \/ sem[Counter(p)] + flight[Counter(p)] = 0
          \/ sem[Counter(p)] + flight[Counter(p)] = Cardinality(Opened(q))
      BY <2>5, <3>1, <3>2
    <3> QED BY <2>4, <3>3, <3>4
  <2>8. CASE \A q \in Sharers(p) \cup {p} : Opened(q) = {}
    <3>1. sem[Counter(p)] + flight[Counter(p)] = 0
      BY <2>1, <2>2, <2>8 DEF DInv, CountOk
    <3> QED BY <2>4, <3>1
  <2> QED BY <2>6, <2>7, <2>8
<1>2. Spec => []IInv
  BY Invariance
<1>3. Spec => []PInv
  BY Planning
<1>4. Spec => [](Reliable /\ DeviceInv)
  BY CountersCount
<1> QED BY <1>1, <1>2, <1>3, <1>4, PTL

-----------------------------------------------------------------------------
(* The device makes the transfers that a pipe promises.                    *)

(* The receives that the abstract pipes see, while an orderly module runs. *)
LEMMA WhileRunning ==
  ASSUME PInv, phase = "running", image.orderly, NEW f, DOMAIN f = Ends
  PROVE  /\ Ends \subseteq AllEnds
         /\ Transfers(f) = [e \in AllEnds |-> IF e \in Ends THEN f[e] ELSE 0]
<1>1. Ends \subseteq AllEnds
  BY DEF Ends, AllEnds, PInv
<1> QED BY <1>1 DEF Transfers

(* One step of an orderly module that runs.                                *)
LEMMA StepTransfers ==
  ASSUME Running, DInv, Run
  PROVE  \/ \E p, n : <<p, n>> \in Ends
              /\ open' = [open EXCEPT ![<<p, n>>] = @ + 1] /\ filled' = filled
         \/ \E p \in prog.pipes :
              /\ Destinations(p) # {} /\ \A n \in Destinations(p) : open[<<p, n>>] = 1
              /\ open' = [e \in DOMAIN open |-> IF e[1] = p THEN open[e] - 1 ELSE open[e]]
              /\ filled' = [e \in DOMAIN filled |-> IF e[1] = p THEN filled[e] + 1 ELSE filled[e]]
         \/ \E p, n : <<p, n>> \in Ends /\ filled[<<p, n>>] = 1
              /\ filled' = [filled EXCEPT ![<<p, n>>] = @ - 1] /\ open' = open
         \/ open' = open /\ filled' = filled
<1>1. DOMAIN pc = Threads
  BY DEF DInv, TypesOk
<1>2. ASSUME NEW t \in Threads, Post(t)
      PROVE  \E p, n : <<p, n>> \in Ends
               /\ open' = [open EXCEPT ![<<p, n>>] = @ + 1] /\ filled' = filled
  <2>1. PICK p, n : p = Current(t).pipe /\ n = t[1]
    OBVIOUS
  <2>2. IsAt(t, "post", "op") /\ open' = [open EXCEPT ![<<p, n>>] = @ + 1] /\ filled' = filled
    BY <1>2, <2>1 DEF Post
  <2>3. pc[t].at \in In(image.code, t, {"post"}) /\ p = image.code[t][pc[t].at].pipe
    BY <2>1, <2>2, AtInstruction DEF DInv
  <2>4. pc[t].at \in In(image.code, t, {"post", "send"}) /\ pc[t].at \in In(image.code, t, {"post", "wait"})
    BY <2>3 DEF In
  <2>5. p \in prog.pipes /\ n \in Destinations(p)
    BY <2>1, <2>3, <2>4 DEF Running, Static
  <2>6. <<p, n>> \in Ends
    BY <2>5 DEF Ends
  <2> QED BY <2>2, <2>6
<1>3. ASSUME NEW t \in Threads, SendWrite(t)
      PROVE  \E p \in prog.pipes :
               /\ Destinations(p) # {} /\ \A n \in Destinations(p) : open[<<p, n>>] = 1
               /\ open' = [e \in DOMAIN open |-> IF e[1] = p THEN open[e] - 1 ELSE open[e]]
               /\ filled' = [e \in DOMAIN filled |-> IF e[1] = p THEN filled[e] + 1 ELSE filled[e]]
  <2>1. PICK p : p = Current(t).pipe
    OBVIOUS
  <2>2. /\ IsAt(t, "send", "write")
        /\ open' = [e \in DOMAIN open |-> IF e[1] = p THEN open[e] - 1 ELSE open[e]]
        /\ filled' = [e \in DOMAIN filled |-> IF e[1] = p THEN filled[e] + 1 ELSE filled[e]]
    BY <1>3, <2>1 DEF SendWrite
  <2>3. p \in prog.pipes /\ Destinations(p) # {}
    BY <2>1, <2>2, AtSend DEF DInv
  <2>4. \A n \in Destinations(p) : open[<<p, n>>] = 1
    BY <2>1, <2>2, <2>3 DEF DInv, SendsOk, Sending, IsAt
  <2> QED BY <2>2, <2>3, <2>4
<1>4. ASSUME NEW t \in Threads, Wait(t)
      PROVE  \E p, n : <<p, n>> \in Ends /\ filled[<<p, n>>] = 1
               /\ filled' = [filled EXCEPT ![<<p, n>>] = @ - 1] /\ open' = open
  <2>1. PICK p, n : p = Current(t).pipe /\ n = t[1]
    OBVIOUS
  <2>2. <<p, n>> \in Ends /\ filled[<<p, n>>] = 1
    BY <1>4, <2>1, WaitFinds
  <2>3. filled' = [filled EXCEPT ![<<p, n>>] = @ - 1] /\ open' = open
    BY <1>4, <2>1 DEF Wait
  <2> QED BY <2>2, <2>3
<1>5. ASSUME NEW t \in Threads, SendReady(t) \/ SendReset(t)
      PROVE  open' = open /\ filled' = filled
  BY <1>5 DEF SendReady, SendReset, history
<1>6. ASSUME NEW t \in Threads, CBReserve(t) \/ CBPush(t) \/ CBWait(t) \/ CBPop(t)
      PROVE  open' = open /\ filled' = filled
  BY <1>6 DEF CBReserve, CBPush, CBWait, CBPop, OnRing
<1>7. ASSUME NEW t \in Threads, NEW n \in pending[t], Signal(t, n)
      PROVE  open' = open /\ filled' = filled
  BY <1>7 DEF Signal, history
<1>8. ASSUME NEW c \in DOMAIN flight, DeliverReady(c)
      PROVE  open' = open /\ filled' = filled
  BY <1>8 DEF DeliverReady, history
<1>9. CASE \E t \in Threads : ThreadStep(t)
  <2>1. PICK t \in Threads : ThreadStep(t)
    BY <1>9
  <2> QED BY <1>2, <1>3, <1>4, <1>5, <1>6, <2>1 DEF ThreadStep
<1> QED BY <1>1, <1>7, <1>8, <1>9 DEF Run

(* The device implements the promise of a pipe: an orderly module fills a  *)
(* receive once, when all of its destinations have posted, and a wait      *)
(* returns only after the transfer of its own receive (lowerPipeTransfer-  *)
(* Post, Send, Wait; docs/development/PipeNets.md).                        *)
THEOREM DeviceIsTransfer ==
  ASSUME ModulesOk, PlansOk
  PROVE  Spec => ImplementsTransfer
<1> DEFINE o == Transfers(open)
           f == Transfers(filled)
<1>1. Init => Abstract!Init
  BY DEF Init, Abstract!Init, Transfers
<1>2. ASSUME IInv, PInv, Reliable, DeviceInv, IInv', PInv', Reliable', DeviceInv', [Next]_vars
      PROVE  [Abstract!Next]_<<o, f>>
  <2>1. CASE phase # "running" /\ phase' # "running"
    <3>1. o = [e \in AllEnds |-> 0] /\ f = [e \in AllEnds |-> 0]
      BY <2>1 DEF Transfers
    <3>2. o' = [e \in AllEnds |-> 0] /\ f' = [e \in AllEnds |-> 0]
      BY <2>1 DEF Transfers
    <3> QED BY <3>1, <3>2
  <2>2. CASE Convert /\ phase' = "running"
    <3>1. o = [e \in AllEnds |-> 0] /\ f = [e \in AllEnds |-> 0]
      BY <2>2 DEF Transfers, Convert
    <3>2. open' = [e \in Ends |-> 0] /\ filled' = [e \in Ends |-> 0]
      BY <2>2 DEF Convert, LaunchWith
    <3>3. o' = [e \in AllEnds |-> 0] /\ f' = [e \in AllEnds |-> 0]
      BY <3>2 DEF Transfers
    <3> QED BY <3>1, <3>3
  <2>3. CASE UNCHANGED vars
    BY <2>3 DEF vars, history, Transfers
  <2>4. CASE Run
    <3>1. phase' = phase /\ image' = image /\ prog' = prog /\ Ends' = Ends
      BY <2>4, RunKeepsCompiled DEF compiled, Ends
    <3>2. CASE phase = "running" /\ ~image.orderly
      <4>1. o = [e \in AllEnds |-> 0] /\ f = [e \in AllEnds |-> 0]
        BY <3>2 DEF Transfers
      <4>2. o' = [e \in AllEnds |-> 0] /\ f' = [e \in AllEnds |-> 0]
        BY <3>1, <3>2 DEF Transfers
      <4> QED BY <4>1, <4>2
    <3>3. CASE phase = "running" /\ image.orderly
      <4>1. Running /\ DInv /\ DInv'
        BY <1>2, <3>1, <3>3 DEF Running, PInv, Reliable, DeviceInv
      <4>2. DOMAIN open = Ends /\ DOMAIN filled = Ends /\ DOMAIN open' = Ends /\ DOMAIN filled' = Ends
        BY <3>1, <4>1 DEF DInv, TypesOk
      <4>3. /\ Ends \subseteq AllEnds
            /\ o = [e \in AllEnds |-> IF e \in Ends THEN open[e] ELSE 0]
            /\ f = [e \in AllEnds |-> IF e \in Ends THEN filled[e] ELSE 0]
        BY <1>2, <3>3, <4>2, WhileRunning
      <4>4. /\ o' = [e \in AllEnds |-> IF e \in Ends THEN open'[e] ELSE 0]
            /\ f' = [e \in AllEnds |-> IF e \in Ends THEN filled'[e] ELSE 0]
        BY <3>1, <3>3, <4>2 DEF Transfers
      <4> HIDE DEF o, f
      <4>5. CASE open' = open /\ filled' = filled
        BY <4>3, <4>4, <4>5
      <4>6. ASSUME NEW p, NEW n, <<p, n>> \in Ends, open' = [open EXCEPT ![<<p, n>>] = @ + 1], filled' = filled
            PROVE  Abstract!Next
        <5>1. <<p, n>> \in AllEnds /\ f' = f
          BY <4>3, <4>4, <4>6
        <5>2. o' = [o EXCEPT ![<<p, n>>] = @ + 1]
          BY <4>2, <4>3, <4>4, <4>6
        <5>3. Abstract!Post(<<p, n>>)
          BY <5>1, <5>2 DEF Abstract!Post, o, f
        <5> QED BY <5>1, <5>3 DEF Abstract!Next
      <4>7. ASSUME NEW p, NEW n, <<p, n>> \in Ends, filled[<<p, n>>] = 1,
                   filled' = [filled EXCEPT ![<<p, n>>] = @ - 1], open' = open
            PROVE  Abstract!Next
        <5>1. <<p, n>> \in AllEnds /\ o' = o /\ f[<<p, n>>] > 0
          BY <4>3, <4>4, <4>7
        <5>2. f' = [f EXCEPT ![<<p, n>>] = @ - 1]
          BY <4>2, <4>3, <4>4, <4>7
        <5>3. Abstract!Take(<<p, n>>)
          BY <5>1, <5>2 DEF Abstract!Take, o, f
        <5> QED BY <5>1, <5>3 DEF Abstract!Next
      <4>8. ASSUME NEW p \in prog.pipes, Destinations(p) # {}, \A n \in Destinations(p) : open[<<p, n>>] = 1,
                   open' = [e \in DOMAIN open |-> IF e[1] = p THEN open[e] - 1 ELSE open[e]],
                   filled' = [e \in DOMAIN filled |-> IF e[1] = p THEN filled[e] + 1 ELSE filled[e]]
            PROVE  Abstract!Next
        <5> DEFINE mine == {e \in AllEnds : e[1] = p}
        <5>1. \A e \in mine : e \in Ends /\ open[e] = 1
          <6> SUFFICES ASSUME NEW e \in mine PROVE e \in Ends /\ open[e] = 1
            OBVIOUS
          <6>1. PICK q \in AllPipes : \E n \in Destinations(q) : e = <<q, n>>
            BY DEF AllEnds
          <6>2. PICK n \in Destinations(q) : e = <<q, n>>
            BY <6>1
          <6>3. q = p
            BY <6>2
          <6> QED BY <4>8, <6>2, <6>3 DEF Ends
        <5>2. \A e \in AllEnds : e[1] = p <=> e \in mine
          OBVIOUS
        <5> HIDE DEF mine
        <5>3. \A e \in mine : o[e] > 0
          BY <4>3, <5>1
        <5>4. o' = [e \in AllEnds |-> IF e \in mine THEN o[e] - 1 ELSE o[e]]
          <6>1. \A e \in Ends : e \in AllEnds /\ open'[e] = IF e \in mine THEN open[e] - 1 ELSE open[e]
            BY <4>2, <4>3, <4>8, <5>2
          <6> QED BY <4>3, <4>4, <5>1, <6>1
        <5>5. f' = [e \in AllEnds |-> IF e \in mine THEN f[e] + 1 ELSE f[e]]
          <6>1. \A e \in Ends : e \in AllEnds /\ filled'[e] = IF e \in mine THEN filled[e] + 1 ELSE filled[e]
            BY <4>2, <4>3, <4>8, <5>2
          <6> QED BY <4>3, <4>4, <5>1, <6>1
        <5>6. Abstract!EndsOf(p) = mine
          BY DEF Abstract!EndsOf, mine
        <5>7. Abstract!Transfer(p)
          BY <5>3, <5>4, <5>5, <5>6 DEF Abstract!Transfer, o, f
        <5>8. p \in {e[1] : e \in AllEnds}
          <6>1. PICK n : n \in Destinations(p)
            BY <4>8
          <6>2. <<p, n>> \in AllEnds /\ <<p, n>>[1] = p
            BY <4>3, <6>1 DEF Ends
          <6> QED BY <6>2
        <5> QED BY <5>7, <5>8 DEF Abstract!Next
      <4> QED BY <2>4, <4>1, <4>5, <4>6, <4>7, <4>8, StepTransfers
    <3>4. phase = "running" \/ (phase # "running" /\ phase' # "running")
      BY <3>1
    <3> QED BY <2>1, <3>2, <3>3, <3>4
  <2>5. CASE InsertWaits \/ VerifyGuards \/ VerifySPSC
    <3>1. phase # "running" /\ phase' # "running"
      BY <2>5 DEF InsertWaits, VerifyGuards, VerifySPSC
    <3> QED BY <2>1, <3>1
  <2>6. CASE Convert
    <3>1. phase # "running"
      BY <2>6 DEF Convert
    <3> QED BY <2>1, <2>2, <2>6, <3>1
  <2> QED BY <1>2, <2>3, <2>4, <2>5, <2>6 DEF Next, Compile
<1>3. Spec => []IInv
  BY Invariance
<1>4. Spec => []PInv
  BY Planning
<1>5. Spec => [](Reliable /\ DeviceInv)
  BY CountersCount
<1> QED BY <1>1, <1>2, <1>3, <1>4, <1>5, PTL DEF Spec, ImplementsTransfer, Abstract!Spec

-----------------------------------------------------------------------------
(* How many members of a set of instructions a thread has run.             *)
Ran(X, r, a) == (r - 1) * Cardinality(X) + Before(X, a)

LEMMA BeforeNext ==
  ASSUME NEW len \in Nat, NEW X, \A x \in X : x \in Int /\ 1 <= x /\ x <= len, NEW a \in 1 .. len
  PROVE  /\ Cardinality(X) \in Nat /\ Before(X, a) \in Nat
         /\ Before(X, a + 1) = Before(X, a) + (IF a \in X THEN 1 ELSE 0)
         /\ Before(X, 1) = 0 /\ (a = len => Before(X, a + 1) = Cardinality(X))
         /\ (a \in X => Before(X, a) < Cardinality(X))
<1> DEFINE T(i) == {j \in X : j < i}
<1>b. a \in Nat /\ 1 <= a /\ a <= len
  OBVIOUS
<1>1. IsFiniteSet(X)
  <2>1. IsFiniteSet(1 .. len) /\ X \subseteq 1 .. len
    BY FS_Interval
  <2> QED BY <2>1, FS_Subset
<1>2. \A i : IsFiniteSet(T(i)) /\ Cardinality(T(i)) \in Nat /\ Cardinality(T(i)) <= Cardinality(X)
  BY <1>1, FS_Subset, FS_CardinalityType
<1>3. Cardinality(X) \in Nat
  BY <1>1, FS_CardinalityType
<1>6. Cardinality(T(1)) = 0
  <2>1. T(1) = {}
    OBVIOUS
  <2> HIDE DEF T
  <2> QED BY <2>1, FS_EmptySet
<1>7. ASSUME a = len PROVE T(a + 1) = X
  BY <1>7
<1>8. \A i : Before(X, i) = Cardinality(T(i))
  BY DEF Before
<1>9. Cardinality(T(a + 1)) = Cardinality(T(a)) + (IF a \in X THEN 1 ELSE 0)
  <2>1. CASE a \in X
    <3>1. T(a + 1) = T(a) \cup {a}
      <4>1. \A j \in X : j < a + 1 <=> (j < a \/ j = a)
        BY <1>b
      <4>2. \A j : j \in T(a + 1) <=> (j \in T(a) \/ j = a)
        BY <2>1, <4>1
      <4> HIDE DEF T
      <4> QED BY <4>2
    <3>2. a \notin T(a)
      BY <1>b
    <3> HIDE DEF T
    <3>3. Cardinality(T(a) \cup {a}) = Cardinality(T(a)) + 1
      BY <1>2, <3>2, FS_AddElement
    <3> QED BY <1>2, <2>1, <3>1, <3>3
  <2>2. CASE a \notin X
    <3>1. T(a + 1) = T(a)
      BY <1>b, <2>2
    <3> HIDE DEF T
    <3>2. Cardinality(T(a)) \in Nat
      BY <1>2
    <3> QED BY <2>2, <3>1, <3>2
  <2> QED BY <2>1, <2>2
<1> HIDE DEF T
<1>10. a \in X => Cardinality(T(a)) < Cardinality(X)
  BY <1>2, <1>3, <1>9
<1> QED BY <1>2, <1>3, <1>6, <1>7, <1>8, <1>9, <1>10

(* One more with each of them, through the end of the round as well.       *)
LEMMA RanNext ==
  ASSUME NEW len \in Nat, NEW X, \A x \in X : x \in Int /\ 1 <= x /\ x <= len, NEW r \in Nat, NEW a \in 1 .. len
  PROVE  /\ Ran(X, r, a) \in Int
         /\ Ran(X, r, a + 1) = Ran(X, r, a) + (IF a \in X THEN 1 ELSE 0)
         /\ (a = len => Ran(X, r + 1, 1) = Ran(X, r, a) + (IF a \in X THEN 1 ELSE 0))
<1>1. PICK one \in {0, 1} : one = IF a \in X THEN 1 ELSE 0
  OBVIOUS
<1>2. PICK C, b : C = Cardinality(X) /\ b = Before(X, a)
  OBVIOUS
<1>3. /\ C \in Nat /\ b \in Nat /\ one \in Nat /\ Before(X, a + 1) = b + one
      /\ Before(X, 1) = 0 /\ (a = len => b + one = C)
  BY <1>1, <1>2, BeforeNext
<1>4. PICK m \in Int : m = (r - 1) * C
  BY <1>3
<1>5. (r + 1 - 1) * C = m + C
  BY <1>3, <1>4
<1>6. Ran(X, r, a) = m + b /\ Ran(X, r, a + 1) = m + (b + one) /\ Ran(X, r + 1, 1) = m + C + 0
  BY <1>2, <1>3, <1>4, <1>5 DEF Ran
<1>7. Ran(X, r, a) \in Int
  BY <1>3, <1>4, <1>6
<1>8. Ran(X, r, a + 1) = Ran(X, r, a) + one
  BY <1>3, <1>4, <1>6
<1>9. a = len => Ran(X, r + 1, 1) = Ran(X, r, a) + one
  BY <1>3, <1>4, <1>6
<1> QED BY <1>1, <1>7, <1>8, <1>9

(* Rounds and what was run before in a round are determined by the total.  *)
LEMMA SameRound ==
  ASSUME NEW R \in Nat, NEW r \in Int, NEW s \in Int, NEW x \in Nat, NEW y \in Nat, x < R, y < R,
         r * R + x = s * R + y
  PROVE  r = s /\ x = y
<1>1. ASSUME NEW g \in Int, NEW h \in Int, NEW u \in Nat, NEW v \in Nat, u < R, v < R,
             g * R + u = h * R + v, g < h
      PROVE  FALSE
  <2>1. PICK d \in Nat : h = g + 1 + d
    <3>1. h - g - 1 \in Nat /\ h = g + 1 + (h - g - 1)
      BY <1>1
    <3> QED BY <3>1
  <2>2. h * R = g * R + R + d * R
    BY <2>1
  <2>3. d * R \in Nat /\ g * R \in Int
    BY <1>1
  <2> QED BY <1>1, <2>2, <2>3
<1>2. ~(r < s)
  BY <1>1
<1>3. ~(s < r)
  BY <1>1
<1>4. r = s
  BY <1>2, <1>3
<1>5. r * R \in Int
  OBVIOUS
<1> QED BY <1>4, <1>5

(* Where a buffer is neither empty nor full, its ends are at two blocks.   *)
LEMMA EndsApart ==
  ASSUME NEW B \in Nat \ {0}, NEW x \in Nat, NEW y \in Nat, y < x, x - y < B
  PROVE  x % B # y % B
<1>1. PICK q, r \in Int : x = B * q + r /\ 0 <= r /\ r < B /\ x % B = r
  <2>1. x = B * (x \div B) + (x % B) /\ x % B \in 0 .. (B - 1) /\ x \div B \in Int
    OBVIOUS
  <2> QED BY <2>1
<1>2. PICK p, s \in Int : y = B * p + s /\ 0 <= s /\ s < B /\ y % B = s
  <2>1. y = B * (y \div B) + (y % B) /\ y % B \in 0 .. (B - 1) /\ y \div B \in Int
    OBVIOUS
  <2> QED BY <2>1
<1> SUFFICES ASSUME r = s PROVE FALSE
  BY <1>1, <1>2
<1>3. B * q - B * p > 0 /\ B * q - B * p < B
  <2>1. B * q \in Int /\ B * p \in Int
    BY <1>1, <1>2
  <2> QED BY <1>1, <1>2, <2>1
<1>4. CASE q <= p
  <2>1. PICK d \in Nat : p = q + d
    <3>1. p - q \in Nat /\ p = q + (p - q)
      BY <1>1, <1>2, <1>4
    <3> QED BY <3>1
  <2>2. B * p = B * q + B * d /\ B * d \in Nat /\ B * q \in Int
    BY <1>1, <2>1
  <2> QED BY <1>3, <2>2
<1>5. CASE q > p
  <2>1. PICK d \in Nat : q = p + 1 + d
    <3>1. q - p - 1 \in Nat /\ q = p + 1 + (q - p - 1)
      BY <1>1, <1>2, <1>5
    <3> QED BY <3>1
  <2>2. B * q = B * p + B + B * d /\ B * d \in Nat /\ B * p \in Int
    BY <1>2, <2>1
  <2> QED BY <1>3, <2>2
<1> QED BY <1>1, <1>2, <1>4, <1>5

-----------------------------------------------------------------------------
(* The code that runs brackets the use of its blocks, and its plan was     *)
(* accepted.                                                               *)
BInv ==
  phase = "running" =>
    PlanOk(prog) /\ Bracketed(image.code) /\ image.uniform = Uniform(image.code)

LEMMA Bracketing ==
  ASSUME ModulesOk, PlansOk, BlocksOk
  PROVE  Spec => []BInv
<1>1. Init => BInv
  BY DEF Init, BInv
<1>2. ASSUME IInv, PInv, BInv, [Next]_vars PROVE BInv'
  <2>1. CASE InsertWaits \/ VerifyGuards \/ VerifySPSC
    BY <2>1 DEF InsertWaits, VerifyGuards, VerifySPSC, BInv
  <2>2. CASE Convert
    <3>1. prog' = prog /\ phase = "verified"
      BY <2>2 DEF Convert
    <3> SUFFICES ASSUME phase' = "running" PROVE BInv'
      BY DEF BInv
    <3> DEFINE code == [t \in Threads |-> Code(t)]
    <3>2. PlanOk(prog) /\ LaunchWith(ResourcePlan(prog), code)
      BY <2>2 DEF Convert
    <3>3. code = [t \in prog.grid \X DOMAIN prog.funcs |-> CodeAt(prog, t)]
      BY DEF Threads, Code
    <3> HIDE DEF code
    <3>4. image'.code = code /\ image'.uniform = Uniform(code)
      BY <3>2 DEF LaunchWith
    <3>5. PICK p \in Programs : prog = InsertCopyWait(p)
      BY <1>2, <3>1 DEF PInv
    <3>6. VerifyPipeNetGuards(prog) /\ VerifyDFBSPSC(prog)
      BY <1>2, <3>1 DEF IInv
    <3>7. Bracketed(code)
      <4>1. LET m == InsertCopyWait(p) IN
              Bracketed([t \in m.grid \X DOMAIN m.funcs |-> CodeAt(m, t)])
        BY <3>2, <3>5, <3>6 DEF BlocksOk
      <4> QED BY <3>3, <3>5, <4>1
    <3>8. Uniform(image.code)' <=> Uniform(code)
      BY <3>1, <3>4 DEF Uniform, Threads
    <3>9. Uniform(code) = Uniform(image.code)'
      BY <3>1, <3>4 DEF Uniform, Threads
    <3>10. Bracketed(image.code)'
      BY <3>4, <3>7 DEF Bracketed, HasBlock, In
    <3> QED BY <3>1, <3>2, <3>4, <3>9, <3>10 DEF BInv
  <2>3. CASE UNCHANGED compiled
    <3>1. phase' = phase /\ prog' = prog /\ image' = image
      BY <2>3 DEF compiled
    <3>2. Uniform(image.code)' = Uniform(image.code)
      BY <3>1 DEF Uniform, Threads
    <3> QED BY <1>2, <3>1, <3>2 DEF BInv
  <2>4. CASE Run
    BY <2>3, <2>4, RunKeepsCompiled
  <2>5. CASE UNCHANGED vars
    BY <2>3, <2>5 DEF vars, compiled
  <2> QED BY <1>2, <2>1, <2>2, <2>4, <2>5 DEF Next, Compile
<1>3. Spec => []IInv
  BY Invariance
<1>4. Spec => []PInv
  BY Planning
<1> QED BY <1>1, <1>2, <1>3, <1>4, PTL DEF Spec

(* What can be said of the code while it runs: who fills and who empties a *)
(* buffer, and where the receives of a pipe go.                            *)
Fills == {"cb_reserve", "post", "cb_push"}
Empties == {"cb_wait", "cb_pop"}
BufAt(t, i) == image.code[t][i].buf
PipeAt(t, i) == image.code[t][i].pipe

OneUser(kinds) ==
  \A s, t \in Threads : \A i \in In(image.code, s, kinds), j \in In(image.code, t, kinds) :
    (s[1] = t[1] /\ BufAt(s, i) = BufAt(t, j)) => s = t

Layout ==
  /\ Bracketed(image.code) /\ Uniform(image.code)
  /\ \A t \in Threads : \A i \in In(image.code, t, Fills \cup Empties) :
       t[1] \in prog.grid /\ BufAt(t, i) \in Bufs /\ image.code[t][i].tile \in Tiles
  /\ OneUser(Fills) /\ OneUser(Empties)
  /\ \A s, t \in Threads : \A i \in In(image.code, s, {"post"}), j \in In(image.code, t, {"post"}) :
       PipeAt(s, i) = PipeAt(t, j) =>
         /\ BufAt(s, i) = BufOf(prog, PipeAt(s, i)) /\ BufAt(t, j) = BufAt(s, i)
         /\ s[1] # t[1] => IsCollective(PipeAt(s, i)) /\ image.code[s][i].tile = image.code[t][j].tile
  /\ \A p, q \in Units(prog) : (p # q /\ Slot(p) = Slot(q)) => q \in Sharers(p)

LEMMA LaysOut ==
  ASSUME IInv, PInv, BInv, OneThreadPerEnd, Static, phase = "running", image.uniform
  PROVE  Layout
<1>1. Bracketed(image.code) /\ Uniform(image.code) /\ PlanOk(prog)
  BY DEF BInv
<1>2. ASSUME NEW t \in Threads, NEW i \in In(image.code, t, Fills \cup Empties)
      PROVE  /\ t[1] \in prog.grid /\ BufAt(t, i) \in Bufs /\ image.code[t][i].tile \in Tiles
             /\ image.code[t][i].kind = "post" => \E pos \in Posts(prog, PipeAt(t, i)) : At(prog, pos) = image.code[t][i]
  <2>1. i \in DOMAIN image.code[t] /\ image.code[t][i].kind \in Fills \cup Empties
    BY <1>2 DEF In
  <2>2. PICK pos \in Positions(prog) : At(prog, pos) = image.code[t][i] /\ t[1] \in prog.grid
    BY <2>1, WhatRuns
  <2>3. At(prog, pos).buf # "none"
    <3>1. OpOk(prog, At(prog, pos))
      BY DEF IInv, ModuleOk
    <3> QED BY <2>1, <2>2, <3>1 DEF OpOk, Fills, Empties
  <2> QED BY <2>2, <2>3 DEF BufAt, PipeAt, Bufs, Tiles, Posts, EventsOf, OpsOf
<1>3. OneUser(Fills)
  <2> SUFFICES ASSUME NEW s \in Threads, NEW t \in Threads, NEW i \in In(image.code, s, Fills),
                      NEW j \in In(image.code, t, Fills), s[1] = t[1], BufAt(s, i) = BufAt(t, j)
               PROVE  s = t
    BY DEF OneUser
  <2>1. ASSUME NEW u \in Threads, NEW k \in In(image.code, u, Fills)
        PROVE  \E r \in In(image.code, u, {"cb_reserve"}) : BufAt(u, r) = BufAt(u, k)
    <3>1. CASE image.code[u][k].kind = "cb_reserve"
      BY <2>1, <3>1 DEF In
    <3>2. CASE image.code[u][k].kind # "cb_reserve"
      <4>1. k \in In(image.code, u, {"post", "cb_push"}) /\ u \in DOMAIN image.code
        BY <2>1, <3>2 DEF In, Fills, Static
      <4>2. HasBlock(image.code, u, BufAt(u, k), "cb_reserve", "cb_push", k)
        BY <1>1, <4>1 DEF Bracketed, BufAt
      <4> QED BY <4>2 DEF HasBlock, BufAt
    <3> QED BY <3>1, <3>2
  <2>2. PICK r \in In(image.code, s, {"cb_reserve"}), q \in In(image.code, t, {"cb_reserve"}) :
          BufAt(s, r) = BufAt(s, i) /\ BufAt(t, q) = BufAt(t, j)
    BY <2>1
  <2> QED BY <2>2 DEF OneThreadPerEnd, BufAt
<1>4. OneUser(Empties)
  <2> SUFFICES ASSUME NEW s \in Threads, NEW t \in Threads, NEW i \in In(image.code, s, Empties),
                      NEW j \in In(image.code, t, Empties), s[1] = t[1], BufAt(s, i) = BufAt(t, j)
               PROVE  s = t
    BY DEF OneUser
  <2>1. ASSUME NEW u \in Threads, NEW k \in In(image.code, u, Empties)
        PROVE  \E r \in In(image.code, u, {"cb_wait"}) : BufAt(u, r) = BufAt(u, k)
    <3>1. CASE image.code[u][k].kind = "cb_wait"
      BY <2>1, <3>1 DEF In
    <3>2. CASE image.code[u][k].kind # "cb_wait"
      <4>1. k \in In(image.code, u, {"cb_pop"}) /\ u \in DOMAIN image.code
        BY <2>1, <3>2 DEF In, Empties, Static
      <4>2. HasBlock(image.code, u, BufAt(u, k), "cb_wait", "cb_pop", k)
        BY <1>1, <4>1 DEF Bracketed, BufAt
      <4> QED BY <4>2 DEF HasBlock, BufAt
    <3> QED BY <3>1, <3>2
  <2>2. PICK r \in In(image.code, s, {"cb_wait"}), q \in In(image.code, t, {"cb_wait"}) :
          BufAt(s, r) = BufAt(s, i) /\ BufAt(t, q) = BufAt(t, j)
    BY <2>1
  <2> QED BY <2>2 DEF OneThreadPerEnd, BufAt
<1>5. ASSUME NEW s \in Threads, NEW t \in Threads, NEW i \in In(image.code, s, {"post"}),
             NEW j \in In(image.code, t, {"post"}), PipeAt(s, i) = PipeAt(t, j)
      PROVE  /\ BufAt(s, i) = BufOf(prog, PipeAt(s, i)) /\ BufAt(t, j) = BufAt(s, i)
             /\ s[1] # t[1] => IsCollective(PipeAt(s, i)) /\ image.code[s][i].tile = image.code[t][j].tile
  <2>1. PICK p : p = PipeAt(s, i)
    OBVIOUS
  <2>2. /\ i \in In(image.code, s, Fills \cup Empties) /\ j \in In(image.code, t, Fills \cup Empties)
        /\ image.code[s][i].kind = "post" /\ image.code[t][j].kind = "post"
    BY <1>5 DEF In, Fills
  <2>3. PICK a \in Posts(prog, p), b \in Posts(prog, p) :
          At(prog, a) = image.code[s][i] /\ At(prog, b) = image.code[t][j]
    BY <1>2, <1>5, <2>1, <2>2
  <2>4. p \in ReceivedPipes(prog)
    <3>1. p \in prog.pipes
      <4>1. i \in In(image.code, s, {"post", "send", "wait"})
        BY <1>5 DEF In
      <4> QED BY <2>1, <4>1 DEF Static, PipeAt
    <3> QED BY <2>3, <3>1 DEF ReceivedPipes
  <2>5. \A x, y \in Posts(prog, p) :
          /\ At(prog, x).buf = At(prog, y).buf
          /\ ~HasSingleReceiver(p) => At(prog, x).tile = At(prog, y).tile
    BY <1>1, <2>4 DEF PlanOk, PipeGraphOk, OneReceiverDFB
  <2>6. BufOf(prog, p) = At(prog, a).buf
    <3>1. \E op : op \in {At(prog, pos) : pos \in Posts(prog, p)}
      BY <2>3
    <3>2. PICK pos \in Posts(prog, p) : (CHOOSE op \in {At(prog, x) : x \in Posts(prog, p)} : TRUE) = At(prog, pos)
      BY <3>1
    <3> QED BY <2>3, <2>5, <3>2 DEF BufOf
  <2>7. s[1] # t[1] => ~HasSingleReceiver(p)
    <3>1. s[1] \in Destinations(p) /\ t[1] \in Destinations(p) /\ p \in prog.pipes
      <4>1. i \in In(image.code, s, {"post", "wait"}) /\ j \in In(image.code, t, {"post", "wait"})
        BY <1>5 DEF In
      <4> QED BY <1>5, <2>1, <2>4, <4>1 DEF Static, PipeAt, ReceivedPipes
    <3>2. ASSUME HasSingleReceiver(p) PROVE s[1] = t[1]
      <4>1. p.start \in Nat \X Nat /\ p.end = p.start
        BY <3>1, <3>2 DEF IInv, ModuleOk, PipeOk, HasSingleReceiver
      <4>2. p.start[1] .. p.end[1] = {p.start[1]} /\ p.start[2] .. p.end[2] = {p.start[2]}
        <5>1. p.start[1] \in Nat /\ p.start[2] \in Nat
          BY <4>1
        <5>2. \A x \in Nat : x .. x = {x}
          OBVIOUS
        <5> QED BY <4>1, <5>1, <5>2
      <4>3. Destinations(p) = {<<p.start[1], p.start[2]>>}
        BY <4>2 DEF Destinations
      <4> QED BY <3>1, <4>3
    <3> QED BY <3>2
  <2>8. ~HasSingleReceiver(p) => IsCollective(p)
    <3>1. PipeOk(p)
      BY <2>4 DEF ReceivedPipes, IInv, ModuleOk
    <3> QED BY <3>1 DEF PipeOk, CreatePipeOk, IsCollective
  <2> QED BY <2>1, <2>3, <2>5, <2>6, <2>7, <2>8 DEF BufAt
<1>6. ASSUME NEW p \in Units(prog), NEW q \in Units(prog), p # q, Slot(p) = Slot(q)
      PROVE  q \in Sharers(p)
  <2>1. image.plan = ResourcePlan(prog) /\ DOMAIN image.plan = Units(prog)
    BY DEF PInv, PlanTakesTurns
  <2> DEFINE colors == Colors(prog)
  <2>2. DOMAIN colors = Units(prog)
    BY <2>1 DEF ResourcePlan
  <2>3. \A r \in Units(prog) : image.plan[r].slot = colors[r] /\ image.plan[r].ready = ReadyCounter(prog, colors, r)
    BY <2>1, <2>2 DEF ResourcePlan
  <2> HIDE DEF colors
  <2>4. p.src = q.src /\ colors[p] = colors[q]
    BY <1>6, <2>3 DEF Slot
  <2>5. ReadyCounter(prog, colors, p) = ReadyCounter(prog, colors, q)
    BY <2>4 DEF ReadyCounter
  <2>6. Counter(q) = Counter(p)
    BY <2>3, <2>4, <2>5 DEF Counter
  <2> QED BY <1>6, <2>6 DEF Sharers
<1> QED BY <1>1, <1>2, <1>3, <1>4, <1>5, <1>6 DEF Layout

-----------------------------------------------------------------------------
(* Where a thread goes: the next instruction, or the head of its loop.     *)
Between(t, i, a) ==
  \E k \in In(image.code, t, {"wait"}) : image.code[t][k].of = image.code[t][i].id /\ i < a /\ a <= k

LEMMA NextPosition ==
  ASSUME Running, TypesOk, PcOk, NEW t \in Threads, NEW kind, NEW stage, IsAt(t, kind, stage)
  PROVE  \E len \in Nat :
           /\ DOMAIN image.code[t] = 1 .. len /\ pc[t].at \in 1 .. len /\ pc[t].round \in Nat
           /\ \/ pc[t].at < len /\ NextPc(t).at = pc[t].at + 1 /\ NextPc(t).round = pc[t].round
              \/ pc[t].at = len /\ NextPc(t).at = 1 /\ NextPc(t).round = pc[t].round + 1
<1> DEFINE len == Len(image.code[t])
<1>1. pc[t].at \in DOMAIN image.code[t] /\ pc[t].round \in Nat
  BY AtInstruction DEF TypesOk
<1>2. len \in Nat /\ DOMAIN image.code[t] = 1 .. len /\ pc[t].at \in 1 .. len
  BY <1>1 DEF Running, Static
<1>3. CASE pc[t].at < len
  BY <1>1, <1>2, <1>3 DEF NextPc
<1>4. CASE ~(pc[t].at < len)
  <2>1. NextPc(t) = [round |-> pc[t].round + 1, at |-> 1, stage |-> "op"]
    BY <1>4 DEF NextPc
  <2>2. pc[t].at = len
    BY <1>2, <1>4
  <2> QED BY <1>1, <1>2, <2>1, <2>2
<1> QED BY <1>3, <1>4

(* A block that is held behind an instruction was held at it and not given *)
(* back by it, or was taken by it.                                         *)
LEMMA BlockNext ==
  ASSUME Running, TypesOk, PcOk, NEW t \in Threads, NEW kind, NEW stage, IsAt(t, kind, stage),
         NEW b, NEW take, NEW give, HasBlock(image.code, t, b, take, give, NextPc(t).at)
  PROVE  \/ HasBlock(image.code, t, b, take, give, pc[t].at) /\ ~(kind = give /\ BufAt(t, pc[t].at) = b)
         \/ kind = take /\ BufAt(t, pc[t].at) = b
<1> DEFINE a == pc[t].at
<1>1. PICK len \in Nat :
        /\ DOMAIN image.code[t] = 1 .. len /\ a \in 1 .. len
        /\ (a < len /\ NextPc(t).at = a + 1) \/ (a = len /\ NextPc(t).at = 1)
  BY NextPosition
<1>2. PICK r \in In(image.code, t, {take}) :
        /\ r < NextPc(t).at /\ image.code[t][r].buf = b
        /\ \A g \in In(image.code, t, {give}) : (r < g /\ image.code[t][g].buf = b) => NextPc(t).at <= g
  BY DEF HasBlock
<1>3. r \in 1 .. len /\ image.code[t][r].kind = take
  BY <1>1, <1>2 DEF In
<1>4. NextPc(t).at = a + 1
  BY <1>1, <1>2, <1>3
<1>5. image.code[t][a].kind = kind /\ a \in DOMAIN image.code[t] /\ a \in Nat
  BY AtInstruction
<1>6. CASE r = a
  BY <1>2, <1>3, <1>5, <1>6 DEF BufAt
<1>7. CASE r # a
  <2>1. r < a
    BY <1>2, <1>3, <1>4, <1>5, <1>7
  <2>2. \A g \in In(image.code, t, {give}) : g \in Nat
    BY <1>1 DEF In
  <2>3. ASSUME NEW g \in In(image.code, t, {give}), r < g, image.code[t][g].buf = b
        PROVE  a <= g /\ g # a
    <3>1. a + 1 <= g
      BY <1>2, <1>4, <2>3
    <3> QED BY <1>5, <2>2, <3>1
  <2>4. HasBlock(image.code, t, b, take, give, a)
    BY <1>2, <2>1, <2>3 DEF HasBlock
  <2>5. ~(kind = give /\ BufAt(t, a) = b)
    <3> SUFFICES ASSUME kind = give, BufAt(t, a) = b PROVE FALSE
      OBVIOUS
    <3>1. a \in In(image.code, t, {give}) /\ image.code[t][a].buf = b
      BY <1>5 DEF In, BufAt
    <3> QED BY <2>1, <2>3, <3>1
  <2> QED BY <2>4, <2>5
<1> QED BY <1>6, <1>7

(* From a post to its wait its block is reserved.                          *)
LEMMA PostHasBlock ==
  ASSUME Running, Layout, NEW t \in Threads, NEW i \in In(image.code, t, {"post"}), NEW a \in Nat, Between(t, i, a)
  PROVE  HasBlock(image.code, t, BufAt(t, i), "cb_reserve", "cb_push", a)
<1>1. PICK k \in In(image.code, t, {"wait"}) : image.code[t][k].of = image.code[t][i].id /\ i < a /\ a <= k
  BY DEF Between
<1>2. t \in DOMAIN image.code /\ \A g \in DOMAIN image.code[t] : g \in Nat
  BY DEF Running, Static
<1>3. i \in In(image.code, t, {"post", "cb_push"})
  BY DEF In
<1>4. PICK r \in In(image.code, t, {"cb_reserve"}) :
        /\ r < i /\ image.code[t][r].buf = image.code[t][i].buf
        /\ \A g \in In(image.code, t, {"cb_push"}) : (r < g /\ image.code[t][g].buf = image.code[t][i].buf) => i <= g
  BY <1>2, <1>3 DEF Layout, Bracketed, HasBlock
<1>5. ASSUME NEW g \in In(image.code, t, {"cb_push"}), r < g, image.code[t][g].buf = image.code[t][i].buf
      PROVE  a <= g
  <2>1. g \in Nat /\ i \in Nat /\ k \in Nat /\ i <= g /\ g # i
    BY <1>2, <1>4, <1>5 DEF In
  <2>2. g \in In(image.code, t, {"post", "cb_push"}) /\ image.code[t][g].kind = "cb_push"
    BY DEF In
  <2>3. ~(i < g /\ g < k)
    BY <1>1, <1>2, <1>5, <2>2 DEF Layout, Bracketed
  <2> QED BY <1>1, <2>1, <2>3
<1>6. r < a
  <2>1. r \in Nat /\ i \in Nat
    BY <1>2, <1>4 DEF In
  <2> QED BY <1>1, <1>4, <2>1
<1> QED BY <1>4, <1>5, <1>6 DEF HasBlock, BufAt

(* A receive stays posted until the thread passes its wait.                *)
LEMMA BetweenNext ==
  ASSUME Running, TypesOk, PcOk, NEW t \in Threads, NEW kind, NEW stage, IsAt(t, kind, stage),
         NEW i \in In(image.code, t, {"post"})
  PROVE  /\ Between(t, i, NextPc(t).at) => (i = pc[t].at /\ kind = "post") \/ Between(t, i, pc[t].at)
         /\ i = pc[t].at => Between(t, i, NextPc(t).at)
         /\ (Between(t, i, pc[t].at) /\ ~(kind = "wait" /\ image.code[t][pc[t].at].of = image.code[t][i].id)) =>
              Between(t, i, NextPc(t).at)
<1> DEFINE a == pc[t].at
<1>1. PICK len \in Nat :
        /\ DOMAIN image.code[t] = 1 .. len /\ a \in 1 .. len
        /\ (a < len /\ NextPc(t).at = a + 1) \/ (a = len /\ NextPc(t).at = 1)
  BY NextPosition
<1>2. \A kinds : \A g \in In(image.code, t, kinds) : g \in Nat /\ 1 <= g /\ g <= len
  BY <1>1 DEF In
<1>3. image.code[t][a].kind = kind /\ a \in Nat /\ a \in In(image.code, t, {kind})
  BY AtInstruction
<1>4. ASSUME Between(t, i, NextPc(t).at)
      PROVE  (i = a /\ kind = "post") \/ Between(t, i, a)
  <2>1. PICK k \in In(image.code, t, {"wait"}) :
          image.code[t][k].of = image.code[t][i].id /\ i < NextPc(t).at /\ NextPc(t).at <= k
    BY <1>4 DEF Between
  <2>2. NextPc(t).at = a + 1 /\ i \in Nat /\ k \in Nat
    BY <1>1, <1>2, <2>1
  <2>3. i < a \/ i = a
    BY <1>3, <2>1, <2>2
  <2>4. a <= k
    BY <1>3, <2>1, <2>2
  <2>5. i = a => kind = "post"
    BY <1>3 DEF In
  <2> QED BY <2>1, <2>3, <2>4, <2>5 DEF Between
<1>5. ASSUME NEW k \in In(image.code, t, {"wait"}), image.code[t][k].of = image.code[t][i].id, i <= a, a < k
      PROVE  Between(t, i, NextPc(t).at)
  <2>1. k \in Nat /\ k <= len /\ i \in Nat
    BY <1>2
  <2>2. NextPc(t).at = a + 1
    BY <1>1, <1>3, <1>5, <2>1
  <2>3. i < a + 1 /\ a + 1 <= k
    BY <1>3, <1>5, <2>1
  <2> QED BY <1>5, <2>2, <2>3 DEF Between
<1>6. ASSUME i = a PROVE Between(t, i, NextPc(t).at)
  <2>1. PICK k \in In(image.code, t, {"wait"}) : i < k /\ image.code[t][k].of = image.code[t][i].id
    BY TheWait DEF Running
  <2> QED BY <1>3, <1>5, <1>6, <2>1
<1>7. ASSUME Between(t, i, a), ~(kind = "wait" /\ image.code[t][a].of = image.code[t][i].id)
      PROVE  Between(t, i, NextPc(t).at)
  <2>1. PICK k \in In(image.code, t, {"wait"}) : image.code[t][k].of = image.code[t][i].id /\ i < a /\ a <= k
    BY <1>7 DEF Between
  <2>2. k # a
    BY <1>3, <1>7, <2>1 DEF In
  <2>3. k \in Nat /\ i \in Nat
    BY <1>2
  <2>4. i <= a /\ a < k
    BY <1>3, <2>1, <2>2, <2>3
  <2> QED BY <1>5, <2>1, <2>4
<1> QED BY <1>4, <1>6, <1>7

-----------------------------------------------------------------------------
(* The blocks, addresses and data of a running orderly module.             *)
OpenPost(t, i) == Between(t, i, pc[t].at) /\ open[<<PipeAt(t, i), t[1]>>] = 1
PlaceOf(t, i) == Target(t[1], image.code[t][i])

FlowTypes ==
  /\ ring \in [prog.grid \X Bufs -> [pushed : Nat, popped : Nat]]
  /\ DOMAIN promised = Places /\ DOMAIN mem = Places
  /\ sent \in [prog.pipes -> Nat]
  /\ DOMAIN table = {Slot(p) : p \in Units(prog)}

(* A thread that has reserved a block finds the ring not full until it     *)
(* pushes it, and one that has waited for a block finds it not empty until *)
(* it pops it: nobody else does either.                                    *)
Filling(x) == ring[x].pushed - ring[x].popped
RoomOk ==
  \A t \in Threads : \A b \in Bufs :
    HasBlock(image.code, t, b, "cb_reserve", "cb_push", pc[t].at) => Filling(<<t[1], b>>) < BlockCount
DataOk ==
  \A t \in Threads : \A b \in Bufs :
    HasBlock(image.code, t, b, "cb_wait", "cb_pop", pc[t].at) => Filling(<<t[1], b>>) > 0

(* The transfers of a pipe and the blocks of a buffer are as many as the   *)
(* thread has run posts and pushes.                                        *)
PostsOk ==
  \A t \in Threads : \A p \in prog.pipes : Receives(image.code, t, p) # {} =>
    sent[p] + open[<<p, t[1]>>] = Ran(Receives(image.code, t, p), pc[t].round, pc[t].at)
PushesOk ==
  \A t \in Threads : \A i \in In(image.code, t, Fills) :
    ring[<<t[1], BufAt(t, i)>>].pushed = Ran(Pushes(image.code, t, BufAt(t, i)), pc[t].round, pc[t].at)

(* An open receive has the slot of its pipe and the place it is posted to  *)
(* for itself.                                                             *)
AddressOk ==
  \A t \in Threads : \A i \in In(image.code, t, {"post"}) : OpenPost(t, i) =>
    /\ table[Slot(PipeAt(t, i))] = PlaceOf(t, i)
    /\ promised[<<t[1], PlaceOf(t, i)>>] = <<PipeAt(t, i), sent[PipeAt(t, i)] + 1>>

(* A promise is kept or of an open receive.                                *)
MemOk ==
  \A x \in Places : promised[x] # Empty =>
    \/ mem[x] = promised[x]
    \/ \E t \in Threads : \E i \in In(image.code, t, {"post"}) : OpenPost(t, i) /\ x = <<t[1], PlaceOf(t, i)>>

FlowInv == FlowTypes /\ RoomOk /\ DataOk /\ PostsOk /\ PushesOk /\ AddressOk /\ MemOk

LEMMA SameLayout ==
  ASSUME UNCHANGED compiled
  PROVE  /\ prog' = prog /\ image' = image /\ Threads' = Threads /\ Bufs' = Bufs /\ Places' = Places
         /\ \A p : Slot(p)' = Slot(p)
<1>1. prog' = prog /\ image' = image
  BY DEF compiled
<1>2. Bufs' = Bufs /\ Tiles' = Tiles
  BY <1>1 DEF Bufs, Tiles
<1> QED BY <1>1, <1>2 DEF Threads, Places, Slot

(* The buffer of an instruction, and the place of a receive.               *)
LEMMA Places1 ==
  ASSUME Running, Layout, FlowTypes, NEW t \in Threads, NEW i \in In(image.code, t, Fills \cup Empties)
  PROVE  /\ BufAt(t, i) \in Bufs /\ <<t[1], BufAt(t, i)>> \in prog.grid \X Bufs
         /\ ring[<<t[1], BufAt(t, i)>>] \in [pushed : Nat, popped : Nat]
         /\ ring[<<t[1], BufAt(t, i)>>].pushed % BlockCount \in 0 .. BlockCount - 1
         /\ <<t[1], PlaceOf(t, i)>> \in Places
<1> DEFINE x == <<t[1], BufAt(t, i)>>
<1>1. t[1] \in prog.grid /\ BufAt(t, i) \in Bufs /\ image.code[t][i].tile \in Tiles
  BY DEF Layout
<1>2. x \in prog.grid \X Bufs
  BY <1>1
<1>3. ring[x] \in [pushed : Nat, popped : Nat]
  BY <1>2 DEF FlowTypes
<1>4. ring[x].pushed \in Nat /\ BlockCount \in Nat \ {0}
  BY <1>3, BlockCountAssumption
<1>5. ring[x].pushed % BlockCount \in 0 .. BlockCount - 1
  BY <1>4
<1>6. PlaceOf(t, i) = <<BufAt(t, i), ring[x].pushed % BlockCount, image.code[t][i].tile>>
  BY DEF PlaceOf, Target, BufAt
<1> QED BY <1>1, <1>2, <1>3, <1>5, <1>6 DEF Places

(* What a step changes of it: nothing; or it is the write of a send; or a  *)
(* thread passes an instruction.                                           *)
Quiet ==
  /\ \A t \in Threads : pc'[t].at = pc[t].at /\ pc'[t].round = pc[t].round
  /\ ring' = ring /\ table' = table /\ promised' = promised /\ mem' = mem /\ sent' = sent /\ open' = open

RingOfStep(t, kind, x) ==
  /\ kind = "cb_reserve" => Filling(x) < BlockCount
  /\ kind = "cb_wait" => Filling(x) > 0
  /\ kind = "cb_push" => ring' = [ring EXCEPT ![x] = [pushed |-> ring[x].pushed + 1, popped |-> ring[x].popped]]
  /\ kind = "cb_pop" => ring' = [ring EXCEPT ![x] = [pushed |-> ring[x].pushed, popped |-> ring[x].popped + 1]]
  /\ kind \notin {"cb_push", "cb_pop"} => ring' = ring

Passes(t, kind) ==
  /\ \E stage : IsAt(t, kind, stage)
  /\ pc' = [pc EXCEPT ![t] = NextPc(t)]
  /\ kind \in Fills \cup Empties => RingOfStep(t, kind, <<t[1], BufAt(t, pc[t].at)>>)
  /\ kind \notin Fills \cup Empties => ring' = ring
  /\ kind = "post" => Post(t)
  /\ kind = "wait" => Wait(t)
  /\ kind # "post" => table' = table /\ open' = open
  /\ kind = "cb_pop" => CBPop(t)
  /\ kind \notin {"post", "cb_pop"} => promised' = promised
  /\ sent' = sent /\ mem' = mem

LEMMA RingRecord ==
  ASSUME NEW r \in [pushed : Nat, popped : Nat]
  PROVE  /\ r.pushed \in Nat /\ r.popped \in Nat /\ (r.pushed > r.popped => r.pushed - r.popped > 0)
         /\ [r EXCEPT !.pushed = @ + 1] = [pushed |-> r.pushed + 1, popped |-> r.popped]
         /\ [r EXCEPT !.popped = @ + 1] = [pushed |-> r.pushed, popped |-> r.popped + 1]
<1>1. r.pushed \in Nat /\ r.popped \in Nat
  OBVIOUS
<1>2. \A x, y \in Nat : x > y => x - y > 0
  OBVIOUS
<1>3. r.pushed > r.popped => r.pushed - r.popped > 0
  BY <1>1, <1>2
<1> QED BY <1>1, <1>3

LEMMA StepEffects ==
  ASSUME Running, Layout, DInv, FlowTypes, Run
  PROVE  Quiet \/ (\E t \in Threads : SendWrite(t)) \/ \E t \in Threads : \E kind : Passes(t, kind)
<1>1. DOMAIN pc = Threads /\ \A t \in Threads : pc[t] \in [round : Nat, at : Nat, stage : Stages]
  BY DEF DInv, TypesOk
<1>2. ASSUME NEW t \in Threads, NEW kind \in {"cb_reserve", "cb_push", "cb_wait", "cb_pop"}, IsAt(t, kind, "op")
      PROVE  RingOf(t) = ring[<<t[1], BufAt(t, pc[t].at)>>] /\ Current(t).buf = BufAt(t, pc[t].at)
             /\ <<t[1], BufAt(t, pc[t].at)>> \in DOMAIN ring
             /\ RingOf(t) \in [pushed : Nat, popped : Nat]
  <2>1. pc[t].at \in In(image.code, t, {kind}) /\ Current(t) = image.code[t][pc[t].at]
    BY <1>2, AtInstruction DEF DInv
  <2>2. pc[t].at \in In(image.code, t, Fills \cup Empties)
    BY <2>1 DEF In, Fills, Empties
  <2>3. <<t[1], BufAt(t, pc[t].at)>> \in prog.grid \X Bufs
        /\ ring[<<t[1], BufAt(t, pc[t].at)>>] \in [pushed : Nat, popped : Nat]
    BY <2>2, Places1
  <2> QED BY <2>1, <2>3 DEF RingOf, BufAt, FlowTypes
<1>3. ASSUME NEW t \in Threads, SendReady(t) \/ SendReset(t)
      PROVE  Quiet
  <2>1. PICK stage : ToStage(t, stage)
    BY <1>3 DEF SendReady, SendReset
  <2>2. \A u \in Threads : pc'[u].at = pc[u].at /\ pc'[u].round = pc[u].round
    BY <1>1, <2>1 DEF ToStage
  <2> QED BY <1>3, <2>2 DEF Quiet, SendReady, SendReset, history
<1>4. ASSUME NEW t \in Threads, Post(t)
      PROVE  Passes(t, "post")
  <2>1. IsAt(t, "post", "op") /\ Advance(t) /\ ring' = ring /\ sent' = sent /\ mem' = mem
    BY <1>4 DEF Post
  <2> QED BY <1>4, <2>1 DEF Passes, RingOfStep, Advance
<1>5. ASSUME NEW t \in Threads, Wait(t)
      PROVE  Passes(t, "wait")
  <2>1. /\ IsAt(t, "wait", "op") /\ Advance(t) /\ ring' = ring /\ sent' = sent /\ mem' = mem
        /\ table' = table /\ open' = open /\ promised' = promised
    BY <1>5 DEF Wait
  <2> QED BY <1>5, <2>1 DEF Passes, Advance, Fills, Empties
<1>6. ASSUME NEW t \in Threads, CBReserve(t)
      PROVE  Passes(t, "cb_reserve")
  <2>1. /\ IsAt(t, "cb_reserve", "op") /\ Advance(t) /\ sent' = sent /\ mem' = mem
        /\ table' = table /\ open' = open /\ promised' = promised
        /\ ring' = [ring EXCEPT ![<<t[1], Current(t).buf>>] = RingOf(t)]
        /\ RingOf(t).pushed - RingOf(t).popped < BlockCount
    BY <1>6 DEF CBReserve, OnRing
  <2>2. ring' = ring
    BY <1>2, <2>1 DEF FlowTypes
  <2>3. RingOfStep(t, "cb_reserve", <<t[1], BufAt(t, pc[t].at)>>)
    BY <1>2, <2>1, <2>2 DEF RingOfStep, Filling
  <2> QED BY <2>1, <2>3 DEF Passes, Advance, Fills
<1>7. ASSUME NEW t \in Threads, CBWait(t)
      PROVE  Passes(t, "cb_wait")
  <2>1. /\ IsAt(t, "cb_wait", "op") /\ Advance(t) /\ sent' = sent /\ mem' = mem
        /\ table' = table /\ open' = open /\ promised' = promised
        /\ ring' = [ring EXCEPT ![<<t[1], Current(t).buf>>] = RingOf(t)]
        /\ RingOf(t).pushed > RingOf(t).popped
    BY <1>7 DEF CBWait, OnRing
  <2>2. ring' = ring
    BY <1>2, <2>1 DEF FlowTypes
  <2>3. RingOfStep(t, "cb_wait", <<t[1], BufAt(t, pc[t].at)>>)
    <3>1. RingOf(t) \in [pushed : Nat, popped : Nat] /\ RingOf(t).pushed > RingOf(t).popped
      BY <1>2, <2>1
    <3>2. RingOf(t).pushed - RingOf(t).popped > 0
      BY <3>1, RingRecord
    <3> QED BY <1>2, <2>1, <2>2, <3>2 DEF RingOfStep, Filling
  <2> QED BY <2>1, <2>3 DEF Passes, Advance, Empties
<1>8. ASSUME NEW t \in Threads, CBPush(t)
      PROVE  Passes(t, "cb_push")
  <2>1. /\ IsAt(t, "cb_push", "op") /\ Advance(t) /\ sent' = sent /\ mem' = mem
        /\ table' = table /\ open' = open /\ promised' = promised
        /\ ring' = [ring EXCEPT ![<<t[1], Current(t).buf>>] = [RingOf(t) EXCEPT !.pushed = @ + 1]]
    BY <1>8 DEF CBPush, OnRing
  <2>2. [RingOf(t) EXCEPT !.pushed = @ + 1] = [pushed |-> RingOf(t).pushed + 1, popped |-> RingOf(t).popped]
    <3>1. RingOf(t) \in [pushed : Nat, popped : Nat]
      BY <1>2, <2>1
    <3> QED BY <3>1, RingRecord
  <2>3. RingOfStep(t, "cb_push", <<t[1], BufAt(t, pc[t].at)>>)
    BY <1>2, <2>1, <2>2 DEF RingOfStep
  <2> QED BY <2>1, <2>3 DEF Passes, Advance, Fills
<1>9. ASSUME NEW t \in Threads, CBPop(t)
      PROVE  Passes(t, "cb_pop")
  <2>1. /\ IsAt(t, "cb_pop", "op") /\ Advance(t) /\ sent' = sent /\ mem' = mem
        /\ table' = table /\ open' = open
        /\ ring' = [ring EXCEPT ![<<t[1], Current(t).buf>>] = [RingOf(t) EXCEPT !.popped = @ + 1]]
    BY <1>9 DEF CBPop, OnRing
  <2>2. [RingOf(t) EXCEPT !.popped = @ + 1] = [pushed |-> RingOf(t).pushed, popped |-> RingOf(t).popped + 1]
    <3>1. RingOf(t) \in [pushed : Nat, popped : Nat]
      BY <1>2, <2>1
    <3> QED BY <3>1, RingRecord
  <2>3. RingOfStep(t, "cb_pop", <<t[1], BufAt(t, pc[t].at)>>)
    BY <1>2, <2>1, <2>2 DEF RingOfStep
  <2> QED BY <1>9, <2>1, <2>3 DEF Passes, Advance, Empties
<1>10. ASSUME NEW t \in Threads, NEW n \in pending[t], Signal(t, n)
       PROVE  Quiet \/ Passes(t, "send")
  <2>1. /\ IsAt(t, "send", "signal") /\ ring' = ring /\ sent' = sent /\ mem' = mem
        /\ table' = table /\ open' = open /\ promised' = promised
        /\ pc' = pc \/ Advance(t)
    BY <1>10 DEF Signal, history
  <2>2. CASE pc' = pc
    BY <2>1, <2>2 DEF Quiet
  <2>3. CASE Advance(t)
    BY <2>1, <2>3 DEF Passes, Advance, Fills, Empties
  <2> QED BY <2>1, <2>2, <2>3
<1>11. ASSUME NEW c \in DOMAIN flight, DeliverReady(c)
       PROVE  Quiet
  BY <1>11 DEF DeliverReady, history, Quiet
<1>12. ASSUME NEW t \in Threads, ThreadStep(t)
       PROVE  Quiet \/ SendWrite(t) \/ \E kind : Passes(t, kind)
  BY <1>3, <1>4, <1>5, <1>6, <1>7, <1>8, <1>9, <1>12 DEF ThreadStep
<1> QED BY <1>1, <1>10, <1>11, <1>12 DEF Run

(* A thread that has passed an instruction.                                *)
LEMMA Passed ==
  ASSUME Running, DInv, NEW t \in Threads, NEW kind, Passes(t, kind)
  PROVE  /\ pc[t].at \in In(image.code, t, {kind}) /\ pc'[t] = NextPc(t)
         /\ \A u \in Threads : u # t => pc'[u] = pc[u]
         /\ kind \in Fills \cup Empties => pc[t].at \in In(image.code, t, Fills \cup Empties)
         /\ \E stage : IsAt(t, kind, stage)
<1>1. PICK stage : IsAt(t, kind, stage)
  BY DEF Passes
<1>2. pc[t].at \in In(image.code, t, {kind})
  BY <1>1, AtInstruction DEF DInv
<1>3. pc' = [pc EXCEPT ![t] = NextPc(t)] /\ DOMAIN pc = Threads
  BY DEF Passes, DInv, TypesOk
<1>4. pc'[t] = NextPc(t) /\ \A u \in Threads : u # t => pc'[u] = pc[u]
  BY <1>3
<1>5. kind \in Fills \cup Empties => pc[t].at \in In(image.code, t, Fills \cup Empties)
  BY <1>2 DEF In
<1> QED BY <1>1, <1>2, <1>4, <1>5

LEMMA RingMoves ==
  ASSUME Running, Layout, DInv, FlowTypes, NEW t \in Threads, NEW kind, Passes(t, kind)
  PROVE  /\ ring' \in [prog.grid \X Bufs -> [pushed : Nat, popped : Nat]]
         /\ \A x \in prog.grid \X Bufs :
              /\ ring'[x].pushed = ring[x].pushed +
                   (IF kind = "cb_push" /\ x = <<t[1], BufAt(t, pc[t].at)>> THEN 1 ELSE 0)
              /\ ring'[x].popped = ring[x].popped +
                   (IF kind = "cb_pop" /\ x = <<t[1], BufAt(t, pc[t].at)>> THEN 1 ELSE 0)
<1>1. PICK y : y = <<t[1], BufAt(t, pc[t].at)>>
  OBVIOUS
<1> DEFINE D == prog.grid \X Bufs
<1>2. ring \in [D -> [pushed : Nat, popped : Nat]]
  BY DEF FlowTypes
<1>3. kind \in Fills \cup Empties => y \in D
  BY <1>1, Passed, Places1
<1>4. /\ kind = "cb_push" => ring' = [ring EXCEPT ![y] = [pushed |-> ring[y].pushed + 1, popped |-> ring[y].popped]]
      /\ kind = "cb_pop" => ring' = [ring EXCEPT ![y] = [pushed |-> ring[y].pushed, popped |-> ring[y].popped + 1]]
      /\ kind \notin {"cb_push", "cb_pop"} => ring' = ring
  BY <1>1 DEF Passes, RingOfStep, Fills, Empties
<1>5. "cb_push" \in Fills \cup Empties /\ "cb_pop" \in Fills \cup Empties /\ "cb_push" # "cb_pop"
  BY DEF Fills, Empties
<1> HIDE DEF D
<1>6. \A x \in D : ring[x] \in [pushed : Nat, popped : Nat] /\ ring[x].pushed \in Nat /\ ring[x].popped \in Nat
  BY <1>2
<1>7. CASE kind = "cb_push"
  <2>1. y \in D /\ ring' = [ring EXCEPT ![y] = [pushed |-> ring[y].pushed + 1, popped |-> ring[y].popped]]
    BY <1>3, <1>4, <1>5, <1>7
  <2>2. PICK r : r = [pushed |-> ring[y].pushed + 1, popped |-> ring[y].popped]
    OBVIOUS
  <2>3. r \in [pushed : Nat, popped : Nat] /\ r.pushed = ring[y].pushed + 1 /\ r.popped = ring[y].popped
    BY <1>6, <2>1, <2>2
  <2>4. ring' = [ring EXCEPT ![y] = r]
    BY <2>1, <2>2
  <2>5. ring' \in [D -> [pushed : Nat, popped : Nat]]
    BY <1>2, <2>3, <2>4
  <2>6. ring'[y] = r /\ \A x \in D : x # y => ring'[x] = ring[x]
    BY <1>2, <2>1, <2>4
  <2> QED BY <1>1, <1>5, <1>6, <1>7, <2>1, <2>3, <2>5, <2>6 DEF D
<1>8. CASE kind = "cb_pop"
  <2>1. y \in D /\ ring' = [ring EXCEPT ![y] = [pushed |-> ring[y].pushed, popped |-> ring[y].popped + 1]]
    BY <1>3, <1>4, <1>5, <1>8
  <2>2. PICK r : r = [pushed |-> ring[y].pushed, popped |-> ring[y].popped + 1]
    OBVIOUS
  <2>3. r \in [pushed : Nat, popped : Nat] /\ r.pushed = ring[y].pushed /\ r.popped = ring[y].popped + 1
    BY <1>6, <2>1, <2>2
  <2>4. ring' = [ring EXCEPT ![y] = r]
    BY <2>1, <2>2
  <2>5. ring' \in [D -> [pushed : Nat, popped : Nat]]
    BY <1>2, <2>3, <2>4
  <2>6. ring'[y] = r /\ \A x \in D : x # y => ring'[x] = ring[x]
    BY <1>2, <2>1, <2>4
  <2> QED BY <1>1, <1>5, <1>6, <1>8, <2>1, <2>3, <2>5, <2>6 DEF D
<1>9. CASE kind \notin {"cb_push", "cb_pop"}
  BY <1>2, <1>4, <1>6, <1>9 DEF D
<1> QED BY <1>7, <1>8, <1>9

LEMMA TypesKeep ==
  ASSUME Running, Layout, DInv, FlowTypes, Run
  PROVE  FlowTypes'
<1>1. UNCHANGED compiled
  BY RunKeepsCompiled
<1>2. /\ prog' = prog /\ image' = image /\ Threads' = Threads /\ Bufs' = Bufs /\ Places' = Places
      /\ \A p : Slot(p)' = Slot(p)
  BY <1>1, SameLayout
<1>3. (DOMAIN table = {Slot(p) : p \in Units(prog)})' <=> DOMAIN table' = {Slot(p) : p \in Units(prog)}
  BY <1>2
<1>4. CASE Quiet
  BY <1>2, <1>3, <1>4 DEF FlowTypes, Quiet
<1>5. ASSUME NEW t \in Threads, SendWrite(t) PROVE FlowTypes'
  <2>1. PICK p : p = Current(t).pipe
    OBVIOUS
  <2>2. /\ ring' = ring /\ promised' = promised /\ table' = table /\ DOMAIN mem' = DOMAIN mem
        /\ IsAt(t, "send", "write") /\ sent' = [sent EXCEPT ![p] = @ + 1]
    BY <1>5, <2>1 DEF SendWrite
  <2>3. p \in prog.pipes
    BY <2>1, <2>2, AtSend DEF DInv
  <2>4. sent' \in [prog.pipes -> Nat]
    BY <2>2, <2>3 DEF FlowTypes
  <2> QED BY <1>2, <1>3, <2>2, <2>4 DEF FlowTypes
<1>6. ASSUME NEW t \in Threads, NEW kind, Passes(t, kind) PROVE FlowTypes'
  <2>1. ring' \in [prog.grid \X Bufs -> [pushed : Nat, popped : Nat]]
    BY <1>6, RingMoves
  <2>2. sent' = sent /\ mem' = mem
    BY <1>6 DEF Passes
  <2>3. DOMAIN table' = DOMAIN table /\ DOMAIN promised' = DOMAIN promised
    <3>1. CASE kind = "post"
      BY <1>6, <3>1 DEF Passes, Post
    <3>2. CASE kind = "cb_pop"
      <4>1. DOMAIN promised' = DOMAIN promised
        BY <1>6, <3>2 DEF Passes, CBPop
      <4>2. table' = table
        BY <1>6, <3>2 DEF Passes
      <4> QED BY <4>1, <4>2
    <3>3. CASE kind # "post" /\ kind # "cb_pop"
      BY <1>6, <3>3 DEF Passes
    <3> QED BY <3>1, <3>2, <3>3
  <2> QED BY <1>2, <1>3, <2>1, <2>2, <2>3 DEF FlowTypes
<1> QED BY <1>4, <1>5, <1>6, StepEffects

(* A reserved block is room, and one that was waited for is there.         *)
LEMMA RoomKeeps ==
  ASSUME Running, Layout, DInv, FlowTypes, RoomOk, DataOk, Run
  PROVE  RoomOk' /\ DataOk'
<1>1. UNCHANGED compiled
  BY RunKeepsCompiled
<1>2. prog' = prog /\ image' = image /\ Threads' = Threads /\ Bufs' = Bufs
  BY <1>1, SameLayout
<1> DEFINE Held(u, b, take, give, a) == HasBlock(image.code, u, b, take, give, a)
<1>3. SUFFICES
        ASSUME NEW u \in Threads, NEW b \in Bufs
        PROVE  /\ Held(u, b, "cb_reserve", "cb_push", pc'[u].at) => ring'[<<u[1], b>>].pushed - ring'[<<u[1], b>>].popped < BlockCount
               /\ Held(u, b, "cb_wait", "cb_pop", pc'[u].at) => ring'[<<u[1], b>>].pushed - ring'[<<u[1], b>>].popped > 0
  <2>1. \A u \in Threads, b \in Bufs :
          /\ HasBlock(image'.code, u, b, "cb_reserve", "cb_push", pc'[u].at) <=> Held(u, b, "cb_reserve", "cb_push", pc'[u].at)
          /\ HasBlock(image'.code, u, b, "cb_wait", "cb_pop", pc'[u].at) <=> Held(u, b, "cb_wait", "cb_pop", pc'[u].at)
    BY <1>2
  <2> QED BY <1>2, <2>1 DEF RoomOk, DataOk, Filling
<1>4. PICK x : x = <<u[1], b>>
  OBVIOUS
<1>5. x \in prog.grid \X Bufs
  BY <1>4 DEF Threads
<1>6. PICK m, n \in Nat : m = ring[x].pushed /\ n = ring[x].popped
  BY <1>5 DEF FlowTypes
<1>7. BlockCount \in Nat
  BY BlockCountAssumption
<1>8. /\ Held(u, b, "cb_reserve", "cb_push", pc[u].at) => m - n < BlockCount
      /\ Held(u, b, "cb_wait", "cb_pop", pc[u].at) => m - n > 0
  BY <1>4, <1>6 DEF RoomOk, DataOk, Filling
<1>9. SUFFICES
        ASSUME NEW k \in Int, NEW l \in Int, ring'[x].pushed = k, ring'[x].popped = l
        PROVE  /\ Held(u, b, "cb_reserve", "cb_push", pc'[u].at) => k - l < BlockCount
               /\ Held(u, b, "cb_wait", "cb_pop", pc'[u].at) => k - l > 0
  <2>1. ring'[x].pushed \in Nat /\ ring'[x].popped \in Nat
    <3>1. FlowTypes'
      BY TypesKeep
    <3>2. x \in prog'.grid \X Bufs'
      BY <1>2, <1>5
    <3> QED BY <3>1, <3>2 DEF FlowTypes
  <2> QED BY <1>4, <2>1
<1> HIDE DEF Held
<1>10. CASE Quiet \/ \E t \in Threads : SendWrite(t)
  <2>1. ring' = ring /\ pc'[u].at = pc[u].at
    <3>1. ASSUME NEW t \in Threads, SendWrite(t) PROVE ring' = ring /\ pc'[u].at = pc[u].at
      <4>1. ring' = ring /\ IsAt(t, "send", "write") /\ ToStage(t, "signal")
        BY <3>1 DEF SendWrite
      <4>2. pc'[u].at = pc[u].at
        BY <1>1, <4>1, StageStep DEF DInv, Stages
      <4> QED BY <4>1, <4>2
    <3> QED BY <1>10, <3>1 DEF Quiet
  <2> QED BY <1>6, <1>8, <1>9, <2>1
<1>11. ASSUME NEW t \in Threads, NEW kind, Passes(t, kind)
       PROVE  /\ Held(u, b, "cb_reserve", "cb_push", pc'[u].at) => k - l < BlockCount
              /\ Held(u, b, "cb_wait", "cb_pop", pc'[u].at) => k - l > 0
  <2>1. PICK y : y = <<t[1], BufAt(t, pc[t].at)>>
    OBVIOUS
  <2>2. /\ k = m + (IF kind = "cb_push" /\ x = y THEN 1 ELSE 0)
        /\ l = n + (IF kind = "cb_pop" /\ x = y THEN 1 ELSE 0)
    BY <1>5, <1>6, <1>9, <1>11, <2>1, RingMoves
  <2>3. /\ pc[t].at \in In(image.code, t, {kind}) /\ pc'[t] = NextPc(t)
        /\ \A v \in Threads : v # t => pc'[v] = pc[v]
        /\ kind \in Fills \cup Empties => pc[t].at \in In(image.code, t, Fills \cup Empties)
    BY <1>11, Passed
  <2>4. PICK stage : IsAt(t, kind, stage)
    BY <1>11, Passed
  <2>5. /\ (kind = "cb_reserve" /\ x = y) => m - n < BlockCount
        /\ (kind = "cb_wait" /\ x = y) => m - n > 0
    BY <1>6, <1>11, <2>1 DEF Passes, RingOfStep, Filling, Fills, Empties
  <2>6. ASSUME Held(u, b, "cb_reserve", "cb_push", pc'[u].at) PROVE k - l < BlockCount
    <3>1. CASE u = t
      <4>1. HasBlock(image.code, t, b, "cb_reserve", "cb_push", NextPc(t).at)
        BY <2>3, <2>6, <3>1 DEF Held
      <4>2. \/ HasBlock(image.code, t, b, "cb_reserve", "cb_push", pc[t].at) /\ ~(kind = "cb_push" /\ BufAt(t, pc[t].at) = b)
            \/ kind = "cb_reserve" /\ BufAt(t, pc[t].at) = b
        BY <2>4, <4>1, BlockNext DEF DInv
      <4>3. m - n < BlockCount /\ ~(kind = "cb_push" /\ x = y)
        BY <1>4, <1>8, <2>1, <2>5, <3>1, <4>2 DEF Held
      <4> QED BY <1>7, <2>2, <4>3
    <3>2. CASE u # t
      <4>1. Held(u, b, "cb_reserve", "cb_push", pc[u].at)
        BY <2>3, <2>6, <3>2
      <4>2. ~(kind = "cb_push" /\ x = y)
        <5> SUFFICES ASSUME kind = "cb_push", x = y PROVE FALSE
          OBVIOUS
        <5>1. PICK r \in In(image.code, u, {"cb_reserve"}) : image.code[u][r].buf = b
          BY <4>1 DEF Held, HasBlock
        <5>2. r \in In(image.code, u, Fills) /\ pc[t].at \in In(image.code, t, Fills)
          BY <2>3, <5>1 DEF In, Fills
        <5>3. u[1] = t[1] /\ BufAt(u, r) = BufAt(t, pc[t].at)
          <6>0. PICK c, d, e : c = u[1] /\ d = t[1] /\ e = BufAt(t, pc[t].at)
            OBVIOUS
          <6>1. c = d /\ b = e
            <7>1. <<c, b>> = <<d, e>>
              BY <1>4, <2>1, <6>0
            <7> QED BY <7>1
          <6>2. BufAt(u, r) = b
            BY <5>1 DEF BufAt
          <6> QED BY <6>0, <6>1, <6>2
        <5>4. OneUser(Fills)
          BY DEF Layout
        <5> QED BY <3>2, <5>2, <5>3, <5>4 DEF OneUser
      <4>3. m - n < BlockCount
        BY <1>8, <4>1
      <4> QED BY <1>7, <2>2, <4>2, <4>3
    <3> QED BY <3>1, <3>2
  <2>7. ASSUME Held(u, b, "cb_wait", "cb_pop", pc'[u].at) PROVE k - l > 0
    <3>1. CASE u = t
      <4>1. HasBlock(image.code, t, b, "cb_wait", "cb_pop", NextPc(t).at)
        BY <2>3, <2>7, <3>1 DEF Held
      <4>2. \/ HasBlock(image.code, t, b, "cb_wait", "cb_pop", pc[t].at) /\ ~(kind = "cb_pop" /\ BufAt(t, pc[t].at) = b)
            \/ kind = "cb_wait" /\ BufAt(t, pc[t].at) = b
        BY <2>4, <4>1, BlockNext DEF DInv
      <4>3. m - n > 0 /\ ~(kind = "cb_pop" /\ x = y)
        BY <1>4, <1>8, <2>1, <2>5, <3>1, <4>2 DEF Held
      <4> QED BY <1>7, <2>2, <4>3
    <3>2. CASE u # t
      <4>1. Held(u, b, "cb_wait", "cb_pop", pc[u].at)
        BY <2>3, <2>7, <3>2
      <4>2. ~(kind = "cb_pop" /\ x = y)
        <5> SUFFICES ASSUME kind = "cb_pop", x = y PROVE FALSE
          OBVIOUS
        <5>1. PICK r \in In(image.code, u, {"cb_wait"}) : image.code[u][r].buf = b
          BY <4>1 DEF Held, HasBlock
        <5>2. r \in In(image.code, u, Empties) /\ pc[t].at \in In(image.code, t, Empties)
          BY <2>3, <5>1 DEF In, Empties
        <5>3. u[1] = t[1] /\ BufAt(u, r) = BufAt(t, pc[t].at)
          <6>0. PICK c, d, e : c = u[1] /\ d = t[1] /\ e = BufAt(t, pc[t].at)
            OBVIOUS
          <6>1. c = d /\ b = e
            <7>1. <<c, b>> = <<d, e>>
              BY <1>4, <2>1, <6>0
            <7> QED BY <7>1
          <6>2. BufAt(u, r) = b
            BY <5>1 DEF BufAt
          <6> QED BY <6>0, <6>1, <6>2
        <5>4. OneUser(Empties)
          BY DEF Layout
        <5> QED BY <3>2, <5>2, <5>3, <5>4 DEF OneUser
      <4>3. m - n > 0
        BY <1>8, <4>1
      <4> QED BY <1>7, <2>2, <4>2, <4>3
    <3> QED BY <3>1, <3>2
  <2> QED BY <2>6, <2>7
<1> QED BY <1>10, <1>11, StepEffects

(* A stage of a send is no progress in the code.                           *)
LEMMA StageStays ==
  ASSUME DInv, NEW t \in Threads, NEW stage, ToStage(t, stage)
  PROVE  \A u \in Threads : pc'[u].at = pc[u].at /\ pc'[u].round = pc[u].round
<1>1. pc \in [Threads -> [round : Nat, at : Nat, stage : Stages]]
  BY DEF DInv, TypesOk
<1>2. pc' = [pc EXCEPT ![t] = [pc[t] EXCEPT !.stage = stage]]
  BY DEF ToStage
<1>3. PICK r : r = [pc[t] EXCEPT !.stage = stage]
  OBVIOUS
<1>4. r.at = pc[t].at /\ r.round = pc[t].round
  <2>1. pc[t] \in [round : Nat, at : Nat, stage : Stages]
    BY <1>1
  <2> QED BY <1>3, <2>1
<1>5. pc'[t] = r /\ \A u \in Threads : u # t => pc'[u] = pc[u]
  BY <1>1, <1>2, <1>3
<1> QED BY <1>4, <1>5

(* What was run counts up with the instruction that a thread passes.       *)
LEMMA RanMoves ==
  ASSUME Running, DInv, NEW t \in Threads, NEW kind, Passes(t, kind), NEW X, X \subseteq DOMAIN image.code[t]
  PROVE  /\ Ran(X, pc[t].round, pc[t].at) \in Int
         /\ Ran(X, pc'[t].round, pc'[t].at) = Ran(X, pc[t].round, pc[t].at) + (IF pc[t].at \in X THEN 1 ELSE 0)
<1>1. PICK stage : IsAt(t, kind, stage)
  BY Passed
<1>2. pc'[t] = NextPc(t)
  BY Passed
<1>3. PICK len \in Nat :
        /\ DOMAIN image.code[t] = 1 .. len /\ pc[t].at \in 1 .. len /\ pc[t].round \in Nat
        /\ \/ pc[t].at < len /\ NextPc(t).at = pc[t].at + 1 /\ NextPc(t).round = pc[t].round
           \/ pc[t].at = len /\ NextPc(t).at = 1 /\ NextPc(t).round = pc[t].round + 1
  BY <1>1, NextPosition DEF DInv
<1>4. \A x \in X : x \in Int /\ 1 <= x /\ x <= len
  BY <1>3
<1>5. /\ Ran(X, pc[t].round, pc[t].at) \in Int
      /\ Ran(X, pc[t].round, pc[t].at + 1) = Ran(X, pc[t].round, pc[t].at) + (IF pc[t].at \in X THEN 1 ELSE 0)
      /\ (pc[t].at = len =>
            Ran(X, pc[t].round + 1, 1) = Ran(X, pc[t].round, pc[t].at) + (IF pc[t].at \in X THEN 1 ELSE 0))
  BY <1>3, <1>4, RanNext, SMTT(30)
<1> QED BY <1>2, <1>3, <1>5

LEMMA PushesKeep ==
  ASSUME Running, Layout, DInv, FlowTypes, PushesOk, Run
  PROVE  PushesOk'
<1>1. UNCHANGED compiled
  BY RunKeepsCompiled
<1>2. prog' = prog /\ image' = image /\ Threads' = Threads /\ Bufs' = Bufs
  BY <1>1, SameLayout
<1>3. SUFFICES ASSUME NEW u \in Threads, NEW i \in In(image.code, u, Fills)
               PROVE  ring'[<<u[1], BufAt(u, i)>>].pushed =
                        Ran(Pushes(image.code, u, BufAt(u, i)), pc'[u].round, pc'[u].at)
  <2>1. \A u \in Threads : \A i \in In(image.code, u, Fills)' : BufAt(u, i)' = BufAt(u, i)
          /\ Ran(Pushes(image.code, u, BufAt(u, i)), pc[u].round, pc[u].at)' =
               Ran(Pushes(image.code, u, BufAt(u, i)), pc'[u].round, pc'[u].at)
    BY <1>2 DEF BufAt, Ran, Pushes, In, Before
  <2>2. \A u : In(image.code, u, Fills)' = In(image.code, u, Fills)
    BY <1>2 DEF In, Fills
  <2> QED BY <1>2, <2>1, <2>2 DEF PushesOk
<1>4. PICK b : b = BufAt(u, i)
  OBVIOUS
<1>5. PICK x : x = <<u[1], b>>
  OBVIOUS
<1>6. x \in prog.grid \X Bufs
  <2>1. i \in In(image.code, u, Fills \cup Empties)
    BY DEF In
  <2> QED BY <1>4, <1>5, <2>1, Places1
<1>7. PICK X : X = Pushes(image.code, u, b)
  OBVIOUS
<1>8. X \subseteq DOMAIN image.code[u] /\ \A a : a \in X <=> a \in In(image.code, u, {"cb_push"}) /\ BufAt(u, a) = b
  BY <1>7 DEF Pushes, In, BufAt
<1>9. ring[x].pushed = Ran(X, pc[u].round, pc[u].at)
  BY <1>4, <1>5, <1>7 DEF PushesOk
<1>10. SUFFICES ring'[x].pushed = Ran(X, pc'[u].round, pc'[u].at)
  BY <1>4, <1>5, <1>7
<1>11. ASSUME ring' = ring, pc'[u].at = pc[u].at, pc'[u].round = pc[u].round
       PROVE  ring'[x].pushed = Ran(X, pc'[u].round, pc'[u].at)
  BY <1>9, <1>11
<1>12. CASE Quiet
  BY <1>11, <1>12 DEF Quiet
<1>13. ASSUME NEW t \in Threads, SendWrite(t)
       PROVE  ring'[x].pushed = Ran(X, pc'[u].round, pc'[u].at)
  <2>1. ring' = ring /\ ToStage(t, "signal")
    BY <1>13 DEF SendWrite
  <2> QED BY <1>11, <2>1, StageStays
<1>14. ASSUME NEW t \in Threads, NEW kind, Passes(t, kind)
       PROVE  ring'[x].pushed = Ran(X, pc'[u].round, pc'[u].at)
  <2>1. PICK y : y = <<t[1], BufAt(t, pc[t].at)>>
    OBVIOUS
  <2>2. ring'[x].pushed = ring[x].pushed + (IF kind = "cb_push" /\ x = y THEN 1 ELSE 0) /\ ring[x].pushed \in Nat
    <3>1. ring[x].pushed \in Nat
      BY <1>6 DEF FlowTypes
    <3> QED BY <1>6, <1>14, <2>1, <3>1, RingMoves
  <2>3. /\ pc[t].at \in In(image.code, t, {kind})
        /\ \A v \in Threads : v # t => pc'[v] = pc[v]
    BY <1>14, Passed
  <2>4. x = y => u[1] = t[1] /\ b = BufAt(t, pc[t].at)
    <3>1. PICK c, d, e : c = u[1] /\ d = t[1] /\ e = BufAt(t, pc[t].at)
      OBVIOUS
    <3>2. <<c, b>> = <<d, e>> => c = d /\ b = e
      OBVIOUS
    <3> QED BY <1>5, <2>1, <3>1, <3>2
  <2>5. CASE u = t
    <3>1. Ran(X, pc'[t].round, pc'[t].at) = Ran(X, pc[t].round, pc[t].at) + (IF pc[t].at \in X THEN 1 ELSE 0)
      BY <1>8, <1>14, <2>5, RanMoves
    <3>2. pc[t].at \in X <=> kind = "cb_push" /\ x = y
      <4>1. pc[t].at \in In(image.code, t, {"cb_push"}) <=> kind = "cb_push"
        BY <2>3 DEF In
      <4>2. x = y <=> b = BufAt(t, pc[t].at)
        BY <1>5, <2>1, <2>4, <2>5
      <4> QED BY <1>8, <2>5, <4>1, <4>2
    <3> QED BY <1>9, <2>2, <2>5, <3>1, <3>2
  <2>6. CASE u # t
    <3>1. ~(kind = "cb_push" /\ x = y)
      <4> SUFFICES ASSUME kind = "cb_push", x = y PROVE FALSE
        OBVIOUS
      <4>1. pc[t].at \in In(image.code, t, Fills)
        BY <2>3 DEF In, Fills
      <4>2. u[1] = t[1] /\ BufAt(u, i) = BufAt(t, pc[t].at)
        BY <1>4, <2>4
      <4>3. OneUser(Fills)
        BY DEF Layout
      <4> QED BY <2>6, <4>1, <4>2, <4>3 DEF OneUser
    <3> QED BY <1>9, <2>2, <2>3, <2>6, <3>1
  <2> QED BY <2>5, <2>6
<1> QED BY <1>12, <1>13, <1>14, StepEffects

(* The receiver of a pipe is at one of its destinations.                   *)
LEMMA ReceiverIsThere ==
  ASSUME Running, NEW u \in Threads, NEW p, NEW i \in Receives(image.code, u, p)
  PROVE  /\ p \in Units(prog) /\ p \in prog.pipes /\ u[1] \in Destinations(p) /\ <<p, u[1]>> \in Ends
         /\ i \in In(image.code, u, {"post"}) /\ PipeAt(u, i) = p
<1>1. i \in In(image.code, u, {"post"}) /\ PipeAt(u, i) = p
  BY DEF Receives, PipeAt
<1>2. i \in In(image.code, u, {"post", "send"}) /\ i \in In(image.code, u, {"post", "wait"})
  BY <1>1 DEF In
<1>3. p \in Units(prog) /\ p \in prog.pipes /\ u[1] \in Destinations(p)
  BY <1>1, <1>2 DEF Running, Static, PipeAt
<1> QED BY <1>1, <1>3 DEF Ends

(* What the write of a send changes of its pipe.                           *)
LEMMA Written ==
  ASSUME Running, DInv, FlowTypes, NEW t \in Threads, SendWrite(t), NEW p, p = Current(t).pipe
  PROVE  /\ p \in prog.pipes /\ p \in Units(prog) /\ sent'[p] = sent[p] + 1
         /\ \A q \in prog.pipes : q # p => sent'[q] = sent[q]
         /\ \A n \in Destinations(p) : open[<<p, n>>] = 1 /\ open'[<<p, n>>] = 0
         /\ \A q \in prog.pipes : \A n \in Destinations(q) : q # p => open'[<<q, n>>] = open[<<q, n>>]
<1>1. /\ IsAt(t, "send", "write") /\ sent' = [sent EXCEPT ![p] = @ + 1]
      /\ open' = [e \in DOMAIN open |-> IF e[1] = p THEN open[e] - 1 ELSE open[e]]
  BY DEF SendWrite
<1>2. p \in prog.pipes /\ p \in Units(prog)
  BY <1>1, AtSend DEF DInv
<1>3. sent'[p] = sent[p] + 1 /\ \A q \in prog.pipes : q # p => sent'[q] = sent[q]
  BY <1>1, <1>2 DEF FlowTypes
<1>4. \A n \in Destinations(p) : open[<<p, n>>] = 1
  <2>1. Sending(t, p, "write")
    BY <1>1 DEF Sending, IsAt
  <2> QED BY <1>2, <2>1 DEF DInv, SendsOk
<1>5. ASSUME NEW q \in prog.pipes, NEW n \in Destinations(q)
      PROVE  open'[<<q, n>>] = IF q = p THEN open[<<q, n>>] - 1 ELSE open[<<q, n>>]
  <2>1. <<q, n>> \in DOMAIN open /\ <<q, n>>[1] = q
    BY DEF DInv, TypesOk, Ends
  <2> QED BY <1>1, <2>1
<1> QED BY <1>2, <1>3, <1>4, <1>5

LEMMA PostsKeep ==
  ASSUME Running, Layout, DInv, FlowTypes, PostsOk, Run
  PROVE  PostsOk'
<1>1. UNCHANGED compiled
  BY RunKeepsCompiled
<1>2. prog' = prog /\ image' = image /\ Threads' = Threads /\ Bufs' = Bufs
  BY <1>1, SameLayout
<1>3. SUFFICES ASSUME NEW u \in Threads, NEW p \in prog.pipes, Receives(image.code, u, p) # {}
               PROVE  sent'[p] + open'[<<p, u[1]>>] = Ran(Receives(image.code, u, p), pc'[u].round, pc'[u].at)
  <2>1. \A u, p : Receives(image.code, u, p)' = Receives(image.code, u, p)
          /\ Ran(Receives(image.code, u, p), pc[u].round, pc[u].at)' =
               Ran(Receives(image.code, u, p), pc'[u].round, pc'[u].at)
    BY <1>2 DEF Receives, Ran, In, Before
  <2> QED BY <1>2, <2>1 DEF PostsOk
<1>4. PICK X : X = Receives(image.code, u, p)
  OBVIOUS
<1>5. /\ X \subseteq DOMAIN image.code[u]
      /\ \A a : a \in X <=> a \in In(image.code, u, {"post"}) /\ PipeAt(u, a) = p
  BY <1>4 DEF Receives, In, PipeAt
<1>6. PICK i : i \in X
  BY <1>3, <1>4
<1>7. u[1] \in Destinations(p) /\ <<p, u[1]>> \in Ends
  BY <1>4, <1>6, ReceiverIsThere
<1>8. sent[p] + open[<<p, u[1]>>] = Ran(X, pc[u].round, pc[u].at)
  BY <1>3, <1>4 DEF PostsOk
<1>9. open[<<p, u[1]>>] \in Nat /\ sent[p] \in Nat
  BY <1>7 DEF DInv, TypesOk, FlowTypes
<1>10. SUFFICES sent'[p] + open'[<<p, u[1]>>] = Ran(X, pc'[u].round, pc'[u].at)
  BY <1>4
<1>11. ASSUME sent' = sent, open' = open, pc'[u].at = pc[u].at, pc'[u].round = pc[u].round
       PROVE  sent'[p] + open'[<<p, u[1]>>] = Ran(X, pc'[u].round, pc'[u].at)
  BY <1>8, <1>11
<1>12. CASE Quiet
  BY <1>11, <1>12 DEF Quiet
<1>13. ASSUME NEW t \in Threads, SendWrite(t)
       PROVE  sent'[p] + open'[<<p, u[1]>>] = Ran(X, pc'[u].round, pc'[u].at)
  <2>1. ToStage(t, "signal")
    BY <1>13 DEF SendWrite
  <2>2. pc'[u].at = pc[u].at /\ pc'[u].round = pc[u].round
    BY <2>1, StageStays
  <2>3. PICK q : q = Current(t).pipe
    OBVIOUS
  <2>4. /\ q = p => (sent'[p] = sent[p] + 1 /\ open[<<p, u[1]>>] = 1 /\ open'[<<p, u[1]>>] = 0)
        /\ q # p => (sent'[p] = sent[p] /\ open'[<<p, u[1]>>] = open[<<p, u[1]>>])
    BY <1>7, <1>13, <2>3, Written
  <2> QED BY <1>8, <1>9, <2>2, <2>4
<1>14. ASSUME NEW t \in Threads, NEW kind, Passes(t, kind)
       PROVE  sent'[p] + open'[<<p, u[1]>>] = Ran(X, pc'[u].round, pc'[u].at)
  <2>1. /\ pc[t].at \in In(image.code, t, {kind})
        /\ \A v \in Threads : v # t => pc'[v] = pc[v]
    BY <1>14, Passed
  <2>2. sent' = sent
    BY <1>14 DEF Passes
  <2>3. PICK q : q = PipeAt(t, pc[t].at)
    OBVIOUS
  <2>4. PICK one \in {0, 1} : one = IF kind = "post" /\ q = p /\ u[1] = t[1] THEN 1 ELSE 0
    OBVIOUS
  <2>5. open'[<<p, u[1]>>] = open[<<p, u[1]>>] + one
    <3>1. CASE kind = "post"
      <4>1. IsAt(t, "post", "op") /\ open' = [open EXCEPT ![<<Current(t).pipe, t[1]>>] = @ + 1]
        BY <1>14, <3>1 DEF Passes, Post
      <4>2. Current(t).pipe = q
        BY <2>3, <4>1, AtInstruction DEF DInv, PipeAt
      <4>3. open \in [Ends -> Nat]
        BY DEF DInv, TypesOk
      <4>4. PICK e, f : e = <<p, u[1]>> /\ f = <<q, t[1]>>
        OBVIOUS
      <4>5. e = f <=> (q = p /\ u[1] = t[1])
        <5>1. PICK c, d : c = u[1] /\ d = t[1]
          OBVIOUS
        <5>2. <<p, c>> = <<q, d>> <=> (q = p /\ c = d)
          OBVIOUS
        <5> QED BY <4>4, <5>1, <5>2
      <4>6. open' = [open EXCEPT ![f] = @ + 1] /\ e \in Ends
        BY <1>7, <4>1, <4>2, <4>4
      <4>7. open'[e] = IF e = f THEN open[e] + 1 ELSE open[e]
        BY <4>3, <4>6
      <4> QED BY <1>9, <2>4, <3>1, <4>4, <4>5, <4>7
    <3>2. CASE kind # "post"
      BY <1>9, <1>14, <2>4, <3>2 DEF Passes
    <3> QED BY <3>1, <3>2
  <2>6. CASE u = t
    <3>1. Ran(X, pc'[t].round, pc'[t].at) = Ran(X, pc[t].round, pc[t].at) + (IF pc[t].at \in X THEN 1 ELSE 0)
      BY <1>5, <1>14, <2>6, RanMoves
    <3>2. pc[t].at \in X <=> kind = "post" /\ q = p
      <4>1. pc[t].at \in In(image.code, t, {"post"}) <=> kind = "post"
        BY <2>1 DEF In
      <4> QED BY <1>5, <2>3, <2>6, <4>1
    <3>3. Ran(X, pc'[t].round, pc'[t].at) = Ran(X, pc[t].round, pc[t].at) + one
      BY <2>4, <2>6, <3>1, <3>2
    <3> QED BY <1>8, <1>9, <2>2, <2>4, <2>5, <2>6, <3>3
  <2>7. CASE u # t
    <3>1. one = 0
      <4> SUFFICES ASSUME kind = "post", q = p, u[1] = t[1] PROVE FALSE
        BY <2>4
      <4>1. pc[t].at \in In(image.code, t, {"post"}) /\ image.code[t][pc[t].at].pipe = p
        BY <2>1, <2>3 DEF PipeAt
      <4>2. i \in In(image.code, u, {"post"}) /\ image.code[u][i].pipe = p
        BY <1>5, <1>6 DEF PipeAt
      <4>3. u \in DOMAIN image.code /\ t \in DOMAIN image.code
        BY DEF Running, Static
      <4> QED BY <2>7, <4>1, <4>2, <4>3 DEF Running, Orderly
    <3> QED BY <1>8, <1>9, <2>1, <2>2, <2>5, <2>7, <3>1
  <2> QED BY <2>6, <2>7
<1> QED BY <1>12, <1>13, <1>14, StepEffects

-----------------------------------------------------------------------------
(* An open receive is one that a thread has posted and not waited for.     *)
LEMMA OpenOf ==
  ASSUME Running, DInv, NEW p \in prog.pipes, NEW n \in Destinations(p), open[<<p, n>>] = 1
  PROVE  \E u \in Threads : \E i \in In(image.code, u, {"post"}) :
           u[1] = n /\ PipeAt(u, i) = p /\ OpenPost(u, i)
<1>1. Awaited(p, n)
  BY EndStates DEF DInv
<1>2. PICK u \in Threads : u[1] = n /\ AwaitsAt(image.code, u, p, pc[u].at)
  BY <1>1 DEF Awaited
<1>3. PICK i \in Receives(image.code, u, p), k \in In(image.code, u, {"wait"}) :
        image.code[u][k].of = image.code[u][i].id /\ i < pc[u].at /\ pc[u].at <= k
  BY <1>2 DEF AwaitsAt
<1>4. i \in In(image.code, u, {"post"}) /\ PipeAt(u, i) = p
  BY <1>3 DEF Receives, PipeAt
<1>5. Between(u, i, pc[u].at)
  BY <1>3 DEF Between
<1> QED BY <1>2, <1>4, <1>5 DEF OpenPost

(* A thread at a post has no receive of its pipe open.                     *)
LEMMA ClosedAtPost ==
  ASSUME Running, DInv, NEW t \in Threads, NEW a \in In(image.code, t, {"post"}), a = pc[t].at
  PROVE  open[<<PipeAt(t, a), t[1]>>] = 0
<1>1. PICK p : p = PipeAt(t, a)
  OBVIOUS
<1>2. a \in Receives(image.code, t, p)
  BY <1>1 DEF Receives, PipeAt
<1>3. p \in prog.pipes /\ t[1] \in Destinations(p)
  BY <1>2, ReceiverIsThere
<1>4. ASSUME NEW u \in Threads, u[1] = t[1], AwaitsAt(image.code, u, p, pc[u].at) PROVE FALSE
  <2>1. PICK i \in In(image.code, u, {"post"}) : image.code[u][i].pipe = p
    BY <1>4 DEF AwaitsAt, Receives
  <2>2. u \in DOMAIN image.code /\ t \in DOMAIN image.code /\ image.code[t][a].pipe = p
    BY <1>1 DEF Running, Static, PipeAt
  <2>3. u = t
    BY <1>4, <2>1, <2>2 DEF Running, Orderly
  <2>4. ~AwaitsAt(image.code, t, p, a)
    BY <2>2, PostAwaits DEF Running
  <2> QED BY <1>4, <2>3, <2>4
<1>5. ~Awaited(p, t[1])
  BY <1>4 DEF Awaited
<1> QED BY <1>1, <1>3, <1>5, EndStates DEF DInv

(* What comes before one instruction and not before another.               *)
LEMMA BeforeSame ==
  ASSUME NEW X, NEW i, NEW a, \A x \in X : x < a <=> x < i
  PROVE  Before(X, a) = Before(X, i)
<1>1. {j \in X : j < a} = {j \in X : j < i}
  OBVIOUS
<1> QED BY <1>1 DEF Before

(* Between its post and its wait a thread does not push the block, nor     *)
(* does it post another receive of the pipe.                               *)
LEMMA InBetween ==
  ASSUME Running, Layout, NEW t \in Threads, NEW i \in In(image.code, t, {"post"}), NEW a \in Nat, Between(t, i, a)
  PROVE  /\ i \in Nat /\ i < a
         /\ \A j \in Receives(image.code, t, PipeAt(t, i)) : j < a <=> (j < i \/ j = i)
         /\ \A j \in Pushes(image.code, t, BufAt(t, i)) : j < a <=> j < i
<1>1. PICK k \in In(image.code, t, {"wait"}) : image.code[t][k].of = image.code[t][i].id /\ i < a /\ a <= k
  BY DEF Between
<1>2. t \in DOMAIN image.code /\ \A g \in DOMAIN image.code[t] : g \in Nat
  BY DEF Running, Static
<1>3. i \in Nat /\ k \in Nat
  BY <1>2 DEF In
<1>4. ASSUME NEW j \in Receives(image.code, t, PipeAt(t, i)), i < j, j < a PROVE FALSE
  <2>1. j \in In(image.code, t, {"post"}) /\ image.code[t][j].pipe = image.code[t][i].pipe /\ j \in Nat
    BY <1>2 DEF Receives, PipeAt, In
  <2>2. PICK h \in In(image.code, t, {"wait"}) :
          /\ \A g \in In(image.code, t, {"wait"}) : image.code[t][g].of = image.code[t][i].id => g = h
          /\ \A g \in In(image.code, t, {"post"}) : (i < g /\ g < h) => image.code[t][g].pipe.net # image.code[t][i].pipe.net
    BY TheWait DEF Running
  <2>3. h = k
    BY <1>1, <2>2
  <2>4. j < k
    BY <1>1, <1>3, <1>4, <2>1
  <2> QED BY <1>4, <2>1, <2>2, <2>3, <2>4
<1>5. ASSUME NEW j \in Pushes(image.code, t, BufAt(t, i)), i <= j, j < a PROVE FALSE
  <2>1. /\ j \in In(image.code, t, {"post", "cb_push"}) /\ image.code[t][j].buf = image.code[t][i].buf
        /\ j \in Nat /\ image.code[t][j].kind = "cb_push"
    BY <1>2 DEF Pushes, BufAt, In
  <2>2. j # i
    BY <2>1 DEF In
  <2>3. i < j /\ j < k
    BY <1>1, <1>3, <1>5, <2>1, <2>2
  <2> QED BY <1>1, <1>2, <2>1, <2>3 DEF Layout, Bracketed
<1>6. /\ \A j \in Receives(image.code, t, PipeAt(t, i)) : j \in Nat
      /\ \A j \in Pushes(image.code, t, BufAt(t, i)) : j \in Nat
  BY <1>2 DEF Receives, Pushes, In
<1>7. ASSUME NEW j \in Receives(image.code, t, PipeAt(t, i)) PROVE j < a <=> (j < i \/ j = i)
  <2>1. j \in Nat /\ ~(i < j /\ j < a)
    BY <1>4, <1>6
  <2> QED BY <1>1, <1>3, <2>1
<1>8. ASSUME NEW j \in Pushes(image.code, t, BufAt(t, i)) PROVE j < a <=> j < i
  <2>1. j \in Nat /\ ~(i <= j /\ j < a)
    BY <1>5, <1>6
  <2> QED BY <1>1, <1>3, <2>1
<1> QED BY <1>1, <1>3, <1>7, <1>8

(* The receivers of a collective post one address: a thread at its post    *)
(* is at the place where the receive of another node is open.              *)
LEMMA SameAddress ==
  ASSUME Running, Layout, DInv, FlowTypes, PostsOk, PushesOk,
         NEW t \in Threads, NEW a \in In(image.code, t, {"post"}), a = pc[t].at,
         NEW u \in Threads, NEW j \in In(image.code, u, {"post"}), OpenPost(u, j),
         PipeAt(u, j) = PipeAt(t, a), u[1] # t[1]
  PROVE  PlaceOf(u, j) = PlaceOf(t, a)
<1>1. PICK p, b : p = PipeAt(t, a) /\ b = BufAt(t, a)
  OBVIOUS
<1>2. /\ IsCollective(p) /\ b = BufOf(prog, p) /\ BufAt(u, j) = b
      /\ image.code[u][j].tile = image.code[t][a].tile
  <2>1. /\ BufAt(t, a) = BufOf(prog, PipeAt(t, a)) /\ BufAt(u, j) = BufAt(t, a)
        /\ t[1] # u[1] => IsCollective(PipeAt(t, a)) /\ image.code[t][a].tile = image.code[u][j].tile
    BY DEF Layout
  <2> QED BY <1>1, <2>1
<1>3. PICK Ru, Rt, Pu, Pt :
        /\ Ru = Receives(image.code, u, p) /\ Rt = Receives(image.code, t, p)
        /\ Pu = Pushes(image.code, u, b) /\ Pt = Pushes(image.code, t, b)
  OBVIOUS
<1>4. a \in Rt /\ j \in Ru
  BY <1>1, <1>3 DEF Receives, PipeAt
<1>5. p \in prog.pipes
  BY <1>3, <1>4, ReceiverIsThere
<1>6. /\ Cardinality(Ru) = Cardinality(Rt) /\ Cardinality(Pu) = Cardinality(Pt)
      /\ Before(Ru, j) = Before(Rt, a) => Before(Pu, j) = Before(Pt, a)
  BY <1>2, <1>3, <1>4, <1>5 DEF Layout, Uniform
<1>7. PICK len, lenu \in Nat : DOMAIN image.code[t] = 1 .. len /\ DOMAIN image.code[u] = 1 .. lenu
  BY DEF Running, Static
<1>8. /\ \A x \in Rt : x \in Int /\ 1 <= x /\ x <= len
      /\ \A x \in Pt : x \in Int /\ 1 <= x /\ x <= len
      /\ \A x \in Ru : x \in Int /\ 1 <= x /\ x <= lenu
      /\ \A x \in Pu : x \in Int /\ 1 <= x /\ x <= lenu
      /\ a \in 1 .. len /\ j \in 1 .. lenu
  BY <1>3, <1>7 DEF Receives, Pushes, In
<1>9. /\ Cardinality(Rt) \in Nat /\ Before(Rt, a) \in Nat /\ Before(Rt, a) < Cardinality(Rt)
      /\ Cardinality(Pt) \in Nat /\ Before(Pt, a) \in Nat
  BY <1>4, <1>7, <1>8, BeforeNext, ZenonT(60)
<1>10. /\ Before(Ru, j) \in Nat /\ Before(Ru, j) < Cardinality(Ru) /\ Before(Ru, j + 1) = Before(Ru, j) + 1
       /\ Before(Pu, j) \in Nat
  BY <1>4, <1>7, <1>8, BeforeNext
<1>11. PICK au, ru, rt \in Nat : au = pc[u].at /\ ru = pc[u].round /\ rt = pc[t].round
  BY DEF DInv, TypesOk
<1>12. Before(Ru, au) = Before(Ru, j) + 1 /\ Before(Pu, au) = Before(Pu, j)
  <2>1. Between(u, j, au)
    BY <1>11 DEF OpenPost
  <2>2. /\ \A x \in Ru : x < au <=> (x < j \/ x = j)
        /\ \A x \in Pu : x < au <=> x < j
    BY <1>1, <1>2, <1>3, <1>11, <2>1, InBetween
  <2>3. \A x \in Ru : x < au <=> x < j + 1
    <3>1. \A x \in Ru : x < j + 1 <=> (x < j \/ x = j)
      BY <1>8
    <3> QED BY <2>2, <3>1
  <2>4. Before(Ru, au) = Before(Ru, j + 1)
    BY <2>3, BeforeSame
  <2>5. Before(Pu, au) = Before(Pu, j)
    BY <2>2, BeforeSame
  <2> QED BY <1>10, <2>4, <2>5
<1>13. PICK s \in Nat : s = sent[p]
  BY <1>5 DEF FlowTypes
<1>14. s + 1 = Ran(Ru, ru, au) /\ s + 0 = Ran(Rt, rt, a)
  <2>1. open[<<p, u[1]>>] = 1
    BY <1>1 DEF OpenPost
  <2>2. open[<<p, t[1]>>] = 0
    BY <1>1, ClosedAtPost
  <2>3. Ru # {} /\ Rt # {}
    BY <1>4
  <2> QED BY <1>3, <1>5, <1>11, <1>13, <2>1, <2>2, <2>3 DEF PostsOk
<1>15. PICK R, x, y, v, w \in Nat :
         /\ R = Cardinality(Rt) /\ x = Before(Ru, j) /\ y = Before(Rt, a) /\ v = Before(Pu, j) /\ w = Before(Pt, a)
  BY <1>9, <1>10
<1>16. ru - 1 = rt - 1 /\ x = y
  <2>1. (ru - 1) * R + (x + 1) = s + 1 /\ (rt - 1) * R + y = s + 0
    BY <1>6, <1>12, <1>14, <1>15 DEF Ran
  <2>2. PICK g, h \in Int : g = ru - 1 /\ h = rt - 1
    BY <1>11
  <2>3. PICK c, d \in Int : c = g * R /\ d = h * R
    BY <1>15, <2>2
  <2>4. c + x = d + y
    <3>1. c + (x + 1) = s + 1 /\ d + y = s + 0
      BY <2>1, <2>2, <2>3
    <3> QED BY <1>13, <1>15, <2>3, <3>1
  <2>5. g * R + x = h * R + y
    BY <2>3, <2>4
  <2>6. x < R /\ y < R
    BY <1>6, <1>9, <1>10, <1>15
  <2> QED BY <1>15, <2>2, <2>5, <2>6, SameRound
<1>17. v = w
  BY <1>6, <1>15, <1>16
<1>18. ring[<<u[1], b>>].pushed = ring[<<t[1], b>>].pushed
  <2>1. j \in In(image.code, u, Fills) /\ a \in In(image.code, t, Fills)
    BY DEF In, Fills
  <2>2. ring[<<u[1], b>>].pushed = Ran(Pu, ru, au) /\ ring[<<t[1], b>>].pushed = Ran(Pt, rt, a)
    BY <1>1, <1>2, <1>3, <1>11, <2>1 DEF PushesOk
  <2>3. Ran(Pu, ru, au) = (ru - 1) * Cardinality(Pu) + v /\ Ran(Pt, rt, a) = (rt - 1) * Cardinality(Pt) + w
    BY <1>12, <1>15 DEF Ran
  <2> QED BY <1>6, <1>16, <1>17, <2>2, <2>3
<1> QED BY <1>1, <1>2, <1>18 DEF PlaceOf, Target, BufAt

(* What is open, and where, behind a step.                                 *)
LEMMA Behind ==
  ASSUME UNCHANGED compiled
  PROVE  \A u, i : /\ OpenPost(u, i)' <=> Between(u, i, pc'[u].at) /\ open'[<<PipeAt(u, i), u[1]>>] = 1
                   /\ PlaceOf(u, i)' = <<BufAt(u, i), ring'[<<u[1], BufAt(u, i)>>].pushed % BlockCount, image.code[u][i].tile>>
                   /\ PlaceOf(u, i) = <<BufAt(u, i), ring[<<u[1], BufAt(u, i)>>].pushed % BlockCount, image.code[u][i].tile>>
                   /\ PipeAt(u, i)' = PipeAt(u, i) /\ BufAt(u, i)' = BufAt(u, i)
                   /\ In(image.code, u, {"post"})' = In(image.code, u, {"post"})
<1>1. image' = image
  BY DEF compiled
<1>2. \A u, i, a : Between(u, i, a)' <=> Between(u, i, a')
  BY <1>1 DEF Between, In
<1>3. \A u, i : OpenPost(u, i)' <=> Between(u, i, pc'[u].at) /\ open'[<<PipeAt(u, i), u[1]>>] = 1
  BY <1>1 DEF OpenPost, Between, In, PipeAt
<1>4. \A u, i : /\ PlaceOf(u, i)' = <<BufAt(u, i), ring'[<<u[1], BufAt(u, i)>>].pushed % BlockCount, image.code[u][i].tile>>
                /\ PlaceOf(u, i) = <<BufAt(u, i), ring[<<u[1], BufAt(u, i)>>].pushed % BlockCount, image.code[u][i].tile>>
                /\ PipeAt(u, i)' = PipeAt(u, i) /\ BufAt(u, i)' = BufAt(u, i)
                /\ In(image.code, u, {"post"})' = In(image.code, u, {"post"})
  BY <1>1 DEF PlaceOf, Target, BufAt, PipeAt, In
<1> QED BY <1>3, <1>4

(* A receive that is open behind an instruction was open before it, but    *)
(* for the one that is posted.                                             *)
LEMMA OpenWas ==
  ASSUME Running, DInv, UNCHANGED compiled, NEW t \in Threads, NEW kind, Passes(t, kind),
         NEW u \in Threads, NEW i \in In(image.code, u, {"post"}), OpenPost(u, i)'
  PROVE  OpenPost(u, i) \/ (kind = "post" /\ u = t /\ i = pc[t].at)
<1>1. Between(u, i, pc'[u].at) /\ open'[<<PipeAt(u, i), u[1]>>] = 1
  BY Behind
<1>2. SUFFICES ASSUME ~(kind = "post" /\ u = t /\ i = pc[t].at) PROVE OpenPost(u, i)
  OBVIOUS
<1>3. /\ pc[t].at \in In(image.code, t, {kind}) /\ pc'[t] = NextPc(t)
      /\ \A v \in Threads : v # t => pc'[v] = pc[v]
  BY Passed
<1>4. PICK stage : IsAt(t, kind, stage)
  BY Passed
<1>5. Between(u, i, pc[u].at)
  <2>1. CASE u = t
    <3>1. Between(t, i, NextPc(t).at) => (i = pc[t].at /\ kind = "post") \/ Between(t, i, pc[t].at)
      BY <1>4, <2>1, BetweenNext DEF DInv
    <3> QED BY <1>1, <1>2, <1>3, <2>1, <3>1
  <2>2. CASE u # t
    BY <1>1, <1>3, <2>2
  <2> QED BY <2>1, <2>2
<1>6. CASE kind # "post"
  BY <1>1, <1>5, <1>6 DEF Passes, OpenPost
<1>7. CASE kind = "post"
  <2>1. PICK p, q, a : p = PipeAt(t, a) /\ a = pc[t].at /\ q = PipeAt(u, i)
    OBVIOUS
  <2>2. open' = [open EXCEPT ![<<p, t[1]>>] = @ + 1]
    <3>1. IsAt(t, "post", "op") /\ open' = [open EXCEPT ![<<Current(t).pipe, t[1]>>] = @ + 1]
      BY <1>7 DEF Passes, Post
    <3>2. Current(t).pipe = p
      BY <2>1, <3>1, AtInstruction DEF DInv, PipeAt
    <3> QED BY <3>1, <3>2
  <2>3. ~(q = p /\ u[1] = t[1])
    <3> SUFFICES ASSUME q = p, u[1] = t[1] PROVE FALSE
      OBVIOUS
    <3>1. /\ a \in In(image.code, t, {"post"}) /\ image.code[t][a].pipe = p /\ image.code[u][i].pipe = p
          /\ u \in DOMAIN image.code /\ t \in DOMAIN image.code
      BY <1>3, <1>7, <2>1 DEF PipeAt, Running, Static
    <3>2. u = t
      BY <3>1 DEF Running, Orderly
    <3>3. AwaitsAt(image.code, t, p, a)
      <4>1. i \in Receives(image.code, t, p)
        BY <3>1, <3>2 DEF Receives
      <4> QED BY <1>5, <2>1, <3>2, <4>1 DEF Between, AwaitsAt
    <3>4. ~AwaitsAt(image.code, t, p, a)
      BY <3>1, PostAwaits DEF Running
    <3> QED BY <3>3, <3>4
  <2>4. <<q, u[1]>> \in Ends
    <3>1. i \in Receives(image.code, u, q)
      BY <2>1 DEF Receives, PipeAt
    <3> QED BY <3>1, ReceiverIsThere
  <2>5. <<q, u[1]>> # <<p, t[1]>>
    <3>1. PICK c, d : c = u[1] /\ d = t[1]
      OBVIOUS
    <3>2. <<q, c>> = <<p, d>> => q = p /\ c = d
      OBVIOUS
    <3> QED BY <2>3, <3>1, <3>2
  <2>6. open'[<<q, u[1]>>] = open[<<q, u[1]>>]
    <3>1. PICK e, f : e = <<q, u[1]>> /\ f = <<p, t[1]>>
      OBVIOUS
    <3>2. open \in [Ends -> Nat] /\ e \in Ends /\ e # f /\ open' = [open EXCEPT ![f] = @ + 1]
      BY <2>2, <2>4, <2>5, <3>1 DEF DInv, TypesOk
    <3>3. open'[e] = open[e]
      BY <3>2
    <3> QED BY <3>1, <3>3
  <2> QED BY <1>1, <1>5, <2>1, <2>6 DEF OpenPost
<1> QED BY <1>6, <1>7

(* An open receive stays where it is.                                      *)
LEMMA PlaceStays ==
  ASSUME Running, Layout, DInv, FlowTypes, UNCHANGED compiled, NEW t \in Threads, NEW kind, Passes(t, kind),
         NEW u \in Threads, NEW i \in In(image.code, u, {"post"}), OpenPost(u, i)
  PROVE  PlaceOf(u, i)' = PlaceOf(u, i)
<1>1. PICK b : b = BufAt(u, i)
  OBVIOUS
<1>2. PICK x, y : x = <<u[1], b>> /\ y = <<t[1], BufAt(t, pc[t].at)>>
  OBVIOUS
<1>3. i \in In(image.code, u, Fills) /\ i \in In(image.code, u, Fills \cup Empties)
  BY DEF In, Fills
<1>4. x \in prog.grid \X Bufs /\ ring[x].pushed \in Nat
  <2>1. x \in prog.grid \X Bufs
    BY <1>1, <1>2, <1>3, Places1
  <2> QED BY <2>1 DEF FlowTypes
<1>5. ring'[x].pushed = ring[x].pushed + (IF kind = "cb_push" /\ x = y THEN 1 ELSE 0)
  BY <1>2, <1>4, RingMoves
<1>6. ~(kind = "cb_push" /\ x = y)
  <2> SUFFICES ASSUME kind = "cb_push", x = y PROVE FALSE
    OBVIOUS
  <2>1. pc[t].at \in In(image.code, t, {"cb_push"}) /\ pc[t].at \in In(image.code, t, Fills)
    <3>1. pc[t].at \in In(image.code, t, {kind})
      BY Passed
    <3> QED BY <3>1 DEF In, Fills
  <2>2. u[1] = t[1] /\ b = BufAt(t, pc[t].at)
    <3>1. PICK c, d, e : c = u[1] /\ d = t[1] /\ e = BufAt(t, pc[t].at)
      OBVIOUS
    <3>2. <<c, b>> = <<d, e>>
      BY <1>2, <3>1
    <3>3. c = d /\ b = e
      BY <3>2
    <3> QED BY <3>1, <3>3
  <2>3. u = t
    <3>1. OneUser(Fills)
      BY DEF Layout
    <3> QED BY <1>1, <1>3, <2>1, <2>2, <3>1 DEF OneUser
  <2>4. PICK k \in In(image.code, t, {"wait"}) :
          image.code[t][k].of = image.code[t][i].id /\ i < pc[t].at /\ pc[t].at <= k
    BY <2>3 DEF OpenPost, Between
  <2>5. pc[t].at < k
    <3>1. k # pc[t].at
      BY <2>1 DEF In
    <3>2. k \in Nat /\ pc[t].at \in Nat
      BY DEF In, Running, Static, DInv, TypesOk
    <3> QED BY <2>4, <3>1, <3>2
  <2>6. /\ pc[t].at \in In(image.code, t, {"post", "cb_push"}) /\ image.code[t][pc[t].at].kind = "cb_push"
        /\ image.code[t][pc[t].at].buf = image.code[t][i].buf /\ t \in DOMAIN image.code
    BY <1>1, <2>1, <2>2, <2>3 DEF In, BufAt, Running, Static
  <2>7. Bracketed(image.code)
    BY DEF Layout
  <2> QED BY <2>3, <2>4, <2>5, <2>6, <2>7 DEF Bracketed
<1>7. ring'[x].pushed = ring[x].pushed
  BY <1>4, <1>5, <1>6
<1>8. /\ PlaceOf(u, i)' = <<BufAt(u, i), ring'[<<u[1], BufAt(u, i)>>].pushed % BlockCount, image.code[u][i].tile>>
      /\ PlaceOf(u, i) = <<BufAt(u, i), ring[<<u[1], BufAt(u, i)>>].pushed % BlockCount, image.code[u][i].tile>>
  BY Behind
<1> QED BY <1>1, <1>2, <1>7, <1>8

(* It stays open until it is filled.                                       *)
LEMMA OpenStays ==
  ASSUME Running, DInv, UNCHANGED compiled, NEW t \in Threads, NEW kind, Passes(t, kind),
         NEW u \in Threads, NEW i \in In(image.code, u, {"post"}), OpenPost(u, i)
  PROVE  OpenPost(u, i)'
<1>1. PICK q : q = PipeAt(u, i)
  OBVIOUS
<1>2. Between(u, i, pc[u].at) /\ open[<<q, u[1]>>] = 1
  BY <1>1 DEF OpenPost
<1>3. /\ pc[t].at \in In(image.code, t, {kind}) /\ pc'[t] = NextPc(t)
      /\ \A v \in Threads : v # t => pc'[v] = pc[v]
  BY Passed
<1>4. PICK stage : IsAt(t, kind, stage)
  BY Passed
<1>5. <<q, u[1]>> \in Ends
  <2>1. i \in Receives(image.code, u, q)
    BY <1>1 DEF Receives, PipeAt
  <2> QED BY <2>1, ReceiverIsThere
<1>6. open'[<<q, u[1]>>] = 1
  <2>1. CASE kind # "post"
    BY <1>2, <2>1 DEF Passes
  <2>2. CASE kind = "post"
    <3>1. PICK p : p = PipeAt(t, pc[t].at)
      OBVIOUS
    <3>2. open' = [open EXCEPT ![<<p, t[1]>>] = @ + 1]
      <4>1. IsAt(t, "post", "op") /\ open' = [open EXCEPT ![<<Current(t).pipe, t[1]>>] = @ + 1]
        BY <2>2 DEF Passes, Post
      <4>2. Current(t).pipe = p
        BY <3>1, <4>1, AtInstruction DEF DInv, PipeAt
      <4> QED BY <4>1, <4>2
    <3>3. open[<<p, t[1]>>] = 0
      BY <1>3, <2>2, <3>1, ClosedAtPost
    <3>4. PICK e, f : e = <<q, u[1]>> /\ f = <<p, t[1]>>
      OBVIOUS
    <3>5. open \in [Ends -> Nat] /\ e \in Ends /\ open' = [open EXCEPT ![f] = @ + 1]
      BY <1>5, <3>2, <3>4 DEF DInv, TypesOk
    <3>6. open'[e] = open[e]
      <4>1. e # f
        <5>1. open[e] = 1 /\ open[f] = 0
          BY <1>2, <3>3, <3>4
        <5> QED BY <5>1
      <4> QED BY <3>5, <4>1
    <3> QED BY <1>2, <3>4, <3>6
  <2> QED BY <2>1, <2>2
<1>7. Between(u, i, pc'[u].at)
  <2>1. CASE u # t
    BY <1>2, <1>3, <2>1
  <2>2. CASE u = t
    <3>1. ~(kind = "wait" /\ image.code[t][pc[t].at].of = image.code[t][i].id)
      <4> SUFFICES ASSUME kind = "wait", image.code[t][pc[t].at].of = image.code[t][i].id PROVE FALSE
        OBVIOUS
      <4>1. Wait(t) /\ IsAt(t, "wait", "op")
        BY DEF Passes, Wait
      <4>2. PICK p : p = Current(t).pipe
        OBVIOUS
      <4>3. p = image.code[t][pc[t].at].pipe
        BY <4>1, <4>2, AtInstruction DEF DInv
      <4>4. p = q
        <5> DEFINE WaitedAt(l, k) ==
                     /\ l < k /\ image.code[t][k].of = image.code[t][l].id
                     /\ image.code[t][k].pipe = image.code[t][l].pipe
                     /\ \A h \in In(image.code, t, {"wait"}) : image.code[t][h].of = image.code[t][l].id => h = k
                     /\ \A j \in In(image.code, t, {"post"}) :
                          (l < j /\ j < k) => image.code[t][j].pipe.net # image.code[t][l].pipe.net
        <5>0. \A l \in In(image.code, t, {"post"}) : \E k \in In(image.code, t, {"wait"}) : WaitedAt(l, k)
          <6> TAKE l \in In(image.code, t, {"post"})
          <6>1. Static /\ Orderly(image.code)
            BY DEF Running
          <6> QED BY <6>1, TheWait, SMTT(30)
        <5>1. PICK k \in In(image.code, t, {"wait"}) : WaitedAt(i, k)
          <6> HIDE DEF WaitedAt
          <6> QED BY <2>2, <5>0
        <5> QED BY <1>1, <1>3, <2>2, <4>3, <5>1 DEF PipeAt
      <4>5. open[<<p, t[1]>>] = 0
        BY <4>1, <4>2, WaitFinds
      <4> QED BY <1>2, <2>2, <4>4, <4>5
    <3>2. Between(t, i, NextPc(t).at)
      BY <1>2, <1>4, <2>2, <3>1, BetweenNext DEF DInv
    <3> QED BY <1>3, <2>2, <3>2
  <2> QED BY <2>1, <2>2
<1> QED BY <1>1, <1>6, <1>7, Behind

(* The place that a thread pops is not one that a receive is open at: the  *)
(* buffer is neither full nor empty.                                       *)
LEMMA PopsElsewhere ==
  ASSUME Running, Layout, DInv, FlowTypes, RoomOk, DataOk, NEW t \in Threads, NEW stage, IsAt(t, "cb_pop", stage),
         NEW u \in Threads, NEW i \in In(image.code, u, {"post"}), OpenPost(u, i)
  PROVE  <<u[1], PlaceOf(u, i)>> \notin ReadBlock(t[1], BufAt(t, pc[t].at))
<1>1. PICK b, a : b = BufAt(u, i) /\ a = pc[t].at
  OBVIOUS
<1>2. PICK r : r = ring[<<u[1], b>>]
  OBVIOUS
<1>3. i \in In(image.code, u, Fills \cup Empties)
  BY DEF In, Fills
<1>4. r \in [pushed : Nat, popped : Nat] /\ b \in Bufs
  BY <1>1, <1>2, <1>3, Places1
<1>5. PICK m, n \in Nat : m = r.pushed /\ n = r.popped
  BY <1>4
<1>6. SUFFICES ASSUME <<u[1], PlaceOf(u, i)>> \in ReadBlock(t[1], BufAt(t, a)) PROVE FALSE
  BY <1>1
<1>7. /\ u[1] = t[1] /\ b = BufAt(t, a)
      /\ m % BlockCount = ring[<<t[1], BufAt(t, a)>>].popped % BlockCount
  <2>1. PICK x : x = <<u[1], PlaceOf(u, i)>>
    OBVIOUS
  <2>2. x[1] = t[1] /\ x[2][1] = BufAt(t, a) /\ x[2][2] = ring[<<t[1], BufAt(t, a)>>].popped % BlockCount
    BY <1>6, <2>1 DEF ReadBlock
  <2>3. x[1] = u[1] /\ x[2] = PlaceOf(u, i)
    BY <2>1
  <2>4. PlaceOf(u, i) = <<b, m % BlockCount, image.code[u][i].tile>>
    BY <1>1, <1>2, <1>5 DEF PlaceOf, Target, BufAt
  <2> QED BY <2>2, <2>3, <2>4
<1>8. m % BlockCount = n % BlockCount
  BY <1>2, <1>5, <1>7
<1>9. m - n < BlockCount
  <2>1. pc[u].at \in Nat /\ Between(u, i, pc[u].at)
    BY DEF OpenPost, DInv, TypesOk
  <2>2. HasBlock(image.code, u, b, "cb_reserve", "cb_push", pc[u].at)
    BY <1>1, <2>1, PostHasBlock
  <2>3. Filling(<<u[1], b>>) < BlockCount
    BY <1>4, <2>2 DEF RoomOk
  <2> QED BY <1>2, <1>5, <2>3 DEF Filling
<1>10. m - n > 0
  <2>1. a \in In(image.code, t, {"cb_pop"}) /\ t \in DOMAIN image.code
    BY <1>1, AtInstruction DEF DInv, Running, Static
  <2>2. HasBlock(image.code, t, b, "cb_wait", "cb_pop", a)
    BY <1>7, <2>1 DEF Layout, Bracketed, BufAt
  <2>3. Filling(<<t[1], b>>) > 0
    BY <1>1, <1>4, <2>2 DEF DataOk
  <2>4. Filling(<<u[1], b>>) > 0
    BY <1>7, <2>3
  <2> QED BY <1>2, <1>5, <2>4 DEF Filling
<1>11. n < m
  BY <1>10
<1> QED BY <1>8, <1>9, <1>11, EndsApart, BlockCountAssumption

(* What a post changes of the promises that were made, and any other step. *)
LEMMA PostPromises ==
  ASSUME Running, Layout, DInv, FlowTypes, NEW t \in Threads, Passes(t, "post")
  PROVE  \E a, p :
           /\ a = pc[t].at /\ p = PipeAt(t, a)
           /\ p \in Units(prog) /\ a \in In(image.code, t, {"post"})
           /\ \A q \in Units(prog) : table'[Slot(q)] = IF Slot(q) = Slot(p) THEN PlaceOf(t, a) ELSE table[Slot(q)]
           /\ \A x \in Places : promised'[x] = IF x = <<t[1], PlaceOf(t, a)>> THEN <<p, sent[p] + 1>> ELSE promised[x]
<1>1. PICK a, p : a = pc[t].at /\ p = PipeAt(t, a)
  OBVIOUS
<1>2. /\ IsAt(t, "post", "op") /\ table' = [table EXCEPT ![Slot(Current(t).pipe)] = Target(t[1], Current(t))]
      /\ promised' = [promised EXCEPT ![<<t[1], Target(t[1], Current(t))>>] =
                        <<Current(t).pipe, sent[Current(t).pipe] + open[<<Current(t).pipe, t[1]>>] + 1>>]
  BY DEF Passes, Post
<1>3. Current(t) = image.code[t][a] /\ a \in In(image.code, t, {"post"})
  BY <1>1, <1>2, AtInstruction DEF DInv
<1>4. Current(t).pipe = p /\ Target(t[1], Current(t)) = PlaceOf(t, a)
  BY <1>1, <1>3 DEF PipeAt, PlaceOf
<1>5. a \in Receives(image.code, t, p)
  BY <1>1, <1>3 DEF Receives, PipeAt
<1>6. p \in Units(prog) /\ p \in prog.pipes
  BY <1>5, ReceiverIsThere
<1>7. open[<<p, t[1]>>] = 0
  BY <1>1, <1>3, ClosedAtPost
<1>8. sent[p] + open[<<p, t[1]>>] + 1 = sent[p] + 1
  BY <1>6, <1>7 DEF FlowTypes
<1>9. \A q \in Units(prog) : Slot(q) \in DOMAIN table
  BY DEF FlowTypes
<1>10. PICK T, S, w, z : T = PlaceOf(t, a) /\ S = Slot(p) /\ w = <<t[1], T>> /\ z = <<p, sent[p] + 1>>
  OBVIOUS
<1>11. table' = [table EXCEPT ![S] = T] /\ promised' = [promised EXCEPT ![w] = z]
  BY <1>2, <1>4, <1>8, <1>10
<1>12. \A q \in Units(prog) : table'[Slot(q)] = IF Slot(q) = S THEN T ELSE table[Slot(q)]
  BY <1>9, <1>11
<1>13. \A x \in Places : promised'[x] = IF x = w THEN z ELSE promised[x]
  BY <1>11 DEF FlowTypes
<1> QED BY <1>1, <1>3, <1>6, <1>10, <1>12, <1>13

LEMMA PromisesMove ==
  ASSUME Running, Layout, DInv, FlowTypes, NEW t \in Threads, NEW kind, Passes(t, kind)
  PROVE  /\ kind # "post" => table' = table
         /\ kind = "cb_pop" => \A x \in Places :
              promised'[x] = IF x \in ReadBlock(t[1], BufAt(t, pc[t].at)) THEN Empty ELSE promised[x]
         /\ kind \notin {"post", "cb_pop"} => promised' = promised
         /\ sent' = sent /\ mem' = mem
<1>1. kind # "post" => table' = table
  BY DEF Passes
<1>2. ASSUME kind = "cb_pop"
      PROVE  \A x \in Places : promised'[x] = IF x \in ReadBlock(t[1], BufAt(t, pc[t].at)) THEN Empty ELSE promised[x]
  <2>1. /\ IsAt(t, "cb_pop", "op")
        /\ promised' = [x \in DOMAIN promised |-> IF x \in ReadBlock(t[1], Current(t).buf) THEN Empty ELSE promised[x]]
    BY <1>2 DEF Passes, CBPop, OnRing
  <2>2. Current(t).buf = BufAt(t, pc[t].at)
    BY <2>1, AtInstruction DEF DInv, BufAt
  <2>3. DOMAIN promised = Places
    BY DEF FlowTypes
  <2> QED BY <2>1, <2>2, <2>3
<1>3. kind \notin {"post", "cb_pop"} => promised' = promised
  BY DEF Passes
<1>4. sent' = sent /\ mem' = mem
  BY DEF Passes
<1> QED BY <1>1, <1>2, <1>3, <1>4

LEMMA AddressKeeps ==
  ASSUME Running, Layout, DInv, FlowTypes, RoomOk, DataOk, PostsOk, PushesOk, AddressOk, Run
  PROVE  AddressOk'
<1>1. UNCHANGED compiled
  BY RunKeepsCompiled
<1>2. prog' = prog /\ image' = image /\ Threads' = Threads /\ Places' = Places /\ \A p : Slot(p)' = Slot(p)
  BY <1>1, SameLayout
<1>3. SUFFICES ASSUME NEW u \in Threads, NEW i \in In(image.code, u, {"post"}), OpenPost(u, i)'
               PROVE  /\ table'[Slot(PipeAt(u, i))] = PlaceOf(u, i)'
                      /\ promised'[<<u[1], PlaceOf(u, i)'>>] = <<PipeAt(u, i), sent'[PipeAt(u, i)] + 1>>
  <2>1. \A u, i : PipeAt(u, i)' = PipeAt(u, i) /\ In(image.code, u, {"post"})' = In(image.code, u, {"post"})
    BY <1>1, Behind
  <2> QED BY <1>2, <2>1 DEF AddressOk
<1>4. PICK q, n : q = PipeAt(u, i) /\ n = u[1]
  OBVIOUS
<1>5. i \in Receives(image.code, u, q)
  BY <1>4 DEF Receives, PipeAt
<1>6. q \in Units(prog) /\ q \in prog.pipes /\ n \in Destinations(q)
  BY <1>4, <1>5, ReceiverIsThere
<1>7. OpenPost(u, i) => /\ table[Slot(q)] = PlaceOf(u, i)
                        /\ promised[<<n, PlaceOf(u, i)>>] = <<q, sent[q] + 1>>
  BY <1>4 DEF AddressOk
<1>8. Between(u, i, pc'[u].at) /\ open'[<<q, n>>] = 1
  BY <1>1, <1>3, <1>4, Behind
<1>9. ring' = ring => PlaceOf(u, i)' = PlaceOf(u, i)
  BY <1>1, Behind, ZenonT(60)
<1>10. CASE Quiet
  <2>1. OpenPost(u, i)
    BY <1>4, <1>8, <1>10 DEF Quiet, OpenPost
  <2> QED BY <1>4, <1>7, <1>9, <1>10, <2>1 DEF Quiet
<1>11. ASSUME NEW t \in Threads, SendWrite(t)
       PROVE  /\ table'[Slot(q)] = PlaceOf(u, i)' /\ promised'[<<n, PlaceOf(u, i)'>>] = <<q, sent'[q] + 1>>
  <2>1. PICK p : p = Current(t).pipe
    OBVIOUS
  <2>2. ring' = ring /\ table' = table /\ promised' = promised /\ ToStage(t, "signal")
    BY <1>11 DEF SendWrite
  <2>3. /\ \A x \in prog.pipes : x # p => sent'[x] = sent[x]
        /\ \A m \in Destinations(p) : open'[<<p, m>>] = 0
        /\ \A x \in prog.pipes : \A m \in Destinations(x) : x # p => open'[<<x, m>>] = open[<<x, m>>]
    BY <1>11, <2>1, Written
  <2>4. q # p
    BY <1>6, <1>8, <2>3
  <2>5. open[<<q, n>>] = 1 /\ sent'[q] = sent[q]
    BY <1>6, <1>8, <2>3, <2>4
  <2>6. pc'[u].at = pc[u].at
    BY <2>2, StageStays
  <2>7. OpenPost(u, i)
    BY <1>4, <1>8, <2>5, <2>6 DEF OpenPost
  <2> QED BY <1>7, <1>9, <2>2, <2>5, <2>7
<1>12. ASSUME NEW t \in Threads, NEW kind, Passes(t, kind)
       PROVE  /\ table'[Slot(q)] = PlaceOf(u, i)' /\ promised'[<<n, PlaceOf(u, i)'>>] = <<q, sent'[q] + 1>>
  <2>1. OpenPost(u, i) \/ (kind = "post" /\ u = t /\ i = pc[t].at)
    BY <1>1, <1>3, <1>12, OpenWas
  <2>2. OpenPost(u, i) => PlaceOf(u, i)' = PlaceOf(u, i)
    BY <1>1, <1>12, PlaceStays
  <2>3. <<n, PlaceOf(u, i)>> \in Places
    <3>1. i \in In(image.code, u, Fills \cup Empties)
      BY DEF In, Fills
    <3> QED BY <1>4, <3>1, Places1
  <2>4. sent' = sent
    BY <1>12, PromisesMove
  <2>5. CASE kind # "post" /\ kind # "cb_pop"
    BY <1>7, <1>12, <2>1, <2>2, <2>5, PromisesMove
  <2>6. CASE kind = "cb_pop"
    <3>1. OpenPost(u, i)
      BY <2>1, <2>6
    <3>2. <<n, PlaceOf(u, i)>> \notin ReadBlock(t[1], BufAt(t, pc[t].at))
      <4>1. PICK stage : IsAt(t, "cb_pop", stage)
        BY <1>12, <2>6, Passed
      <4> QED BY <1>4, <3>1, <4>1, PopsElsewhere
    <3>3. /\ kind # "post" => table' = table
          /\ kind = "cb_pop" => \A x \in Places :
               promised'[x] = IF x \in ReadBlock(t[1], BufAt(t, pc[t].at)) THEN Empty ELSE promised[x]
      BY <1>12, PromisesMove
    <3>4. promised'[<<n, PlaceOf(u, i)>>] = promised[<<n, PlaceOf(u, i)>>] /\ table' = table
      BY <2>3, <2>6, <3>2, <3>3
    <3> QED BY <1>7, <2>2, <2>4, <3>1, <3>4
  <2>7. CASE kind = "post"
    <3>0. Passes(t, "post")
      BY <1>12, <2>7
    <3>a. PICK a, p :
            /\ a = pc[t].at /\ p = PipeAt(t, a)
            /\ p \in Units(prog) /\ a \in In(image.code, t, {"post"})
            /\ \A x \in Units(prog) : table'[Slot(x)] = IF Slot(x) = Slot(p) THEN PlaceOf(t, a) ELSE table[Slot(x)]
            /\ \A x \in Places :
                 promised'[x] = IF x = <<t[1], PlaceOf(t, a)>> THEN <<p, sent[p] + 1>> ELSE promised[x]
      BY <3>0, PostPromises
    <3>1. PICK w : a = pc[t].at /\ p = PipeAt(t, a) /\ w = <<t[1], PlaceOf(t, a)>>
      BY <3>a
    <3>2. /\ p \in Units(prog) /\ a \in In(image.code, t, {"post"})
          /\ \A x \in Units(prog) : table'[Slot(x)] = IF Slot(x) = Slot(p) THEN PlaceOf(t, a) ELSE table[Slot(x)]
          /\ \A x \in Places : promised'[x] = IF x = w THEN <<p, sent[p] + 1>> ELSE promised[x]
      BY <3>1, <3>a
    <3>3. ring' = ring
      BY <1>12, <2>7 DEF Passes, Post
    <3>4. CASE u = t /\ i = a
      BY <1>4, <1>6, <1>9, <2>3, <2>4, <3>1, <3>2, <3>3, <3>4
    <3>5. CASE ~(u = t /\ i = a)
      <4>1. OpenPost(u, i)
        BY <2>1, <3>1, <3>5
      <4>2. open[<<q, n>>] = 1 /\ Between(u, i, pc[u].at)
        BY <1>4, <4>1 DEF OpenPost
      <4>3. open[<<p, t[1]>>] = 0
        BY <3>1, <3>2, ClosedAtPost
      <4>4. q = p => n # t[1]
        BY <4>2, <4>3
      <4>5. table'[Slot(q)] = table[Slot(q)]
        <5>1. CASE q = p
          <6>0. a = pc[t].at /\ a \in In(image.code, t, {"post"}) /\ PipeAt(u, i) = PipeAt(t, a) /\ u[1] # t[1]
            BY <1>4, <3>1, <3>2, <4>4, <5>1
          <6>1. PlaceOf(u, i) = PlaceOf(t, a)
            BY <4>1, <6>0, SameAddress
          <6> QED BY <1>6, <1>7, <3>2, <4>1, <5>1, <6>1
        <5>2. CASE q # p
          <6>1. Slot(q) # Slot(p)
            <7> SUFFICES ASSUME Slot(q) = Slot(p) PROVE FALSE
              OBVIOUS
            <7>1. q \in Sharers(p)
              BY <1>6, <3>2, <5>2 DEF Layout
            <7>2. pc[t].at \in Events(image.code, t, p)
              BY <3>1, <3>2 DEF Events, Receives, PipeAt
            <7>3. Opened(q) = {}
              BY <3>2, <7>1, <7>2, OthersClosed DEF DInv
            <7> QED BY <1>6, <4>2, <7>3 DEF Opened
          <6> QED BY <1>6, <3>2, <6>1
        <5> QED BY <5>1, <5>2
      <4>6. <<n, PlaceOf(u, i)>> # w
        <5> SUFFICES ASSUME <<n, PlaceOf(u, i)>> = w PROVE FALSE
          OBVIOUS
        <5>1. n = t[1] /\ PlaceOf(u, i) = PlaceOf(t, a)
          <6>1. PICK c, d, e : c = PlaceOf(u, i) /\ d = t[1] /\ e = PlaceOf(t, a)
            OBVIOUS
          <6>2. <<n, c>> = <<d, e>> => n = d /\ c = e
            OBVIOUS
          <6> QED BY <3>1, <6>1, <6>2
        <5>2. BufAt(u, i) = BufAt(t, a) /\ image.code[u][i].tile = image.code[t][a].tile
          <6>1. /\ PlaceOf(u, i) = <<BufAt(u, i), ring[<<u[1], BufAt(u, i)>>].pushed % BlockCount, image.code[u][i].tile>>
                /\ PlaceOf(t, a) = <<BufAt(t, a), ring[<<t[1], BufAt(t, a)>>].pushed % BlockCount, image.code[t][a].tile>>
            BY <1>1, Behind
          <6>2. PICK d, e : /\ d = ring[<<u[1], BufAt(u, i)>>].pushed % BlockCount
                            /\ e = ring[<<t[1], BufAt(t, a)>>].pushed % BlockCount
            OBVIOUS
          <6>3. PICK g, h, k, l : g = BufAt(u, i) /\ h = BufAt(t, a) /\ k = image.code[u][i].tile /\ l = image.code[t][a].tile
            OBVIOUS
          <6>4. <<g, d, k>> = <<h, e, l>>
            BY <5>1, <6>1, <6>2, <6>3
          <6>5. g = h /\ k = l
            BY <6>4
          <6> QED BY <6>3, <6>5
        <5>3. u = t
          <6>1. i \in In(image.code, u, Fills) /\ a \in In(image.code, t, Fills)
            BY <3>2 DEF In, Fills
          <6>2. OneUser(Fills)
            BY DEF Layout
          <6> QED BY <1>4, <5>1, <5>2, <6>1, <6>2 DEF OneUser
        <5>4. PICK k \in In(image.code, t, {"wait"}) : image.code[t][k].of = image.code[t][i].id /\ i < a /\ a <= k
          BY <3>1, <4>2, <5>3 DEF Between
        <5>5. a < k
          <6>1. a # k
            BY <3>2 DEF In
          <6>2. a \in Nat /\ k \in Nat
            BY <3>2 DEF In, Running, Static
          <6> QED BY <5>4, <6>1, <6>2
        <5>6. a \in In(image.code, t, {"post", "cb_push"}) /\ t \in DOMAIN image.code
          BY <3>2 DEF In, Running, Static
        <5>7. image.code[t][a].buf = image.code[t][i].buf /\ image.code[t][a].tile = image.code[t][i].tile
          BY <5>2, <5>3 DEF BufAt
        <5>8. Bracketed(image.code)
          BY DEF Layout
        <5> QED BY <5>3, <5>4, <5>5, <5>6, <5>7, <5>8, SMTT(30) DEF Bracketed
      <4> QED BY <1>7, <1>9, <2>3, <2>4, <3>2, <3>3, <4>1, <4>5, <4>6
    <3> QED BY <3>4, <3>5
  <2> QED BY <2>5, <2>6, <2>7
<1> QED BY <1>4, <1>10, <1>11, <1>12, StepEffects

LEMMA MemKeeps ==
  ASSUME Running, Layout, DInv, FlowTypes, AddressOk, MemOk, Run
  PROVE  MemOk'
<1>1. UNCHANGED compiled
  BY RunKeepsCompiled
<1>2. prog' = prog /\ image' = image /\ Threads' = Threads /\ Places' = Places
  BY <1>1, SameLayout
<1> DEFINE Kept(x) == mem'[x] = promised'[x]
           Posted(x) == \E u \in Threads : \E i \in In(image.code, u, {"post"}) :
                          OpenPost(u, i)' /\ x = <<u[1], PlaceOf(u, i)'>>
<1>3. SUFFICES ASSUME NEW x \in Places, promised'[x] # Empty PROVE Kept(x) \/ Posted(x)
  <2>1. \A u, i : In(image.code, u, {"post"})' = In(image.code, u, {"post"})
    BY <1>1, Behind
  <2> QED BY <1>2, <2>1 DEF MemOk, Empty
<1>4. promised[x] # Empty =>
        \/ mem[x] = promised[x]
        \/ \E u \in Threads : \E i \in In(image.code, u, {"post"}) : OpenPost(u, i) /\ x = <<u[1], PlaceOf(u, i)>>
  BY DEF MemOk
<1>5. ring' = ring => \A u, i : PlaceOf(u, i)' = PlaceOf(u, i)
  BY <1>1, Behind, ZenonT(60)
<1>6. CASE Quiet
  <2>1. \A u \in Threads : \A i : OpenPost(u, i)' <=> OpenPost(u, i)
    <3>1. \A u, i : OpenPost(u, i)' <=> Between(u, i, pc'[u].at) /\ open'[<<PipeAt(u, i), u[1]>>] = 1
      BY <1>1, Behind
    <3> QED BY <1>6, <3>1 DEF Quiet, OpenPost
  <2>2. promised' = promised /\ mem' = mem /\ ring' = ring
    BY <1>6 DEF Quiet
  <2> QED BY <1>3, <1>4, <1>5, <2>1, <2>2
<1>7. ASSUME NEW t \in Threads, SendWrite(t) PROVE Kept(x) \/ Posted(x)
  <2>1. PICK p : p = Current(t).pipe
    OBVIOUS
  <2>2. /\ ring' = ring /\ promised' = promised /\ ToStage(t, "signal")
        /\ mem' = [y \in DOMAIN mem |-> IF y[1] \in Destinations(p) /\ y[2] = table[Slot(p)]
                                        THEN <<p, sent[p] + 1>> ELSE mem[y]]
    BY <1>7, <2>1 DEF SendWrite
  <2>3. /\ p \in prog.pipes /\ p \in Units(prog)
        /\ \A m \in Destinations(p) : open[<<p, m>>] = 1
        /\ \A q \in prog.pipes : \A m \in Destinations(q) : q # p => open'[<<q, m>>] = open[<<q, m>>]
    BY <1>7, <2>1, Written
  <2>4. mem'[x] = IF x[1] \in Destinations(p) /\ x[2] = table[Slot(p)] THEN <<p, sent[p] + 1>> ELSE mem[x]
    BY <2>2 DEF FlowTypes
  <2>5. CASE x[1] \in Destinations(p) /\ x[2] = table[Slot(p)]
    <3>0. PICK u \in Threads : \E i \in In(image.code, u, {"post"}) : u[1] = x[1] /\ PipeAt(u, i) = p /\ OpenPost(u, i)
      BY <2>3, <2>5, OpenOf
    <3>1. PICK i \in In(image.code, u, {"post"}) : u[1] = x[1] /\ PipeAt(u, i) = p /\ OpenPost(u, i)
      BY <3>0
    <3>2. table[Slot(p)] = PlaceOf(u, i) /\ promised[<<u[1], PlaceOf(u, i)>>] = <<p, sent[p] + 1>>
      BY <3>1 DEF AddressOk
    <3>3. x = <<u[1], PlaceOf(u, i)>>
      <4>1. x = <<x[1], x[2]>>
        BY DEF Places
      <4> QED BY <2>5, <3>1, <3>2, <4>1
    <3> QED BY <2>2, <2>4, <2>5, <3>2, <3>3
  <2>6. CASE ~(x[1] \in Destinations(p) /\ x[2] = table[Slot(p)])
    <3>1. mem'[x] = mem[x] /\ promised'[x] = promised[x]
      BY <2>2, <2>4, <2>6
    <3>2. CASE mem[x] = promised[x]
      BY <3>1, <3>2
    <3>3. CASE mem[x] # promised[x]
      <4>0. PICK u \in Threads : \E i \in In(image.code, u, {"post"}) : OpenPost(u, i) /\ x = <<u[1], PlaceOf(u, i)>>
        BY <1>3, <1>4, <3>1, <3>3
      <4>1. PICK i \in In(image.code, u, {"post"}) : OpenPost(u, i) /\ x = <<u[1], PlaceOf(u, i)>>
        BY <4>0
      <4>2. PICK q : q = PipeAt(u, i)
        OBVIOUS
      <4>3. q \in prog.pipes /\ u[1] \in Destinations(q)
        <5>1. i \in Receives(image.code, u, q)
          BY <4>2 DEF Receives, PipeAt
        <5> QED BY <5>1, ReceiverIsThere
      <4>4. x[1] = u[1] /\ x[2] = PlaceOf(u, i)
        BY <4>1
      <4>5. q # p
        <5>1. table[Slot(q)] = PlaceOf(u, i)
          BY <4>1, <4>2 DEF AddressOk
        <5> QED BY <2>6, <4>3, <4>4, <5>1
      <4>6. open'[<<q, u[1]>>] = 1 /\ Between(u, i, pc'[u].at)
        <5>1. pc'[u].at = pc[u].at
          BY <2>2, StageStays
        <5>2. open[<<q, u[1]>>] = 1 /\ Between(u, i, pc[u].at)
          BY <4>1, <4>2 DEF OpenPost
        <5> QED BY <2>3, <4>3, <4>5, <5>1, <5>2
      <4>7. OpenPost(u, i)'
        BY <1>1, <4>2, <4>6, Behind
      <4> QED BY <1>5, <2>2, <4>1, <4>7
    <3> QED BY <3>2, <3>3
  <2> QED BY <2>5, <2>6
<1>8. ASSUME NEW t \in Threads, NEW kind, Passes(t, kind) PROVE Kept(x) \/ Posted(x)
  <2>1. mem' = mem
    BY <1>8, PromisesMove
  <2>2. CASE promised'[x] = promised[x]
    <3>1. CASE mem[x] = promised[x]
      BY <2>1, <2>2, <3>1
    <3>2. CASE mem[x] # promised[x]
      <4>0. PICK u \in Threads : \E i \in In(image.code, u, {"post"}) : OpenPost(u, i) /\ x = <<u[1], PlaceOf(u, i)>>
        BY <1>3, <1>4, <2>2, <3>2
      <4>1. PICK i \in In(image.code, u, {"post"}) : OpenPost(u, i) /\ x = <<u[1], PlaceOf(u, i)>>
        BY <4>0
      <4>2. OpenPost(u, i)' /\ PlaceOf(u, i)' = PlaceOf(u, i)
        BY <1>1, <1>8, <4>1, OpenStays, PlaceStays
      <4> QED BY <4>1, <4>2
    <3> QED BY <3>1, <3>2
  <2>3. CASE promised'[x] # promised[x]
    <3>1. kind = "post" \/ kind = "cb_pop"
      BY <1>8, <2>3, PromisesMove
    <3>2. kind # "cb_pop"
      BY <1>3, <1>8, <2>3, PromisesMove
    <3>3. kind = "post"
      BY <3>1, <3>2
    <3>4. PICK a, p : a = pc[t].at /\ p = PipeAt(t, a)
      OBVIOUS
    <3>5. a \in In(image.code, t, {"post"}) /\ x = <<t[1], PlaceOf(t, a)>> /\ p \in Units(prog)
      BY <1>8, <2>3, <3>3, <3>4, PostPromises
    <3>6. Between(t, a, pc'[t].at)
      <4>1. PICK stage : IsAt(t, kind, stage)
        BY <1>8, Passed
      <4>2. pc'[t] = NextPc(t)
        BY <1>8, Passed
      <4>3. Between(t, a, NextPc(t).at)
        BY <3>4, <3>5, <4>1, BetweenNext DEF DInv
      <4> QED BY <4>2, <4>3
    <3>7. open'[<<p, t[1]>>] = 1
      <4>1. open[<<p, t[1]>>] = 0
        BY <3>4, <3>5, ClosedAtPost
      <4>2. IsAt(t, "post", "op") /\ open' = [open EXCEPT ![<<Current(t).pipe, t[1]>>] = @ + 1]
        BY <1>8, <3>3 DEF Passes, Post
      <4>3. Current(t).pipe = p
        BY <3>4, <4>2, AtInstruction DEF DInv, PipeAt
      <4>4. <<p, t[1]>> \in Ends
        <5>1. a \in Receives(image.code, t, p)
          BY <3>4, <3>5 DEF Receives, PipeAt
        <5> QED BY <5>1, ReceiverIsThere
      <4>5. PICK e : e = <<p, t[1]>>
        OBVIOUS
      <4>6. open' = [open EXCEPT ![e] = @ + 1] /\ e \in DOMAIN open
        BY <4>2, <4>3, <4>4, <4>5 DEF DInv, TypesOk
      <4>7. open'[e] = open[e] + 1
        BY <4>6
      <4> QED BY <4>1, <4>5, <4>7
    <3>8. OpenPost(t, a)'
      BY <1>1, <3>4, <3>6, <3>7, Behind
    <3>9. PlaceOf(t, a)' = PlaceOf(t, a)
      BY <1>5, <1>8, <3>3 DEF Passes, Post
    <3> QED BY <3>5, <3>8, <3>9
  <2> QED BY <2>2, <2>3
<1> QED BY <1>6, <1>7, <1>8, StepEffects

-----------------------------------------------------------------------------
(* The launch: everything is at 0 and every thread at its first            *)
(* instruction.                                                            *)
Fresh ==
  /\ Static
  /\ \A t \in Threads : pc[t] = [round |-> 1, at |-> 1, stage |-> "op"]
  /\ ring = [b \in prog.grid \X Bufs |-> [pushed |-> 0, popped |-> 0]]
  /\ promised = [b \in Places |-> Empty] /\ mem = [b \in Places |-> Empty]
  /\ sent = [p \in prog.pipes |-> 0] /\ open = [e \in Ends |-> 0]
  /\ table = [s \in {Slot(p) : p \in Units(prog)} |-> Empty]

LEMMA FreshFlow ==
  ASSUME Fresh, Layout
  PROVE  FlowInv
<1>1. \A t \in Threads : pc[t].round = 1 /\ pc[t].at = 1
  BY DEF Fresh
<1>2. \A t \in Threads : \A kinds : \A i \in In(image.code, t, kinds) :
        i \in 1 .. Len(image.code[t]) /\ Len(image.code[t]) \in Nat
  BY DEF In, Fresh, Static
<1>3. \A t \in Threads : \A kinds : \A i \in In(image.code, t, kinds) : ~(i < 1)
  BY <1>2
<1>4. FlowTypes
  <2>1. ring \in [prog.grid \X Bufs -> [pushed : Nat, popped : Nat]]
    BY DEF Fresh
  <2> QED BY <2>1 DEF Fresh, FlowTypes
<1>5. RoomOk /\ DataOk
  BY <1>1, <1>3 DEF RoomOk, DataOk, HasBlock
<1>6. ASSUME NEW t \in Threads, NEW X, NEW i \in X, \E kinds : X \subseteq In(image.code, t, kinds)
      PROVE  Ran(X, pc[t].round, pc[t].at) = 0
  <2>1. PICK len : len = Len(image.code[t])
    OBVIOUS
  <2>2. len \in Nat /\ \A x \in X : x \in 1 .. len
    BY <1>2, <1>6, <2>1
  <2>3. 1 \in 1 .. len /\ \A x \in X : x \in Int /\ 1 <= x /\ x <= len
    BY <2>2
  <2>4. Cardinality(X) \in Nat /\ Before(X, 1) = 0
    BY <2>2, <2>3, BeforeNext
  <2> QED BY <1>1, <2>4 DEF Ran
<1>7. PostsOk
  <2> SUFFICES ASSUME NEW t \in Threads, NEW p \in prog.pipes, NEW i \in Receives(image.code, t, p)
               PROVE  sent[p] + open[<<p, t[1]>>] = Ran(Receives(image.code, t, p), pc[t].round, pc[t].at)
    BY DEF PostsOk
  <2>1. <<p, t[1]>> \in Ends
    <3>1. i \in In(image.code, t, {"post", "wait"}) /\ image.code[t][i].pipe = p
      BY DEF Receives, In
    <3>2. t[1] \in Destinations(p)
      BY <3>1 DEF Fresh, Static
    <3> QED BY <3>2 DEF Ends
  <2>2. sent[p] = 0 /\ open[<<p, t[1]>>] = 0
    BY <2>1 DEF Fresh
  <2>3. Receives(image.code, t, p) \subseteq In(image.code, t, {"post"})
    BY DEF Receives
  <2> QED BY <1>6, <2>2, <2>3
<1>8. PushesOk
  <2> SUFFICES ASSUME NEW t \in Threads, NEW i \in In(image.code, t, Fills)
               PROVE  ring[<<t[1], BufAt(t, i)>>].pushed = Ran(Pushes(image.code, t, BufAt(t, i)), pc[t].round, pc[t].at)
    BY DEF PushesOk
  <2>1. i \in In(image.code, t, Fills \cup Empties)
    BY DEF In
  <2>2. ring[<<t[1], BufAt(t, i)>>].pushed = 0
    BY <2>1 DEF Fresh, Layout
  <2>3. PICK X, len : X = Pushes(image.code, t, BufAt(t, i)) /\ len = Len(image.code[t])
    OBVIOUS
  <2>4. 1 \in 1 .. len /\ len \in Nat
    BY <1>2, <2>3
  <2>5. \A x \in X : x \in Int /\ 1 <= x /\ x <= len
    BY <1>2, <2>3 DEF Pushes
  <2>6. Cardinality(X) \in Nat /\ Before(X, 1) = 0
    BY <2>4, <2>5, BeforeNext
  <2> QED BY <1>1, <2>2, <2>3, <2>6 DEF Ran
<1>9. AddressOk
  BY <1>1, <1>3 DEF AddressOk, OpenPost, Between
<1>10. MemOk
  BY DEF MemOk, Fresh
<1> QED BY <1>4, <1>5, <1>7, <1>8, <1>9, <1>10 DEF FlowInv

LEMMA LaunchIsFresh ==
  ASSUME PInv', Static', Convert, phase' = "running"
  PROVE  Fresh'
<1> DEFINE plan == ResourcePlan(prog)
           code == [t \in Threads |-> Code(t)]
<1>1. prog' = prog /\ LaunchWith(plan, code)
  BY DEF Convert
<1> HIDE DEF plan, code
<1>2. /\ image'.plan = plan
      /\ pc' = [t \in Threads |-> [round |-> 1, at |-> 1, stage |-> "op"]]
      /\ ring' = [b \in prog.grid \X Bufs |-> [pushed |-> 0, popped |-> 0]]
      /\ promised' = [b \in Places |-> Empty] /\ mem' = [b \in Places |-> Empty]
      /\ sent' = [p \in prog.pipes |-> 0] /\ open' = [e \in Ends |-> 0]
      /\ table' = [s \in {<<p.src, plan[p].slot>> : p \in DOMAIN plan} |-> Empty]
  BY <1>1 DEF LaunchWith
<1>3. Threads' = Threads /\ Ends' = Ends /\ Bufs' = Bufs /\ Tiles' = Tiles
  BY <1>1 DEF Threads, Ends, Bufs, Tiles
<1>4. Places' = Places
  BY <1>1, <1>3 DEF Places
<1>5. DOMAIN plan = Units(prog)
  BY <1>1, <1>2 DEF PInv, PlanTakesTurns
<1>6. {Slot(p) : p \in Units(prog)}' = {<<p.src, plan[p].slot>> : p \in DOMAIN plan}
  BY <1>1, <1>2, <1>5 DEF Slot
<1>7. \A t \in Threads : pc'[t] = [round |-> 1, at |-> 1, stage |-> "op"]
  BY <1>2
<1>8. Empty' = Empty
  BY DEF Empty
<1> QED BY <1>1, <1>2, <1>3, <1>4, <1>6, <1>7, <1>8 DEF Fresh

LEMMA FlowRests ==
  ASSUME FlowInv, UNCHANGED vars
  PROVE  FlowInv'
<1>1. /\ prog' = prog /\ image' = image /\ pc' = pc /\ table' = table /\ mem' = mem /\ ring' = ring
      /\ promised' = promised /\ sent' = sent /\ open' = open
  BY DEF vars, machine, history
<1>2. UNCHANGED compiled
  BY DEF vars, compiled
<1>3. Threads' = Threads /\ Bufs' = Bufs /\ Places' = Places /\ \A p : Slot(p)' = Slot(p)
  BY <1>2, SameLayout
<1>4. /\ \A u, i : PipeAt(u, i)' = PipeAt(u, i) /\ PlaceOf(u, i)' = PlaceOf(u, i) /\ BufAt(u, i)' = BufAt(u, i)
      /\ \A x : Filling(x)' = Filling(x)
  BY <1>1 DEF PipeAt, PlaceOf, BufAt, Target, Filling
<1>5. \A u, i : OpenPost(u, i)' <=> OpenPost(u, i)
  BY <1>1, <1>4 DEF OpenPost, Between, In
<1>6. FlowTypes'
  <2>1. Units(prog)' = Units(prog)
    BY <1>1
  <2> QED BY <1>1, <1>3, <2>1 DEF FlowInv, FlowTypes
<1>7. RoomOk' /\ DataOk'
  BY <1>1, <1>3, <1>4 DEF FlowInv, RoomOk, DataOk, HasBlock, In
<1>8. PostsOk' /\ PushesOk'
  <2>1. \A X, r, a : Ran(X, r, a)' = Ran(X, r, a)
    BY DEF Ran, Before
  <2>2. /\ \A u, kinds : In(image.code, u, kinds)' = In(image.code, u, kinds)
        /\ \A u, p : Receives(image.code, u, p)' = Receives(image.code, u, p)
        /\ \A u, b : Pushes(image.code, u, b)' = Pushes(image.code, u, b)
    BY <1>1 DEF In, Receives, Pushes
  <2>3. PostsOk'
    BY <1>1, <1>3, <2>2 DEF FlowInv, PostsOk, Ran, Before
  <2>4. PushesOk'
    BY <1>1, <1>3, <1>4, <2>2 DEF FlowInv, PushesOk, Ran, Before
  <2> QED BY <2>3, <2>4
<1>9. AddressOk'
  BY <1>1, <1>3, <1>4, <1>5 DEF FlowInv, AddressOk, In
<1>10. MemOk'
  BY <1>1, <1>3, <1>4, <1>5 DEF FlowInv, MemOk, In, Empty
<1> QED BY <1>6, <1>7, <1>8, <1>9, <1>10 DEF FlowInv

(* In a running module whose collective receivers move in step the code is *)
(* laid out as the passes require; and if it is orderly, blocks, addresses *)
(* and data flow as FlowInv says.                                          *)
LayoutHolds == (phase = "running" /\ image.uniform) => Layout
FlowHolds == (phase = "running" /\ image.orderly /\ image.uniform) => FlowInv

LEMMA RunKeepsFlow ==
  ASSUME Running, Layout, DInv, FlowInv, Run
  PROVE  FlowInv'
<1>1. FlowTypes /\ RoomOk /\ DataOk /\ PostsOk /\ PushesOk /\ AddressOk /\ MemOk
  BY DEF FlowInv
<1>2. FlowTypes'
  BY <1>1, TypesKeep
<1>3. RoomOk' /\ DataOk'
  BY <1>1, RoomKeeps
<1>4. PostsOk'
  BY <1>1, PostsKeep
<1>5. PushesOk'
  BY <1>1, PushesKeep
<1>6. AddressOk'
  BY <1>1, AddressKeeps
<1>7. MemOk'
  BY <1>1, MemKeeps
<1> QED BY <1>2, <1>3, <1>4, <1>5, <1>6, <1>7 DEF FlowInv

(* The inductive invariant of the blocks, addresses and data of a module   *)
(* whose code brackets its blocks.                                         *)
THEOREM BlocksFlow ==
  ASSUME ModulesOk, PlansOk, BlocksOk
  PROVE  Spec => [](Reliable /\ IInv /\ PInv /\ DeviceInv /\ LayoutHolds /\ FlowHolds)
<1>1. Init => FlowHolds
  BY DEF Init, FlowHolds
<1>2. IInv /\ PInv /\ BInv /\ OneThreadPerEnd /\ Reliable => LayoutHolds
  BY LaysOut DEF LayoutHolds, Reliable
<1>3. Fresh /\ Layout => FlowInv
  BY FreshFlow
<1>4. ASSUME IInv, PInv, Reliable, DeviceInv, LayoutHolds, FlowHolds, PInv', Reliable', LayoutHolds',
             Fresh' /\ Layout' => FlowInv', [Next]_vars
      PROVE  FlowHolds'
  <2> SUFFICES ASSUME phase' = "running", image'.orderly, image'.uniform PROVE FlowInv'
    BY DEF FlowHolds
  <2>1. CASE InsertWaits \/ VerifyGuards \/ VerifySPSC
    BY <2>1 DEF InsertWaits, VerifyGuards, VerifySPSC
  <2>2. CASE Convert
    <3>1. Fresh'
      BY <1>4, <2>2, LaunchIsFresh DEF Reliable
    <3>2. Layout'
      BY <1>4 DEF LayoutHolds
    <3> QED BY <1>4, <3>1, <3>2
  <2>3. CASE Run
    <3>1. phase = "running" /\ image.orderly /\ image.uniform
      BY <2>3, RunKeepsCompiled DEF compiled
    <3>2. Running
      BY <1>4, <3>1 DEF Running, PInv, Reliable
    <3>3. Layout /\ DInv /\ FlowInv
      BY <1>4, <3>1 DEF LayoutHolds, DeviceInv, FlowHolds
    <3> QED BY <2>3, <3>2, <3>3, RunKeepsFlow
  <2>4. CASE UNCHANGED vars
    <3>1. phase = "running" /\ image.orderly /\ image.uniform
      BY <2>4 DEF vars
    <3>2. FlowInv
      BY <1>4, <3>1 DEF FlowHolds
    <3> QED BY <2>4, <3>2, FlowRests
  <2> QED BY <1>4, <2>1, <2>2, <2>3, <2>4 DEF Next, Compile
<1>5. Spec => []IInv
  BY Invariance
<1>6. Spec => []PInv
  BY Planning
<1>7. Spec => []BInv
  BY Bracketing
<1>8. Spec => []OneThreadPerEnd
  BY OneThread
<1>9. Spec => [](Reliable /\ DeviceInv)
  BY CountersCount
<1> QED BY <1>1, <1>2, <1>3, <1>4, <1>5, <1>6, <1>7, <1>8, <1>9, PTL DEF Spec

(* A send that has found all its posts writes to the place that each of    *)
(* its receivers has posted for this transfer: the entry of the address    *)
(* table is of this pipe, and of this round of it (PipeLowering).          *)
THEOREM SendsFindTheirAddress ==
  ASSUME ModulesOk, PlansOk, BlocksOk
  PROVE  Spec => []AddressIsOfThisPipe
<1>1. ASSUME Reliable, PInv, DeviceInv, LayoutHolds, FlowHolds PROVE AddressIsOfThisPipe
  <2> SUFFICES ASSUME phase = "running", image.uniform, image.orderly, NEW t \in Threads, IsAt(t, "send", "write"),
                      NEW n \in Destinations(Current(t).pipe)
               PROVE  LET p == Current(t).pipe IN promised[<<n, table[Slot(p)]>>] = <<p, sent[p] + 1>>
    BY DEF AddressIsOfThisPipe
  <2>1. Running /\ DInv /\ Layout /\ FlowInv
    BY <1>1 DEF Running, PInv, Reliable, DeviceInv, LayoutHolds, FlowHolds
  <2>2. PICK p : p = Current(t).pipe
    OBVIOUS
  <2>3. p \in prog.pipes /\ n \in Destinations(p)
    BY <2>1, <2>2, AtSend DEF DInv
  <2>4. open[<<p, n>>] = 1
    <3>1. Sending(t, p, "write")
      BY <2>2 DEF Sending, IsAt
    <3> QED BY <2>1, <2>3, <3>1 DEF DInv, SendsOk
  <2>5. PICK u \in Threads : \E i \in In(image.code, u, {"post"}) :
          u[1] = n /\ PipeAt(u, i) = p /\ OpenPost(u, i)
    BY <2>1, <2>3, <2>4, OpenOf
  <2>6. PICK i \in In(image.code, u, {"post"}) : u[1] = n /\ PipeAt(u, i) = p /\ OpenPost(u, i)
    BY <2>5
  <2>7. AddressOk
    BY <2>1 DEF FlowInv
  <2>8. table[Slot(p)] = PlaceOf(u, i) /\ promised[<<n, PlaceOf(u, i)>>] = <<p, sent[p] + 1>>
    BY <2>6, <2>7 DEF AddressOk
  <2> QED BY <2>2, <2>8
<1>2. Spec => [](Reliable /\ IInv /\ PInv /\ DeviceInv /\ LayoutHolds /\ FlowHolds)
  BY BlocksFlow
<1> QED BY <1>1, <1>2, PTL

(* The same of a state: what a thread is about to pop is there.            *)
PopsItsData ==
  (phase = "running" /\ image.orderly /\ image.uniform) =>
    \A t \in Threads : IsAt(t, "cb_pop", "op") =>
      \A place \in ReadBlock(t[1], Current(t).buf) : promised[place] # Empty => mem[place] = promised[place]

(* A consumer that pops a block finds in it the transfer that was posted   *)
(* for it (lowerPipeTransferPost, Send, Wait): data is not early, late,    *)
(* elsewhere or written over.                                              *)
THEOREM ConsumersGetTheirTransfer ==
  ASSUME ModulesOk, PlansOk, BlocksOk
  PROVE  Spec => ConsumerGetsItsTransfer
<1>1. ASSUME Reliable, PInv, DeviceInv, LayoutHolds, FlowHolds PROVE PopsItsData
  <2> SUFFICES ASSUME phase = "running", image.uniform, image.orderly, NEW t \in Threads, IsAt(t, "cb_pop", "op"),
                      NEW x \in ReadBlock(t[1], Current(t).buf), promised[x] # Empty, mem[x] # promised[x]
               PROVE  FALSE
    BY DEF PopsItsData
  <2>1. Running /\ DInv /\ Layout /\ FlowInv
    BY <1>1 DEF Running, PInv, Reliable, DeviceInv, LayoutHolds, FlowHolds
  <2>2. FlowTypes /\ RoomOk /\ DataOk /\ MemOk
    BY <2>1 DEF FlowInv
  <2>3. x \in Places
    BY <2>2 DEF ReadBlock, FlowTypes
  <2>4. PICK u \in Threads : \E i \in In(image.code, u, {"post"}) : OpenPost(u, i) /\ x = <<u[1], PlaceOf(u, i)>>
    BY <2>2, <2>3 DEF MemOk
  <2>5. PICK i \in In(image.code, u, {"post"}) : OpenPost(u, i) /\ x = <<u[1], PlaceOf(u, i)>>
    BY <2>4
  <2>6. Current(t).buf = BufAt(t, pc[t].at)
    BY <2>1, AtInstruction DEF DInv, BufAt
  <2>7. x \notin ReadBlock(t[1], BufAt(t, pc[t].at))
    BY <2>1, <2>2, <2>5, PopsElsewhere
  <2> QED BY <2>6, <2>7
<1>2. ASSUME Reliable, DeviceInv, PopsItsData
      PROVE  [\A t \in DOMAIN pc :
                (IsAt(t, "cb_pop", "op") /\ pc'[t] # pc[t] /\ image.orderly /\ image.uniform) =>
                  \A place \in ReadBlock(t[1], Current(t).buf) :
                    promised[place] # Empty => mem[place] = promised[place]]_vars
  <2> SUFFICES ASSUME NEW t \in DOMAIN pc, IsAt(t, "cb_pop", "op"), image.orderly, image.uniform,
                      NEW place \in ReadBlock(t[1], Current(t).buf), promised[place] # Empty
               PROVE  mem[place] = promised[place]
    OBVIOUS
  <2>1. phase = "running"
    BY DEF IsAt
  <2>2. t \in Threads
    BY <1>2, <2>1 DEF DeviceInv, DInv, TypesOk
  <2> QED BY <1>2, <2>1, <2>2 DEF PopsItsData
<1>3. Spec => [](Reliable /\ IInv /\ PInv /\ DeviceInv /\ LayoutHolds /\ FlowHolds)
  BY BlocksFlow
<1> QED BY <1>1, <1>2, <1>3, PTL DEF ConsumerGetsItsTransfer
=============================================================================
