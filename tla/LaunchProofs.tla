---------------------------- MODULE LaunchProofs ----------------------------
(***************************************************************************)
(* A cached kernel was compiled for a call that its key takes for the one  *)
(* it serves, and a call that is in order does not fail, after any calls,  *)
(* bodies that raise half way and threads decorated elsewhere.             *)
(*                                                                         *)
(* The invariant follows a kernel from the body to the cache: while the    *)
(* body runs, the global list holds exactly the threads decorated so far,  *)
(* and the buffers made so far have consecutive indices; when the threads  *)
(* are collected this becomes a fact of the build, and in the cache one of *)
(* a call with the kernel's key.                                           *)
(* For the second result it also follows the sizes of the buffers, so that *)
(* what a kernel needs is the sum the call's options and operation say.    *)
(***************************************************************************)
EXTENDS Launch, FiniteSetTheorems, WellFoundedInduction, TLAPS

-----------------------------------------------------------------------------
(* Counting the items of a kind among the first of a body.                 *)
LEMMA PlacesAreFinite ==
  ASSUME NEW items, NEW n \in Nat, NEW do
  PROVE  IsFiniteSet(Places(items, n, do)) /\ Cardinality(Places(items, n, do)) \in Nat
<1>1. IsFiniteSet(1 .. n)
  BY FS_Interval
<1>2. Places(items, n, do) \in SUBSET (1 .. n)
  BY DEF Places
<1>3. IsFiniteSet(Places(items, n, do))
  BY <1>1, <1>2, FS_Subset
<1> QED BY <1>3, FS_CardinalityType

LEMMA NoPlaces ==
  ASSUME NEW items, NEW do
  PROVE  Places(items, 0, do) = {} /\ Cardinality(Places(items, 0, do)) = 0
<1>1. Places(items, 0, do) = {}
  BY DEF Places
<1> QED BY <1>1, FS_EmptySet

LEMMA PlacesGrow ==
  ASSUME NEW items, NEW n \in Nat, NEW do, items[n + 1].do = do
  PROVE  /\ Places(items, n + 1, do) = Places(items, n, do) \cup {n + 1}
         /\ Cardinality(Places(items, n + 1, do)) = Cardinality(Places(items, n, do)) + 1
<1>1. Places(items, n + 1, do) = Places(items, n, do) \cup {n + 1}
  BY DEF Places
<1>2. n + 1 \notin Places(items, n, do)
  BY DEF Places
<1> QED BY <1>1, <1>2, PlacesAreFinite, FS_AddElement

LEMMA PlacesStay ==
  ASSUME NEW items, NEW n \in Nat, NEW do, items[n + 1].do # do
  PROVE  Places(items, n + 1, do) = Places(items, n, do)
BY DEF Places

LEMMA RankInRange ==
  ASSUME NEW items, NEW n \in Nat, NEW do, NEW j \in Places(items, n, do)
  PROVE  Cardinality(Places(items, j, do)) \in 1 .. Cardinality(Places(items, n, do))
<1>1. j \in Nat /\ j <= n /\ j \in Places(items, j, do)
  BY DEF Places
<1>2. Places(items, j, do) \in SUBSET Places(items, n, do)
  BY <1>1 DEF Places
<1>3. Cardinality(Places(items, j, do)) <= Cardinality(Places(items, n, do))
  BY <1>2, PlacesAreFinite, FS_Subset
<1>4. Cardinality(Places(items, j, do)) # 0
  BY <1>1, PlacesAreFinite, FS_EmptySet
<1> QED BY <1>1, <1>3, <1>4, PlacesAreFinite

(* The least of a set of numbers.                                          *)
LEMMA NatMin ==
  ASSUME NEW T \in SUBSET Nat, T # {}
  PROVE  \E m \in T : \A k \in T : m <= k
<1> DEFINE R == StrictSubsetOrdering(Nat)
           Below == {0 .. n : n \in T}
<1>1. IsWellFoundedOn(R, FiniteSubsetsOf(Nat))
  BY FS_StrictSubsetOrderingWellFounded
<1>2. Below \subseteq FiniteSubsetsOf(Nat)
  <2> SUFFICES ASSUME NEW n \in T PROVE 0 .. n \in FiniteSubsetsOf(Nat)
    OBVIOUS
  <2>1. IsFiniteSet(0 .. n)
    BY FS_Interval
  <2> QED
    BY <2>1 DEF FiniteSubsetsOf
<1>3. Below # {}
  OBVIOUS
<1>4. PICK x \in Below : \A y \in Below : <<y, x>> \notin R
  <2> HIDE DEF R, Below
  <2> QED BY <1>1, <1>2, <1>3, WFMin
<1>5. PICK m \in T : x = 0 .. m
  OBVIOUS
<1>6. ASSUME NEW k \in T PROVE m <= k
  <2> SUFFICES ASSUME k < m PROVE FALSE
    OBVIOUS
  <2>1. 0 .. k \in SUBSET Nat /\ 0 .. m \in SUBSET Nat
    OBVIOUS
  <2>2. 0 .. k \subseteq 0 .. m /\ 0 .. k # 0 .. m
    <3>1. m \in 0 .. m /\ m \notin 0 .. k
      OBVIOUS
    <3> QED BY <3>1
  <2>3. <<0 .. k, 0 .. m>> \in R
    BY <2>1, <2>2 DEF StrictSubsetOrdering
  <2> QED BY <1>4, <1>5, <2>3
<1> QED BY <1>6

(* A set of numbers with a bound has a greatest one.                       *)
LEMMA MaxIsThere ==
  ASSUME NEW S \in SUBSET Nat, S # {}, NEW N \in Nat, \A x \in S : x <= N
  PROVE  Max(S) \in S /\ \A y \in S : Max(S) >= y
<1> DEFINE T == {N - x : x \in S}
<1>1. T \in SUBSET Nat /\ T # {}
  <2>1. ASSUME NEW x \in S PROVE N - x \in Nat
    BY x <= N, x \in Nat
  <2>2. T # {}
    OBVIOUS
  <2> QED BY <2>1, <2>2
<1>2. PICK m \in T : \A k \in T : m <= k
  <2> HIDE DEF T
  <2> QED BY <1>1, NatMin
<1>3. PICK x \in S : m = N - x
  OBVIOUS
<1>4. \A y \in S : x >= y
  <2> SUFFICES ASSUME NEW y \in S PROVE x >= y
    OBVIOUS
  <2>1. m <= N - y
    BY <1>2
  <2> QED BY <1>3, <2>1
<1> QED BY <1>4 DEF Max

-----------------------------------------------------------------------------
(* Buffers with consecutive indices: each one captured is configured at    *)
(* its own index.                                                          *)
LEMMA ConfigsAre ==
  ASSUME NEW made, NEW D, Len(made) \in Nat, \A i \in 1 .. Len(made) : made[i].index = i - 1,
         D \subseteq {made[i] : i \in 1 .. Len(made)}
  PROVE  /\ Len(Configs(D)) \in Nat /\ Configs(D) = [i \in 1 .. Len(Configs(D)) |-> Configs(D)[i]]
         /\ \A d \in D : d.index + 1 \in 1 .. Len(Configs(D)) /\ Configs(D)[d.index + 1] = d
<1> DEFINE S == {0} \cup {d.index + 1 : d \in D}
           M == Max(S)
<1>1. \A d \in D : d.index + 1 \in 1 .. Len(made) /\ d = made[d.index + 1]
  OBVIOUS
<1>2. M \in S /\ \A y \in S : M >= y
  <2>1. S \in SUBSET Nat /\ S # {} /\ \A x \in S : x <= Len(made)
    BY <1>1
  <2> HIDE DEF S
  <2> QED BY <2>1, MaxIsThere
<1>3. M \in Nat
  BY <1>1, <1>2
<1>4. Configs(D) = [i \in 1 .. M |-> IF \E d \in D : d.index = i - 1
                                      THEN CHOOSE d \in D : d.index = i - 1 ELSE None]
  BY DEF Configs
<1>5. \A d \in D : d.index + 1 <= M
  BY <1>2
<1> HIDE DEF M, S
<1>6. Len(Configs(D)) = M /\ DOMAIN Configs(D) = 1 .. M /\ Configs(D) = [i \in 1 .. M |-> Configs(D)[i]]
  BY <1>3, <1>4
<1>7. ASSUME NEW d \in D PROVE d.index + 1 \in 1 .. M /\ Configs(D)[d.index + 1] = d
  <2>1. d.index + 1 \in 1 .. M
    BY <1>1, <1>3, <1>5
  <2>2. \A e \in D : e.index = (d.index + 1) - 1 => e = d
    BY <1>1
  <2>3. (CHOOSE e \in D : e.index = (d.index + 1) - 1) = d
    BY <1>1, <2>2
  <2>4. Configs(D)[d.index + 1] = CHOOSE e \in D : e.index = (d.index + 1) - 1
    BY <1>1, <1>4, <2>1
  <2> QED BY <2>1, <2>3, <2>4
<1> QED BY <1>3, <1>6, <1>7

-----------------------------------------------------------------------------
(* While a body runs: what it has made and decorated after n items.        *)
Buffers(items) ==
  [made : Nat, index : Nat, tiles : {items[j].tiles : j \in Nat},
   blocks : {items[j].blocks : j \in Nat}]
Decorated(items) ==
  [made : Nat, kind : {items[j].kind : j \in Nat}, dfbs : SUBSET Buffers(items),
   tensors : {items[j].tensors : j \in Nat}, compiles : {items[j].compiles : j \in Nat}]

ThreadAt(items, j, t) ==
  /\ t.kind = items[j].kind /\ t.tensors = items[j].tensors
  /\ items[j].dfbs # {} => t.dfbs # {}

Follows(items, n, m, made, registry) ==
  /\ made \in Seq(Buffers(items)) /\ Len(made) = Cardinality(Places(items, n, "dfb"))
  /\ \A i \in 1 .. Len(made) : made[i].index = i - 1
  /\ registry \in Seq(Decorated(items)) /\ Len(registry) = Cardinality(Places(items, n, "thread"))
  /\ \A i \in 1 .. Len(registry) :
       registry[i].made = m /\ registry[i].dfbs \subseteq {made[k] : k \in 1 .. Len(made)}
  /\ \A j \in Places(items, n, "thread") : ThreadAt(items, j, registry[Cardinality(Places(items, j, "thread"))])

LEMMA FollowsFromTheStart ==
  ASSUME NEW items, NEW m
  PROVE  Follows(items, 0, m, <<>>, <<>>)
BY NoPlaces DEF Follows

LEMMA FollowsDfb ==
  ASSUME NEW items, NEW n \in Nat, NEW m \in Nat, NEW made, NEW registry, Follows(items, n, m, made, registry),
         items[n + 1].do = "dfb"
  PROVE  LET item == items[n + 1]
         IN  Follows(items, n + 1, m,
                     Append(made, [made |-> m, index |-> Len(made), tiles |-> item.tiles, blocks |-> item.blocks]),
                     registry)
<1> DEFINE item == items[n + 1]
           d == [made |-> m, index |-> Len(made), tiles |-> item.tiles, blocks |-> item.blocks]
           S == Buffers(items)
<1>1. made \in Seq(S) /\ Len(made) \in Nat
  BY DEF Follows
<1>2. d \in S /\ d.index = Len(made)
  BY <1>1, SMTT(30) DEF Buffers
<1> HIDE DEF d, S
<1>3. /\ Append(made, d) \in Seq(S) /\ Len(Append(made, d)) = Len(made) + 1
      /\ \A i \in 1 .. Len(made) : Append(made, d)[i] = made[i]
      /\ Append(made, d)[Len(made) + 1] = d
  BY <1>1, <1>2
<1>4. /\ Cardinality(Places(items, n + 1, "dfb")) = Cardinality(Places(items, n, "dfb")) + 1
      /\ Places(items, n + 1, "thread") = Places(items, n, "thread")
  <2>1. Cardinality(Places(items, n + 1, "dfb")) = Cardinality(Places(items, n, "dfb")) + 1
    BY PlacesGrow
  <2>2. Places(items, n + 1, "thread") = Places(items, n, "thread")
    BY PlacesStay
  <2> QED BY <2>1, <2>2
<1>5. \A i \in 1 .. Len(Append(made, d)) : Append(made, d)[i].index = i - 1
  BY <1>1, <1>2, <1>3 DEF Follows
<1>6. ASSUME NEW i \in 1 .. Len(registry)
      PROVE  /\ registry[i].made = m
             /\ registry[i].dfbs \subseteq {Append(made, d)[k] : k \in 1 .. Len(Append(made, d))}
  <2>1. registry[i].made = m /\ registry[i].dfbs \subseteq {made[k] : k \in 1 .. Len(made)}
    BY DEF Follows
  <2>2. \A k \in 1 .. Len(made) : k \in 1 .. Len(Append(made, d)) /\ Append(made, d)[k] = made[k]
    BY <1>1, <1>3
  <2> QED BY <2>1, <2>2
<1>7. Append(made, d) \in Seq(Buffers(items)) /\ Len(Append(made, d)) = Cardinality(Places(items, n + 1, "dfb"))
  BY <1>3, <1>4 DEF Follows, S
<1>8. Follows(items, n + 1, m, Append(made, d), registry)
  BY <1>4, <1>5, <1>6, <1>7 DEF Follows
<1> QED BY <1>8 DEF d

LEMMA FollowsThread ==
  ASSUME NEW items, NEW n \in Nat, NEW m \in Nat, NEW made, NEW registry, Follows(items, n, m, made, registry),
         items[n + 1].do = "thread",
         items[n + 1].dfbs \subseteq 1 .. Cardinality(Places(items, n + 1, "dfb"))
  PROVE  LET item == items[n + 1]
         IN  Follows(items, n + 1, m, made,
                     Append(registry, [made |-> m, kind |-> item.kind, dfbs |-> {made[i] : i \in item.dfbs},
                                       tensors |-> item.tensors, compiles |-> item.compiles]))
<1> DEFINE item == items[n + 1]
           t == [made |-> m, kind |-> item.kind, dfbs |-> {made[i] : i \in item.dfbs},
                 tensors |-> item.tensors, compiles |-> item.compiles]
           S == Decorated(items)
           rank(j) == Cardinality(Places(items, j, "thread"))
<1>1. registry \in Seq(S) /\ Len(registry) \in Nat /\ made \in Seq(Buffers(items)) /\ Len(made) \in Nat
  BY DEF Follows
<1>2. /\ Places(items, n + 1, "thread") = Places(items, n, "thread") \cup {n + 1}
      /\ rank(n + 1) = Len(registry) + 1
      /\ Places(items, n + 1, "dfb") = Places(items, n, "dfb")
  <2>1. Places(items, n + 1, "dfb") = Places(items, n, "dfb")
    BY PlacesStay
  <2>2. Places(items, n + 1, "thread") = Places(items, n, "thread") \cup {n + 1}
    BY DEF Places
  <2>3. Cardinality(Places(items, n + 1, "thread")) = Cardinality(Places(items, n, "thread")) + 1
    BY PlacesGrow
  <2>4. Len(registry) = Cardinality(Places(items, n, "thread"))
    BY DEF Follows
  <2> QED BY <2>1, <2>2, <2>3, <2>4
<1>3. item.dfbs \subseteq 1 .. Len(made)
  BY <1>2 DEF Follows
<1>4. t.dfbs \subseteq {made[k] : k \in 1 .. Len(made)} /\ t.made = m /\ ThreadAt(items, n + 1, t)
  BY <1>3 DEF ThreadAt
<1>5. t \in S
  <2>1. \A k \in 1 .. Len(made) : made[k] \in Buffers(items)
    BY <1>1
  <2> DEFINE E == {made[i] : i \in item.dfbs}
  <2>2. E \in SUBSET Buffers(items)
    BY <1>3, <2>1
  <2>3. t = [made |-> m, kind |-> item.kind, dfbs |-> E, tensors |-> item.tensors, compiles |-> item.compiles]
    OBVIOUS
  <2> HIDE DEF E, t
  <2>4. n + 1 \in Nat
    OBVIOUS
  <2> QED BY <2>2, <2>3, <2>4 DEF Decorated
<1> HIDE DEF t, S, item
<1>6. /\ Append(registry, t) \in Seq(S) /\ Len(Append(registry, t)) = Len(registry) + 1
      /\ \A i \in 1 .. Len(registry) : Append(registry, t)[i] = registry[i]
      /\ Append(registry, t)[Len(registry) + 1] = t
  BY <1>1, <1>5
<1>7. ASSUME NEW i \in 1 .. Len(Append(registry, t))
      PROVE  /\ Append(registry, t)[i].made = m
             /\ Append(registry, t)[i].dfbs \subseteq {made[k] : k \in 1 .. Len(made)}
  <2>1. CASE i \in 1 .. Len(registry)
    <3>1. Append(registry, t)[i] = registry[i]
      BY <1>6, <2>1
    <3> QED BY <2>1, <3>1 DEF Follows
  <2>2. CASE i = Len(registry) + 1
    <3>1. Append(registry, t)[i] = t
      BY <1>6, <2>2
    <3> QED BY <1>4, <3>1
  <2> QED BY <1>1, <1>6, <2>1, <2>2, SMTT(30)
<1>8. ASSUME NEW j \in Places(items, n + 1, "thread")
      PROVE  ThreadAt(items, j, Append(registry, t)[rank(j)])
  <2>1. CASE j \in Places(items, n, "thread")
    <3>1. rank(j) \in 1 .. Len(registry)
      BY <2>1, RankInRange DEF Follows
    <3>2. Append(registry, t)[rank(j)] = registry[rank(j)]
      BY <1>6, <3>1
    <3> QED BY <2>1, <3>2 DEF Follows
  <2>2. CASE j = n + 1
    BY <1>2, <1>4, <1>6, <2>2
  <2> QED BY <1>2, <2>1, <2>2
<1>9. /\ Append(registry, t) \in Seq(Decorated(items))
      /\ Len(Append(registry, t)) = rank(n + 1)
      /\ Len(made) = Cardinality(Places(items, n + 1, "dfb"))
  BY <1>1, <1>2, <1>6 DEF S, Follows
<1>10. /\ made \in Seq(Buffers(items)) /\ \A i \in 1 .. Len(made) : made[i].index = i - 1
  BY DEF Follows
<1>11. Follows(items, n + 1, m, made, Append(registry, t))
  BY <1>7, <1>8, <1>9, <1>10 DEF Follows
<1> QED BY <1>11 DEF t, item

-----------------------------------------------------------------------------
(* The threads and buffers of a build are those of one body.               *)
Collected(items, k) ==
  LET threads == Places(items, Len(items), "thread")
  IN  /\ k.threads \in Seq(Decorated(items)) /\ Len(k.threads) = Cardinality(threads)
      /\ \A i, j \in DOMAIN k.threads : k.threads[i].made = k.threads[j].made
      /\ \A j \in threads : ThreadAt(items, j, k.threads[Cardinality(Places(items, j, "thread"))])
      /\ Len(k.configs) \in Nat /\ k.configs = [i \in 1 .. Len(k.configs) |-> k.configs[i]]
      /\ \A d \in Captured(k.threads) : d.index + 1 \in 1 .. Len(k.configs) /\ k.configs[d.index + 1] = d

(* A body that has run to its end leaves such a build; without any buffer  *)
(* captured there is none.                                                 *)
LEMMA CollectedFromBody ==
  ASSUME CallsOk, NEW c \in Calls, NEW m, NEW made, NEW registry,
         Follows(Run(c).body, Len(Run(c).body), m, made, registry),
         NEW k, k.threads = registry, k.configs = Configs(Captured(registry))
  PROVE  /\ Collected(Run(c).body, k)
         /\ k.configs = <<>> => Len(made) = 0
<1> DEFINE body == Run(c).body
           D == Captured(registry)
           rank(j) == Cardinality(Places(Run(c).body, j, "thread"))
<1>1. /\ made \in Seq(Buffers(Run(c).body)) /\ Len(made) = Cardinality(Places(Run(c).body, Len(body), "dfb"))
      /\ \A i \in 1 .. Len(made) : made[i].index = i - 1
      /\ registry \in Seq(Decorated(Run(c).body)) /\ Len(registry) = rank(Len(body))
      /\ \A i \in 1 .. Len(registry) :
           registry[i].made = m /\ registry[i].dfbs \subseteq {made[i2] : i2 \in 1 .. Len(made)}
      /\ \A j \in Places(Run(c).body, Len(body), "thread") : ThreadAt(Run(c).body, j, registry[rank(j)])
  BY DEF Follows
<1>2. DOMAIN registry = 1 .. Len(registry) /\ Len(made) \in Nat /\ Len(registry) \in Nat
  BY <1>1
<1>3. Len(body) \in Nat
  BY DEF CallsOk
<1>4. \A i \in 1 .. Len(registry) : registry[i].dfbs \subseteq D
  BY <1>2 DEF Captured, ToSet
<1>5. D \subseteq {made[i] : i \in 1 .. Len(made)}
  <2> SUFFICES ASSUME NEW d \in D PROVE d \in {made[i] : i \in 1 .. Len(made)}
    OBVIOUS
  <2>1. PICK i \in 1 .. Len(registry) : d \in registry[i].dfbs
    BY <1>2 DEF Captured, ToSet
  <2> QED BY <1>1, <2>1
<1> HIDE DEF D
<1>6. /\ Len(k.configs) \in Nat /\ k.configs = [i \in 1 .. Len(k.configs) |-> k.configs[i]]
      /\ \A d \in D : d.index + 1 \in 1 .. Len(k.configs) /\ k.configs[d.index + 1] = d
  <2>1. k.configs = Configs(D)
    BY DEF D
  <2>2. Len(made) \in Nat /\ \A i \in 1 .. Len(made) : made[i].index = i - 1
    BY <1>1, <1>2
  <2>3. /\ Len(Configs(D)) \in Nat /\ Configs(D) = [i \in 1 .. Len(Configs(D)) |-> Configs(D)[i]]
        /\ \A d \in D : d.index + 1 \in 1 .. Len(Configs(D)) /\ Configs(D)[d.index + 1] = d
    BY <1>5, <2>2, ConfigsAre
  <2> QED BY <2>1, <2>3
<1>7. Collected(Run(c).body, k)
  BY <1>1, <1>2, <1>6 DEF Collected, D
<1>8. ASSUME k.configs = <<>>, Len(made) # 0 PROVE FALSE
  <2>1. Places(Run(c).body, Len(body), "dfb") # {}
    BY <1>1, <1>8, FS_EmptySet
  <2>2. PICK j \in Places(Run(c).body, Len(body), "thread") : body[j].dfbs # {}
    BY <2>1 DEF CallsOk
  <2>3. registry[rank(j)].dfbs # {} /\ rank(j) \in 1 .. Len(registry)
    BY <1>1, <1>3, <2>2, RankInRange, SMTT(30) DEF ThreadAt
  <2>4. PICK d : d \in D
    BY <1>4, <2>3
  <2>5. Len(k.configs) = 0
    BY <1>8
  <2> QED BY <1>6, <2>4, <2>5
<1> QED BY <1>7, <1>8

(* The compiler's buffers come behind the bound ones and leave them where  *)
(* they are.                                                               *)
LEMMA MergedKeeps ==
  ASSUME CallsOk, NEW c \in Calls, NEW configs, Len(configs) \in Nat,
         configs = [i \in 1 .. Len(configs) |-> configs[i]]
  PROVE  LET merged == Merged(c, configs)
         IN  /\ Len(merged) \in Nat /\ merged = [i \in 1 .. Len(merged) |-> merged[i]]
             /\ Len(configs) <= Len(merged) /\ \A i \in 1 .. Len(configs) : merged[i] = configs[i]
             /\ merged = <<>> => configs = <<>>
<1> DEFINE added == [i \in DOMAIN Intermediates(c) |->
                       [made |-> -1, index |-> Len(configs) + i - 1, tiles |-> Intermediates(c)[i], blocks |-> 1]]
           T == {configs[i] : i \in 1 .. Len(configs)} \cup {added[i] : i \in DOMAIN added}
<1>1. Intermediates(c) \in Seq(Nat)
  BY DEF Intermediates, CallsOk
<1>2. added \in Seq(T)
  <2>1. PICK n \in Nat : DOMAIN Intermediates(c) = 1 .. n
    BY <1>1
  <2>2. added = [i \in 1 .. n |-> added[i]] /\ \A i \in 1 .. n : added[i] \in T
    BY <2>1
  <2> HIDE DEF added, T
  <2> QED BY <2>2
<1>3. configs \in Seq(T)
  <2> DEFINE n == Len(configs)
  <2>1. configs = [i \in 1 .. n |-> configs[i]] /\ \A i \in 1 .. n : configs[i] \in T
    OBVIOUS
  <2>2. n \in Nat
    OBVIOUS
  <2> HIDE DEF added, T, n
  <2> QED BY <2>1, <2>2
<1>4. Merged(c, configs) = configs \o added
  BY DEF Merged
<1> HIDE DEF added, T
<1>5. /\ configs \o added \in Seq(T) /\ Len(configs \o added) = Len(configs) + Len(added) /\ Len(added) \in Nat
      /\ \A i \in 1 .. Len(configs) : (configs \o added)[i] = configs[i]
  BY <1>2, <1>3
<1>6. configs \o added = [i \in 1 .. Len(configs \o added) |-> (configs \o added)[i]]
  <2>1. \A s \in Seq(T) : s = [i \in 1 .. Len(s) |-> s[i]]
    OBVIOUS
  <2> QED BY <1>5, <2>1
<1>7. configs \o added = <<>> => configs = <<>>
  BY <1>2, <1>3
<1> QED BY <1>4, <1>5, <1>6, <1>7

-----------------------------------------------------------------------------
(* Calls with one key are alike.                                           *)
LEMMA SameKey ==
  ASSUME NEW c, NEW d, CacheKey(c) = CacheKey(d)
  PROVE  Alike(c, d)
BY DEF CacheKey, Alike

-----------------------------------------------------------------------------
(* The inductive invariant.                                                *)
ABuild(b) ==
  b = [at |-> b.at, dfbs |-> b.dfbs, threads |-> b.threads, configs |-> b.configs, compiled |-> b.compiled,
       base |-> b.base]

(* While the body runs, the list is what it has decorated so far.          *)
InBody ==
  phase = "body" =>
    /\ call \in Calls /\ GridResolves(call) /\ ABuild(build) /\ build.base = 0
    /\ build.at \in 1 .. Len(Body) + 1 /\ cbCount = Len(build.dfbs)
    /\ Follows(Run(call).body, build.at - 1, calls, build.dfbs, threadRegistry)

(* While the threads compile, the build is of that body.                   *)
InThreads ==
  phase = "threads" =>
    /\ call \in Calls /\ GridResolves(call) /\ ABuild(build) /\ Collected(Run(call).body, build)
    /\ build.base \in {0, cbCount} /\ (build.configs = <<>> => cbCount = 0)

InLowered ==
  phase = "lowered" =>
    /\ call \in Calls /\ GridResolves(call) /\ ABuild(build) /\ Collected(Run(call).body, build)
    /\ build.base = Len(build.configs)

InLaunch == phase = "launch" => call \in Calls /\ Serves(build, call)

(* Every kernel in the cache is that of some call with its key.            *)
InCache ==
  \A key \in DOMAIN cache :
    \E c \in Calls : GridResolves(c) /\ CacheKey(c) = key /\ IsKernelOf(cache[key], c)

IInv == calls \in Nat /\ InBody /\ InThreads /\ InLowered /\ InLaunch /\ InCache /\ KernelIsThisCalls

LEMMA InitInv == LaunchInit => IInv
BY DEF LaunchInit, IInv, InBody, InThreads, InLowered, InLaunch, InCache, KernelIsThisCalls

(* A step that fails, or leaves everything but the counters.               *)
LEMMA FailKeeps ==
  ASSUME IInv, calls' \in Nat, phase' \in {"failed", "idle"}, cache' = cache, launched' \in {launched, NoKernel}
  PROVE  IInv'
<1>1. InBody' /\ InThreads' /\ InLowered' /\ InLaunch'
  BY DEF InBody, InThreads, InLowered, InLaunch
<1>2. InCache'
  BY DEF IInv, InCache
<1>3. KernelIsThisCalls'
  BY DEF IInv, KernelIsThisCalls
<1> QED BY <1>1, <1>2, <1>3 DEF IInv

LEMMA DecorateKeeps == ASSUME IInv, Decorate PROVE IInv'
<1>1. phase' \in {"failed", "idle"} /\ cache' = cache /\ launched' = launched /\ calls' = calls
  BY DEF Decorate, Ready
<1> QED BY <1>1, FailKeeps DEF IInv

LEMMA CallFailsKeeps == ASSUME IInv, NEW c \in Calls, CallFails(c) PROVE IInv'
BY FailKeeps DEF CallFails, Begin, Fail, IInv

LEMMA CallHitsKeeps == ASSUME IInv, CallsOk, NEW c \in Calls, CallHits(c) PROVE IInv'
<1>1. /\ calls' = calls + 1 /\ launched' = NoKernel /\ cache' = cache /\ call' = c
      /\ build' = cache[CacheKey(c)] /\ phase' \in {"launch", "idle"}
  BY DEF CallHits, Begin
<1>2. InBody' /\ InThreads' /\ InLowered' /\ KernelIsThisCalls' /\ calls' \in Nat
  BY <1>1 DEF InBody, InThreads, InLowered, KernelIsThisCalls, IInv
<1>3. InCache'
  BY <1>1 DEF IInv, InCache
<1>4. InLaunch'
  <2>1. CacheKey(c) \in DOMAIN cache /\ GridResolves(c)
    BY DEF CallHits
  <2>2. PICK d \in Calls : GridResolves(d) /\ CacheKey(d) = CacheKey(c) /\ IsKernelOf(cache[CacheKey(c)], d)
    BY <2>1 DEF IInv, InCache
  <2>3. Serves(cache[CacheKey(c)], c)
    BY <2>2, SameKey DEF Serves
  <2> QED BY <1>1, <2>3 DEF InLaunch
<1> QED BY <1>2, <1>3, <1>4 DEF IInv

LEMMA CallCompilesKeeps == ASSUME IInv, CallsOk, NEW c \in Calls, CallCompiles(c) PROVE IInv'
<1>1. /\ calls' = calls + 1 /\ launched' = NoKernel /\ cache' = cache /\ call' = c /\ phase' = "body"
      /\ cbCount' = 0 /\ threadRegistry' = <<>> /\ GridResolves(c)
      /\ build' = [at |-> 1, dfbs |-> <<>>, threads |-> <<>>, configs |-> <<>>, compiled |-> <<>>, base |-> 0]
  BY DEF CallCompiles, Begin, FreshRegistry, NoBuild
<1>2. InThreads' /\ InLowered' /\ InLaunch' /\ KernelIsThisCalls' /\ calls' \in Nat
  BY <1>1 DEF InThreads, InLowered, InLaunch, KernelIsThisCalls, IInv
<1>3. InCache'
  BY <1>1 DEF IInv, InCache
<1>4. InBody'
  <2>1. Len(Run(c).body) \in Nat
    BY DEF CallsOk
  <2>2. Follows(Run(c).body, 0, calls', <<>>, <<>>)
    BY FollowsFromTheStart
  <2>3. ABuild(build') /\ build'.at = 1 /\ build'.dfbs = <<>> /\ build'.base = 0
    BY <1>1 DEF ABuild
  <2>4. GridResolves(call')
    BY <1>1
  <2>5. Body' = Run(c).body
    BY <1>1 DEF Body
  <2> QED BY <1>1, <2>1, <2>2, <2>3, <2>4, <2>5 DEF InBody
<1> QED BY <1>2, <1>3, <1>4 DEF IInv

(* The step of a body that makes a buffer, or decorates a thread.          *)
LEMMA BodyDfbKeeps == ASSUME IInv, CallsOk, BodyDfb PROVE IInv'
<1> DEFINE d == [made |-> calls, index |-> cbCount, tiles |-> Item.tiles, blocks |-> Item.blocks]
<1>1. /\ phase = "body" /\ build.at <= Len(Body) /\ Item.do = "dfb" /\ cbCount' = cbCount + 1
      /\ UNCHANGED <<threadRegistry, cache, phase, call, launched, calls>>
      /\ build' = [build EXCEPT !.at = @ + 1, !.dfbs = Append(@, d)]
  BY DEF BodyDfb, AtItem
<1>2. /\ call \in Calls /\ GridResolves(call) /\ ABuild(build) /\ build.base = 0
      /\ build.at \in 1 .. Len(Body) + 1 /\ cbCount = Len(build.dfbs)
      /\ Follows(Run(call).body, build.at - 1, calls, build.dfbs, threadRegistry)
  BY <1>1 DEF IInv, InBody
<1>3. /\ build'.at = build.at + 1 /\ build'.dfbs = Append(build.dfbs, d) /\ build'.base = 0 /\ ABuild(build')
  <2> HIDE DEF d
  <2> QED BY <1>1, <1>2 DEF ABuild
<1>4. Len(Body) \in Nat /\ calls \in Nat
  BY <1>2 DEF CallsOk, Body, IInv
<1>5. Follows(Run(call).body, build.at, calls, Append(build.dfbs, d), threadRegistry) /\ build.dfbs \in Seq(Buffers(Run(call).body))
  <2> DEFINE n == build.at - 1
  <2>1. n \in Nat /\ n + 1 = build.at
    BY <1>2, <1>4
  <2>2. Run(call).body[n + 1] = Item
    BY <2>1 DEF Item, Body
  <2>3. Run(call).body[n + 1].do = "dfb"
    BY <1>1, <2>2
  <2>4. Follows(Run(call).body, n, calls, build.dfbs, threadRegistry)
    BY <1>2
  <2>5. d = [made |-> calls, index |-> Len(build.dfbs), tiles |-> Run(call).body[n + 1].tiles,
             blocks |-> Run(call).body[n + 1].blocks]
    BY <1>2, <2>2
  <2> HIDE DEF n, d
  <2>6. Follows(Run(call).body, n + 1, calls, Append(build.dfbs, d), threadRegistry)
    BY <1>4, <2>1, <2>3, <2>4, <2>5, FollowsDfb
  <2> QED BY <1>2, <2>1, <2>6 DEF Follows
<1>6. Len(Append(build.dfbs, d)) = Len(build.dfbs) + 1
  <2> HIDE DEF d
  <2> QED BY <1>5
<1> HIDE DEF d
<1>7. InBody'
  <2>1. build'.at \in 1 .. Len(Body) + 1 /\ cbCount' = Len(build'.dfbs) /\ build'.at - 1 = build.at
    BY <1>1, <1>2, <1>3, <1>4, <1>6
  <2>2. Follows(Run(call).body, build'.at - 1, calls, build'.dfbs, threadRegistry)
    BY <1>3, <1>5, <2>1
  <2>3. Body' = Body /\ (GridResolves(call))'
    BY <1>1, <1>2 DEF Body
  <2> QED BY <1>1, <1>2, <1>3, <2>1, <2>2, <2>3 DEF InBody
<1>8. InThreads' /\ InLowered' /\ InLaunch'
  BY <1>1 DEF InThreads, InLowered, InLaunch
<1>9. InCache' /\ KernelIsThisCalls' /\ calls' \in Nat
  BY <1>1 DEF IInv, InCache, KernelIsThisCalls
<1> QED BY <1>7, <1>8, <1>9 DEF IInv

LEMMA BodyThreadKeeps == ASSUME IInv, CallsOk, BodyThread PROVE IInv'
<1> DEFINE t == [made |-> calls, kind |-> Item.kind, dfbs |-> {build.dfbs[i] : i \in Item.dfbs},
                 tensors |-> Item.tensors, compiles |-> Item.compiles]
<1>1. /\ phase = "body" /\ build.at <= Len(Body) /\ Item.do = "thread"
      /\ threadRegistry' = Append(threadRegistry, t) /\ build' = [build EXCEPT !.at = @ + 1]
      /\ UNCHANGED <<cbCount, cache, phase, call, launched, calls>>
  BY DEF BodyThread, AtItem
<1>2. /\ call \in Calls /\ GridResolves(call) /\ ABuild(build) /\ build.base = 0
      /\ build.at \in 1 .. Len(Body) + 1 /\ cbCount = Len(build.dfbs)
      /\ Follows(Run(call).body, build.at - 1, calls, build.dfbs, threadRegistry)
  BY <1>1 DEF IInv, InBody
<1>3. /\ build'.at = build.at + 1 /\ build'.dfbs = build.dfbs /\ build'.base = 0 /\ ABuild(build')
  BY <1>1, <1>2 DEF ABuild
<1>4. Len(Body) \in Nat /\ calls \in Nat
  BY <1>2 DEF CallsOk, Body, IInv
<1>5. Follows(Run(call).body, build.at, calls, build.dfbs, Append(threadRegistry, t))
  <2> DEFINE n == build.at - 1
  <2>1. n \in Nat /\ n + 1 = build.at /\ n + 1 \in 1 .. Len(Body)
    BY <1>1, <1>2, <1>4
  <2>2. Run(call).body[n + 1] = Item
    BY <2>1 DEF Item, Body
  <2>3. Run(call).body[n + 1].do = "thread"
    BY <1>1, <2>2
  <2>4. Follows(Run(call).body, n, calls, build.dfbs, threadRegistry)
    BY <1>2
  <2>5. Run(call).body[n + 1].dfbs \subseteq 1 .. Cardinality(Places(Run(call).body, n + 1, "dfb"))
    <3>1. n + 1 \in Places(Run(call).body, Len(Run(call).body), "thread")
      BY <2>1, <2>3 DEF Places, Body
    <3> QED BY <1>2, <3>1 DEF CallsOk
  <2>6. t = [made |-> calls, kind |-> Run(call).body[n + 1].kind,
             dfbs |-> {build.dfbs[i] : i \in Run(call).body[n + 1].dfbs},
             tensors |-> Run(call).body[n + 1].tensors,
             compiles |-> Run(call).body[n + 1].compiles]
    BY <2>2
  <2> HIDE DEF n, t
  <2>7. Follows(Run(call).body, n + 1, calls, build.dfbs, Append(threadRegistry, t))
    BY <1>4, <2>1, <2>3, <2>4, <2>5, <2>6, FollowsThread, SMTT(30)
  <2> QED BY <2>1, <2>7
<1> HIDE DEF t
<1>7. InBody'
  <2>1. build'.at \in 1 .. Len(Body) + 1 /\ cbCount' = Len(build'.dfbs) /\ build'.at - 1 = build.at
    BY <1>1, <1>2, <1>3, <1>4
  <2>2. Follows(Run(call).body, build'.at - 1, calls, build'.dfbs, threadRegistry')
    BY <1>1, <1>3, <1>5, <2>1
  <2>3. Body' = Body /\ (GridResolves(call))'
    BY <1>1, <1>2 DEF Body
  <2> QED BY <1>1, <1>2, <1>3, <2>1, <2>2, <2>3 DEF InBody
<1>8. InThreads' /\ InLowered' /\ InLaunch'
  BY <1>1 DEF InThreads, InLowered, InLaunch
<1>9. InCache' /\ KernelIsThisCalls' /\ calls' \in Nat
  BY <1>1 DEF IInv, InCache, KernelIsThisCalls
<1> QED BY <1>7, <1>8, <1>9 DEF IInv

LEMMA BodyFailsKeeps == ASSUME IInv, BodyFails PROVE IInv'
<1>1. phase' = "failed" /\ cache' = cache /\ launched' = launched /\ calls' = calls
  BY DEF BodyFails, Fail
<1> QED BY <1>1, FailKeeps DEF IInv

(* The threads of the list become those of the build.                      *)
LEMMA CollectThreadsKeeps == ASSUME IInv, CallsOk, CollectThreads PROVE IInv'
<1>1. /\ phase = "body" /\ build.at > Len(Body) /\ UNCHANGED <<cbCount, cache, call, launched, calls>>
  BY DEF CollectThreads
<1>2. CASE threadRegistry = <<>> \/ ~Run(call).netsOk
  BY <1>1, <1>2, FailKeeps DEF CollectThreads, Fail, IInv
<1>3. CASE ~(threadRegistry = <<>> \/ ~Run(call).netsOk)
  <2>1. /\ phase' = "threads"
        /\ build' = [build EXCEPT !.threads = threadRegistry, !.configs = Configs(Captured(threadRegistry))]
    BY <1>3 DEF CollectThreads
  <2>2. /\ call \in Calls /\ GridResolves(call) /\ ABuild(build) /\ build.base = 0
        /\ build.at \in 1 .. Len(Body) + 1 /\ cbCount = Len(build.dfbs)
        /\ Follows(Run(call).body, build.at - 1, calls, build.dfbs, threadRegistry)
    BY <1>1 DEF IInv, InBody
  <2>3. Len(Body) \in Nat
    BY <2>2 DEF CallsOk, Body
  <2>4. Follows(Run(call).body, Len(Run(call).body), calls, build.dfbs, threadRegistry)
    BY <1>1, <2>2, <2>3 DEF Body
  <2>5. /\ build'.threads = threadRegistry /\ build'.configs = Configs(Captured(threadRegistry))
        /\ build'.base = 0 /\ ABuild(build')
    BY <2>1, <2>2 DEF ABuild
  <2>6. Collected(Run(call).body, build') /\ (build'.configs = <<>> => Len(build.dfbs) = 0)
    BY <2>2, <2>4, <2>5, CollectedFromBody
  <2>7. (GridResolves(call))' /\ (Collected(Run(call).body, build))' /\ (ABuild(build))'
    BY <1>1, <2>2, <2>5, <2>6
  <2>8. InThreads'
    BY <1>1, <2>2, <2>5, <2>6, <2>7 DEF InThreads
  <2>9. InBody' /\ InLowered' /\ InLaunch'
    BY <2>1 DEF InBody, InLowered, InLaunch
  <2>10. InCache' /\ KernelIsThisCalls' /\ calls' \in Nat
    BY <1>1 DEF IInv, InCache, KernelIsThisCalls
  <2> QED BY <2>8, <2>9, <2>10 DEF IInv
<1> QED BY <1>2, <1>3

LEMMA CompileThreadKeeps == ASSUME IInv, CompileThread PROVE IInv'
<1> DEFINE t == build.threads[Len(build.compiled) + 1]
           c == [kind |-> t.kind, tensors |-> t.tensors,
                 indices |-> [i \in DOMAIN t.tensors |-> tensorIndex[Resolve(t.tensors[i])]]]
<1>1. phase = "threads" /\ UNCHANGED <<cbCount, cache, call, launched, calls>>
  BY DEF CompileThread
<1>2. CASE ~CompilesHere(t)
  <2>1. phase' = "failed"
    BY <1>2 DEF CompileThread, Fail
  <2> QED BY <1>1, <2>1, FailKeeps DEF IInv
<1>3. CASE CompilesHere(t)
  <2>1. phase' = phase /\ build' = [build EXCEPT !.compiled = Append(@, c), !.base = cbCount]
    BY <1>3 DEF CompileThread
  <2>2. /\ call \in Calls /\ GridResolves(call) /\ ABuild(build) /\ Collected(Run(call).body, build)
        /\ build.base \in {0, cbCount} /\ (build.configs = <<>> => cbCount = 0)
    BY <1>1 DEF IInv, InThreads
  <2>3. /\ build'.threads = build.threads /\ build'.configs = build.configs /\ build'.base = cbCount
        /\ ABuild(build')
    <3> HIDE DEF c
    <3> QED BY <2>1, <2>2 DEF ABuild
  <2>4. Collected(Run(call).body, build')
    BY <2>2, <2>3 DEF Collected
  <2>5. (GridResolves(call))' /\ (Collected(Run(call).body, build))' /\ (ABuild(build))'
    BY <1>1, <2>2, <2>3, <2>4
  <2>6. InThreads'
    BY <1>1, <2>2, <2>3, <2>5 DEF InThreads
  <2>7. InBody' /\ InLowered' /\ InLaunch'
    BY <1>1, <2>1 DEF InBody, InLowered, InLaunch
  <2>8. InCache' /\ KernelIsThisCalls' /\ calls' \in Nat
    BY <1>1 DEF IInv, InCache, KernelIsThisCalls
  <2> QED BY <2>6, <2>7, <2>8 DEF IInv
<1> QED BY <1>2, <1>3

(* The passes add buffers behind those of the threads, and count them all. *)
LEMMA LowerKeeps == ASSUME IInv, CallsOk, Lower PROVE IInv'
<1> DEFINE configs == Merged(call, build.configs)
<1>1. phase = "threads" /\ UNCHANGED <<cbCount, cache, call, launched, calls>>
  BY DEF Lower
<1>2. CASE ~(Len(configs) <= MaxCBs /\ Tiles(configs) <= Budget(call))
  <2>1. phase' = "failed"
    BY <1>2 DEF Lower, Fail
  <2> QED BY <1>1, <2>1, FailKeeps DEF IInv
<1>3. CASE Len(configs) <= MaxCBs /\ Tiles(configs) <= Budget(call)
  <2>1. phase' = "lowered" /\ build' = [build EXCEPT !.configs = configs, !.base = CBArgsBase(configs)]
    BY <1>3 DEF Lower
  <2>2. /\ call \in Calls /\ GridResolves(call) /\ ABuild(build) /\ Collected(Run(call).body, build)
        /\ build.base \in {0, cbCount} /\ (build.configs = <<>> => cbCount = 0)
    BY <1>1 DEF IInv, InThreads
  <2> HIDE DEF configs
  <2>3. build'.threads = build.threads /\ build'.configs = configs /\ build'.base = CBArgsBase(configs) /\ ABuild(build')
    BY <2>1, <2>2 DEF ABuild
  <2>4. Len(build.configs) \in Nat /\ build.configs = [i \in 1 .. Len(build.configs) |-> build.configs[i]]
    BY <2>2 DEF Collected
  <2>5. /\ Len(configs) \in Nat /\ configs = [i \in 1 .. Len(configs) |-> configs[i]]
        /\ Len(build.configs) <= Len(configs) /\ \A i \in 1 .. Len(build.configs) : configs[i] = build.configs[i]
        /\ configs = <<>> => build.configs = <<>>
    BY <2>2, <2>4, MergedKeeps DEF configs
  <2>6. Collected(Run(call).body, build')
    <3>1. \A d \in Captured(build.threads) : d.index + 1 \in 1 .. Len(build.configs)
                                            /\ build.configs[d.index + 1] = d
      BY <2>2 DEF Collected
    <3>2. \A d \in Captured(build'.threads) : d.index + 1 \in 1 .. Len(build'.configs)
                                             /\ build'.configs[d.index + 1] = d
      BY <2>3, <2>4, <2>5, <3>1
    <3>3. Len(build'.configs) \in Nat /\ build'.configs = [i \in 1 .. Len(build'.configs) |-> build'.configs[i]]
      BY <2>3, <2>5
    <3> QED BY <2>2, <2>3, <3>2, <3>3 DEF Collected
  <2>7. build'.base = Len(build'.configs)
    <3>1. CASE configs = <<>>
      BY <2>2, <2>3, <2>5, <3>1 DEF CBArgsBase
    <3>2. CASE configs # <<>>
      BY <2>3, <3>2 DEF CBArgsBase
    <3> QED BY <3>1, <3>2
  <2>8. (GridResolves(call))' /\ (Collected(Run(call).body, build))' /\ (ABuild(build))'
    BY <1>1, <2>2, <2>3, <2>6
  <2>9. InLowered'
    BY <1>1, <2>2, <2>7, <2>8 DEF InLowered
  <2>10. InBody' /\ InThreads' /\ InLaunch'
    BY <2>1 DEF InBody, InThreads, InLaunch
  <2>11. InCache' /\ KernelIsThisCalls' /\ calls' \in Nat
    BY <1>1 DEF IInv, InCache, KernelIsThisCalls
  <2> QED BY <2>9, <2>10, <2>11 DEF IInv
<1> QED BY <1>2, <1>3

(* The kernel that goes into the cache is the call's.                      *)
LEMMA BuildKernelKeeps == ASSUME IInv, CallsOk, BuildKernel PROVE IInv'
<1> DEFINE kernel ==
             [threads |-> build.threads, compiled |-> build.compiled, configs |-> build.configs, base |-> build.base,
              roles |-> [i \in 1 .. 3 |-> Role(build.compiled, i)], grid |-> ResolveGrid(call),
              tensors |-> TensorKey(call.args), count |-> Len(call.args), mesh |-> MeshShape(call.args),
              arch |-> TargetArch(call.args), options |-> Compared(CompilerOptions(call))]
<1>1. phase = "lowered" /\ UNCHANGED <<cbCount, call, launched, calls>>
  BY DEF BuildKernel
<1>2. CASE ~(TensorsOk(call.args) /\ Len(build.compiled) = 3)
  <2>1. phase' = "failed" /\ cache' = cache
    BY <1>2 DEF BuildKernel, Fail
  <2> QED BY <1>1, <2>1, FailKeeps DEF IInv
<1>3. CASE TensorsOk(call.args) /\ Len(build.compiled) = 3
  <2>1. /\ cache' = Merge(cache, [k \in {CacheKey(call)} |-> kernel]) /\ build' = kernel
        /\ phase' \in {"launch", "idle"}
    BY <1>3 DEF BuildKernel
  <2>2. /\ call \in Calls /\ GridResolves(call) /\ Collected(Run(call).body, build) /\ build.base = Len(build.configs)
    BY <1>1 DEF IInv, InLowered
  <2>3. IsKernelOf(kernel, call)
    <3>1. /\ kernel.threads = build.threads /\ kernel.configs = build.configs /\ kernel.base = build.base
          /\ kernel.grid = ResolveGrid(call) /\ kernel.tensors = TensorKey(call.args)
          /\ kernel.mesh = MeshShape(call.args) /\ kernel.arch = TargetArch(call.args)
          /\ kernel.options = Compared(CompilerOptions(call))
      OBVIOUS
    <3> HIDE DEF kernel
    <3> QED BY <2>2, <3>1 DEF IsKernelOf, Collected, ThreadAt, ThreadPlaces
  <2> HIDE DEF kernel
  <2>4. /\ DOMAIN cache' = DOMAIN cache \cup {CacheKey(call)} /\ cache'[CacheKey(call)] = kernel
        /\ \A key \in DOMAIN cache : key # CacheKey(call) => cache'[key] = cache[key]
    BY <2>1 DEF Merge
  <2>5. InCache'
    <3>1. ASSUME NEW key \in DOMAIN cache'
          PROVE  \E c \in Calls : GridResolves(c) /\ CacheKey(c) = key /\ IsKernelOf(cache'[key], c)
      <4>1. CASE key = CacheKey(call)
        BY <2>2, <2>3, <2>4, <4>1
      <4>2. CASE key # CacheKey(call)
        BY <2>4, <4>2 DEF IInv, InCache
      <4> QED BY <4>1, <4>2
    <3> QED BY <3>1 DEF InCache
  <2>6. InLaunch'
    <3>1. Serves(build', call')
      BY <1>1, <2>1, <2>2, <2>3 DEF Serves, Alike
    <3> QED BY <1>1, <2>2, <3>1 DEF InLaunch
  <2>7. InBody' /\ InThreads' /\ InLowered'
    BY <2>1 DEF InBody, InThreads, InLowered
  <2>8. KernelIsThisCalls' /\ calls' \in Nat
    BY <1>1 DEF IInv, KernelIsThisCalls
  <2> QED BY <2>5, <2>6, <2>7, <2>8 DEF IInv
<1> QED BY <1>2, <1>3

LEMMA LaunchKernelKeeps == ASSUME IInv, LaunchKernel PROVE IInv'
<1>1. /\ phase = "launch" /\ phase' \in {"failed", "idle"} /\ UNCHANGED <<cache, call, calls>>
  BY DEF LaunchKernel
<1>2. CASE ~LaunchOk(call, build)
  <2>1. launched' = launched
    BY <1>2 DEF LaunchKernel
  <2> QED BY <1>1, <2>1, FailKeeps DEF IInv
<1>3. CASE LaunchOk(call, build)
  <2>1. launched'.call = call /\ launched'.kernel = build
    BY <1>3 DEF LaunchKernel
  <2>2. Serves(launched'.kernel, launched'.call)
    BY <1>1, <2>1 DEF IInv, InLaunch
  <2>3. KernelIsThisCalls'
    BY <2>2 DEF KernelIsThisCalls
  <2>4. InBody' /\ InThreads' /\ InLowered' /\ InLaunch'
    BY <1>1 DEF InBody, InThreads, InLowered, InLaunch
  <2>5. InCache' /\ calls' \in Nat
    BY <1>1 DEF IInv, InCache
  <2> QED BY <2>3, <2>4, <2>5 DEF IInv
<1> QED BY <1>2, <1>3

-----------------------------------------------------------------------------
(* In every reachable state the list, the build and the cache are what the *)
(* bodies so far made them (ttl_api.py: _compile, _collect_cb_configs,     *)
(* the operation's cache).                                                 *)
THEOREM Invariance == ASSUME CallsOk PROVE LaunchSpec => []IInv
<1>1. LaunchInit => IInv
  BY InitInv
<1>2. IInv /\ [LaunchNext]_launchVars => IInv'
  <2> SUFFICES ASSUME IInv, [LaunchNext]_launchVars PROVE IInv'
    OBVIOUS
  <2>1. CASE UNCHANGED launchVars
    <3>1. /\ phase' = phase /\ call' = call /\ build' = build /\ launched' = launched /\ cache' = cache
          /\ calls' = calls /\ cbCount' = cbCount /\ threadRegistry' = threadRegistry
      BY <2>1 DEF launchVars
    <3>2. /\ (GridResolves(call))' = GridResolves(call) /\ (ABuild(build))' = ABuild(build) /\ Body' = Body
          /\ (Collected(Run(call).body, build))' = Collected(Run(call).body, build)
      BY <3>1 DEF Body
    <3>3. InBody' /\ InThreads' /\ InLowered' /\ InLaunch'
      BY <3>1, <3>2 DEF IInv, InBody, InThreads, InLowered, InLaunch
    <3>4. InCache' /\ KernelIsThisCalls' /\ calls' \in Nat
      BY <3>1 DEF IInv, InCache, KernelIsThisCalls
    <3> QED BY <3>3, <3>4 DEF IInv
  <2>2. CASE MakeCall
    BY <2>2, CallFailsKeeps, CallHitsKeeps, CallCompilesKeeps DEF MakeCall
  <2>3. CASE LaunchNext /\ ~MakeCall
    BY <2>3, DecorateKeeps, BodyDfbKeeps, BodyThreadKeeps, BodyFailsKeeps, CollectThreadsKeeps, CompileThreadKeeps,
       LowerKeeps, BuildKernelKeeps, LaunchKernelKeeps DEF LaunchNext
  <2> QED BY <2>1, <2>2, <2>3
<1> QED BY <1>1, <1>2, PTL DEF LaunchSpec

(* The kernel that runs was compiled, whole, from one run of the body of a *)
(* call that the cache's key takes for this one, whatever was called,      *)
(* raised or decorated before.  No assumption ties the grid or the         *)
(* keywords, which the key leaves out, to what it holds.                   *)
THEOREM RightKernel == ASSUME CallsOk PROVE LaunchSpec => []KernelIsThisCalls
<1>1. IInv => KernelIsThisCalls
  BY DEF IInv
<1> QED BY <1>1, Invariance, PTL

-----------------------------------------------------------------------------
(* Calls in order.  Every rank up to the number of places is some place's. *)
LEMMA RanksAreAll ==
  ASSUME NEW items, NEW do
  PROVE  \A n \in Nat : \A i \in 1 .. Cardinality(Places(items, n, do)) :
           \E j \in Places(items, n, do) : Cardinality(Places(items, j, do)) = i
<1> DEFINE rank(j) == Cardinality(Places(items, j, do))
           Good(n) == \A i \in 1 .. rank(n) : \E j \in Places(items, n, do) : rank(j) = i
           Bad == {n \in Nat : ~Good(n)}
<1> SUFFICES ASSUME Bad # {} PROVE FALSE
  OBVIOUS
<1>1. PICK n \in Bad : \A m \in Bad : n <= m
  <2>1. Bad \in SUBSET Nat
    OBVIOUS
  <2> HIDE DEF Bad
  <2> QED BY <2>1, NatMin
<1>2. n \in Nat /\ ~Good(n)
  OBVIOUS
<1>3. n # 0
  <2>1. rank(0) = 0
    BY NoPlaces
  <2>2. Good(0)
    BY <2>1
  <2> QED BY <1>2, <2>2
<1>4. PICK k \in Nat : n = k + 1
  <2>1. n - 1 \in Nat /\ n = (n - 1) + 1
    BY <1>2, <1>3
  <2> QED BY <2>1
<1>5. Good(k)
  <2>1. k \notin Bad
    <3> HIDE DEF Bad
    <3> QED BY <1>1, <1>4
  <2> QED BY <2>1
<1>6. Places(items, k, do) \in SUBSET Places(items, n, do)
  <2> SUFFICES ASSUME NEW x \in Places(items, k, do) PROVE x \in Places(items, n, do)
    OBVIOUS
  <2>1. x \in 1 .. k /\ items[x].do = do
    BY DEF Places
  <2>2. x \in 1 .. n
    BY <1>2, <1>4, <2>1
  <2> QED BY <2>1, <2>2 DEF Places
<1>7. rank(k) \in Nat
  BY PlacesAreFinite
<1>8. CASE items[n].do = do
  <2>1. rank(k + 1) = rank(k) + 1 /\ k + 1 \in Places(items, k + 1, do)
    <3>1. items[k + 1].do = do
      BY <1>4, <1>8
    <3>2. k + 1 \in Places(items, k + 1, do)
      BY <3>1 DEF Places
    <3>3. rank(k + 1) = rank(k) + 1
      BY <3>1, PlacesGrow, Zenon
    <3> QED BY <3>2, <3>3
  <2>2. ASSUME NEW i \in 1 .. rank(n) PROVE \E j \in Places(items, n, do) : rank(j) = i
    <3>1. CASE i \in 1 .. rank(k)
      BY <1>5, <1>6, <3>1
    <3>2. CASE i = rank(n)
      BY <1>4, <2>1, <3>2
    <3> QED BY <1>4, <1>7, <2>1, <3>1, <3>2
  <2> QED BY <1>2, <2>2
<1>9. CASE items[n].do # do
  <2>1. Places(items, n, do) = Places(items, k, do)
    BY <1>4, <1>9, PlacesStay
  <2> QED BY <1>2, <1>5, <2>1
<1> QED BY <1>8, <1>9

(* The k-th place is the one of rank k.                                    *)
LEMMA NthPlace ==
  ASSUME NEW items, NEW do, NEW n \in Nat, NEW i \in 1 .. Cardinality(Places(items, n, do))
  PROVE  /\ Nth(Places(items, n, do), i) \in Places(items, n, do)
         /\ Cardinality(Places(items, Nth(Places(items, n, do), i), do)) = i
<1> DEFINE S == Places(items, n, do)
<1>1. \A j \in S : {x \in S : x <= j} = Places(items, j, do)
  <2> SUFFICES ASSUME NEW j \in S PROVE {x \in S : x <= j} = Places(items, j, do)
    OBVIOUS
  <2>1. j \in 1 .. n
    BY DEF Places
  <2>2. \A x : x \in 1 .. j <=> x \in 1 .. n /\ x <= j
    BY <2>1
  <2> QED BY <2>2 DEF Places
<1>2. \E j \in S : Cardinality({x \in S : x <= j}) = i
  BY <1>1, RanksAreAll
<1>3. /\ Nth(S, i) \in S /\ Cardinality({x \in S : x <= Nth(S, i)}) = i
  <2> HIDE DEF S
  <2> QED BY <1>2 DEF Nth
<1> QED BY <1>1, <1>3

(* A sequence of anything grows by one.                                    *)
IsSeq(s) == Len(s) \in Nat /\ s = [i \in 1 .. Len(s) |-> s[i]]
LEMMA SeqIn ==
  ASSUME NEW s, NEW S, IsSeq(s), \A i \in 1 .. Len(s) : s[i] \in S
  PROVE  s \in Seq(S)
<1> DEFINE n == Len(s)
<1>1. n \in Nat /\ s = [i \in 1 .. n |-> s[i]] /\ \A i \in 1 .. n : s[i] \in S
  BY DEF IsSeq
<1> HIDE DEF n
<1> QED BY <1>1

LEMMA AppendGrows ==
  ASSUME NEW s, NEW x, IsSeq(s)
  PROVE  /\ IsSeq(Append(s, x)) /\ Len(Append(s, x)) = Len(s) + 1
         /\ Append(s, x)[Len(s) + 1] = x /\ \A i \in 1 .. Len(s) : Append(s, x)[i] = s[i]
<1> DEFINE S == {s[i] : i \in 1 .. Len(s)} \cup {x}
<1>1. s \in Seq(S)
  <2>1. \A i \in 1 .. Len(s) : s[i] \in S
    OBVIOUS
  <2> HIDE DEF S
  <2> QED BY <2>1, SeqIn
<1>2. x \in S
  OBVIOUS
<1> HIDE DEF S
<1>3. /\ Append(s, x) \in Seq(S) /\ Len(Append(s, x)) = Len(s) + 1
      /\ Append(s, x)[Len(s) + 1] = x /\ \A i \in 1 .. Len(s) : Append(s, x)[i] = s[i]
  BY <1>1, <1>2
<1>4. \A t \in Seq(S) : Len(t) \in Nat /\ t = [i \in 1 .. Len(t) |-> t[i]]
  OBVIOUS
<1> QED BY <1>3, <1>4 DEF IsSeq

(* What a body has made of the first n of its items: of which size, and    *)
(* for which threads.                                                      *)
MadeBy(items, n, made, registry) ==
  /\ \A j \in Places(items, n, "dfb") :
       LET d == made[Cardinality(Places(items, j, "dfb"))]
       IN  d.tiles = items[j].tiles /\ d.blocks = items[j].blocks
  /\ \A j \in Places(items, n, "thread") :
       LET t == registry[Cardinality(Places(items, j, "thread"))]
       IN  t.compiles = items[j].compiles /\ t.dfbs = {made[k] : k \in items[j].dfbs}

LEMMA MadeFromTheStart == ASSUME NEW items PROVE MadeBy(items, 0, <<>>, <<>>)
BY NoPlaces DEF MadeBy

LEMMA MadeDfb ==
  ASSUME NEW items, NEW n \in Nat, NEW m, NEW made, NEW registry, Follows(items, n, m, made, registry),
         MadeBy(items, n, made, registry), items[n + 1].do = "dfb",
         \A j \in Places(items, n, "thread") : items[j].dfbs \subseteq 1 .. Cardinality(Places(items, j, "dfb")),
         NEW d, d.tiles = items[n + 1].tiles, d.blocks = items[n + 1].blocks
  PROVE  MadeBy(items, n + 1, Append(made, d), registry)
<1> DEFINE rank(j) == Cardinality(Places(items, j, "dfb"))
           after == Append(made, d)
<1>1. Len(made) = rank(n) /\ Len(made) \in Nat /\ IsSeq(made)
  BY DEF Follows, IsSeq
<1>2. after[Len(made) + 1] = d /\ \A i \in 1 .. Len(made) : after[i] = made[i]
  BY <1>1, AppendGrows
<1> HIDE DEF after
<1>3. /\ Places(items, n + 1, "dfb") = Places(items, n, "dfb") \cup {n + 1} /\ rank(n + 1) = rank(n) + 1
      /\ Places(items, n + 1, "thread") = Places(items, n, "thread")
  <2>1. Places(items, n + 1, "dfb") = Places(items, n, "dfb") \cup {n + 1} /\ rank(n + 1) = rank(n) + 1
    BY PlacesGrow
  <2>2. Places(items, n + 1, "thread") = Places(items, n, "thread")
    BY PlacesStay
  <2> QED BY <2>1, <2>2
<1>4. ASSUME NEW j \in Places(items, n + 1, "dfb")
      PROVE  /\ after[rank(j)].tiles = items[j].tiles
             /\ after[rank(j)].blocks = items[j].blocks
  <2>1. CASE j \in Places(items, n, "dfb")
    <3>1. rank(j) \in 1 .. Len(made)
      BY <1>1, <2>1, RankInRange
    <3> QED BY <1>2, <2>1, <3>1 DEF MadeBy
  <2>2. CASE j = n + 1
    BY <1>1, <1>2, <1>3, <2>2
  <2> QED BY <1>3, <2>1, <2>2
<1>5. ASSUME NEW j \in Places(items, n + 1, "thread")
      PROVE  LET t == registry[Cardinality(Places(items, j, "thread"))]
             IN  /\ t.compiles = items[j].compiles
                 /\ t.dfbs = {after[k] : k \in items[j].dfbs}
  <2>1. j \in Places(items, n, "thread")
    BY <1>3
  <2>2. rank(j) <= rank(n)
    <3>1. j \in 1 .. n
      BY <2>1 DEF Places
    <3>2. Places(items, j, "dfb") \subseteq Places(items, n, "dfb")
      <4> SUFFICES ASSUME NEW x \in Places(items, j, "dfb") PROVE x \in Places(items, n, "dfb")
        OBVIOUS
      <4>1. x \in 1 .. j /\ items[x].do = "dfb"
        BY DEF Places
      <4>2. x \in 1 .. n
        BY <3>1, <4>1
      <4> QED BY <4>1, <4>2 DEF Places
    <3>3. j \in Nat
      BY <3>1
    <3> QED BY <3>2, <3>3, PlacesAreFinite, FS_Subset
  <2>3. \A k \in items[j].dfbs : k \in 1 .. Len(made)
    <3>1. j \in Nat
      BY <2>1 DEF Places
    <3>2. rank(j) \in Nat
      BY <3>1, PlacesAreFinite
    <3> QED BY <1>1, <2>1, <2>2, <3>2
  <2>4. {after[k] : k \in items[j].dfbs} = {made[k] : k \in items[j].dfbs}
    BY <1>2, <2>3
  <2> QED BY <2>1, <2>4 DEF MadeBy
<1> QED BY <1>4, <1>5 DEF MadeBy, after

LEMMA ThreadPlacesGrow ==
  ASSUME NEW items, NEW n \in Nat, items[n + 1].do = "thread"
  PROVE  /\ Places(items, n + 1, "thread") = Places(items, n, "thread") \cup {n + 1}
         /\ Cardinality(Places(items, n + 1, "thread")) = Cardinality(Places(items, n, "thread")) + 1
         /\ Places(items, n + 1, "dfb") = Places(items, n, "dfb")
<1>1. Places(items, n + 1, "dfb") = Places(items, n, "dfb")
  BY PlacesStay
<1>2. Places(items, n + 1, "thread") = Places(items, n, "thread") \cup {n + 1}
  BY DEF Places
<1>3. Cardinality(Places(items, n + 1, "thread")) = Cardinality(Places(items, n, "thread")) + 1
  BY PlacesGrow
<1> QED BY <1>1, <1>2, <1>3

LEMMA MadeThread ==
  ASSUME NEW items, NEW n \in Nat, NEW m, NEW made, NEW registry, Follows(items, n, m, made, registry),
         MadeBy(items, n, made, registry), items[n + 1].do = "thread",
         NEW t, t.compiles = items[n + 1].compiles,
         t.dfbs = {made[k] : k \in items[n + 1].dfbs}
  PROVE  MadeBy(items, n + 1, made, Append(registry, t))
<1> DEFINE rank(j) == Cardinality(Places(items, j, "thread"))
           after == Append(registry, t)
<1>1. Len(registry) = rank(n) /\ Len(registry) \in Nat /\ IsSeq(registry)
  BY DEF Follows, IsSeq
<1>2. after[Len(registry) + 1] = t /\ \A i \in 1 .. Len(registry) : after[i] = registry[i]
  BY <1>1, AppendGrows
<1> HIDE DEF after
<1>3. /\ Places(items, n + 1, "thread") = Places(items, n, "thread") \cup {n + 1} /\ rank(n + 1) = rank(n) + 1
      /\ Places(items, n + 1, "dfb") = Places(items, n, "dfb")
  BY ThreadPlacesGrow
<1>4. ASSUME NEW j \in Places(items, n + 1, "thread")
      PROVE  /\ after[rank(j)].compiles = items[j].compiles
             /\ after[rank(j)].dfbs = {made[k] : k \in items[j].dfbs}
  <2>1. CASE j \in Places(items, n, "thread")
    <3>1. rank(j) \in 1 .. Len(registry)
      BY <1>1, <2>1, RankInRange
    <3> QED BY <1>2, <2>1, <3>1 DEF MadeBy
  <2>2. CASE j = n + 1
    BY <1>1, <1>2, <1>3, <2>2
  <2> QED BY <1>3, <2>1, <2>2
<1>5. \A j \in Places(items, n + 1, "dfb") :
        LET d == made[Cardinality(Places(items, j, "dfb"))]
        IN  d.tiles = items[j].tiles /\ d.blocks = items[j].blocks
  BY <1>3 DEF MadeBy
<1> QED BY <1>4, <1>5 DEF MadeBy, after

(* The buffers of a build are those its body used, when it used the first  *)
(* ones without a gap.                                                     *)
NoGap(items) == UsedDfbs(items) = 1 .. Cardinality(UsedDfbs(items))
SizedAs(items, configs) ==
  NoGap(items) =>
    /\ Len(configs) = Cardinality(UsedDfbs(items))
    /\ \A i \in 1 .. Len(configs) :
         configs[i] # None /\ configs[i].tiles = DfbItem(items, i).tiles /\ configs[i].blocks = DfbItem(items, i).blocks

LEMMA UsedWereMade ==
  ASSUME CallsOk, NEW c \in Calls
  PROVE  /\ UsedDfbs(Run(c).body) \subseteq 1 .. Cardinality(DfbPlaces(Run(c).body))
         /\ Cardinality(UsedDfbs(Run(c).body)) \in Nat /\ Cardinality(DfbPlaces(Run(c).body)) \in Nat
<1> DEFINE body == Run(c).body
           rank(j) == Cardinality(Places(Run(c).body, j, "dfb"))
<1>1. Len(body) \in Nat /\ \A j \in ThreadPlaces(Run(c).body) : body[j].dfbs \subseteq 1 .. rank(j)
  BY DEF CallsOk, ThreadPlaces
<1>2. ASSUME NEW j \in ThreadPlaces(Run(c).body) PROVE rank(j) <= rank(Len(body)) /\ rank(j) \in Nat
  <2>1. j \in 1 .. Len(body)
    BY DEF ThreadPlaces, Places
  <2>2. Places(Run(c).body, j, "dfb") \subseteq Places(Run(c).body, Len(body), "dfb")
    <3> SUFFICES ASSUME NEW x \in Places(Run(c).body, j, "dfb") PROVE x \in Places(Run(c).body, Len(body), "dfb")
      OBVIOUS
    <3>1. x \in 1 .. j /\ Run(c).body[x].do = "dfb"
      BY DEF Places
    <3>2. x \in 1 .. Len(body)
      BY <1>1, <2>1, <3>1
    <3> QED BY <3>1, <3>2 DEF Places
  <2>3. j \in Nat
    BY <2>1
  <2> QED BY <1>1, <2>2, <2>3, PlacesAreFinite, FS_Subset
<1>3. rank(Len(body)) = Cardinality(DfbPlaces(Run(c).body)) /\ rank(Len(body)) \in Nat
  BY <1>1, PlacesAreFinite DEF DfbPlaces
<1>4. UsedDfbs(Run(c).body) \subseteq 1 .. rank(Len(body))
  <2> SUFFICES ASSUME NEW x \in UsedDfbs(Run(c).body) PROVE x \in 1 .. rank(Len(body))
    OBVIOUS
  <2>1. PICK j \in ThreadPlaces(Run(c).body) : x \in body[j].dfbs
    BY DEF UsedDfbs
  <2>2. x \in 1 .. rank(j)
    BY <1>1, <2>1
  <2> QED BY <1>2, <1>3, <2>2
<1>5. Cardinality(UsedDfbs(Run(c).body)) \in Nat
  <2>1. IsFiniteSet(1 .. rank(Len(body)))
    BY <1>3, FS_Interval
  <2> QED BY <1>4, <2>1, FS_Subset, FS_CardinalityType
<1> QED BY <1>3, <1>4, <1>5

LEMMA SizedFromBody ==
  ASSUME CallsOk, NEW c \in Calls, NEW m, NEW made, NEW registry,
         Follows(Run(c).body, Len(Run(c).body), m, made, registry),
         MadeBy(Run(c).body, Len(Run(c).body), made, registry)
  PROVE  SizedAs(Run(c).body, Configs(Captured(registry)))
<1> DEFINE items == Run(c).body
           body == Run(c).body
           D == Captured(registry)
           N == Cardinality(UsedDfbs(Run(c).body))
           rank(j) == Cardinality(Places(Run(c).body, j, "thread"))
<1> SUFFICES ASSUME NoGap(Run(c).body)
             PROVE  /\ Len(Configs(D)) = N
                    /\ \A i \in 1 .. N : /\ Configs(D)[i] # None
                                         /\ Configs(D)[i].tiles = DfbItem(items, i).tiles
                                         /\ Configs(D)[i].blocks = DfbItem(items, i).blocks
  BY DEF SizedAs
<1>1. /\ UsedDfbs(items) = 1 .. N /\ N \in Nat /\ 1 .. N \subseteq 1 .. Len(made)
      /\ Len(made) = Cardinality(DfbPlaces(items)) /\ Len(made) \in Nat /\ Len(body) \in Nat
  <2>1. Len(made) = Cardinality(DfbPlaces(items))
    BY DEF Follows, DfbPlaces
  <2>2. Len(body) \in Nat
    BY DEF CallsOk
  <2> QED BY <2>1, <2>2, UsedWereMade DEF NoGap
<1>2. /\ DOMAIN registry = 1 .. Len(registry) /\ Len(registry) = rank(Len(body))
      /\ \A i \in 1 .. Len(made) : made[i].index = i - 1
  BY DEF Follows
<1>3. D = {made[k] : k \in 1 .. N}
  <2>1. ASSUME NEW d \in D PROVE d \in {made[k] : k \in 1 .. N}
    <3>1. PICK i \in 1 .. Len(registry) : d \in registry[i].dfbs
      BY <1>2 DEF Captured, ToSet
    <3>2. PICK j \in ThreadPlaces(items) : rank(j) = i
      BY <1>1, <1>2, RanksAreAll DEF ThreadPlaces
    <3>3. registry[i].dfbs = {made[k] : k \in body[j].dfbs}
      BY <3>2 DEF MadeBy, ThreadPlaces
    <3>4. body[j].dfbs \subseteq UsedDfbs(items)
      BY DEF UsedDfbs
    <3> QED BY <1>1, <3>1, <3>3, <3>4
  <2>2. ASSUME NEW k \in 1 .. N PROVE made[k] \in D
    <3>1. PICK j \in ThreadPlaces(items) : k \in body[j].dfbs
      BY <1>1 DEF UsedDfbs
    <3>2. rank(j) \in 1 .. Len(registry)
      BY <1>1, <1>2, RankInRange DEF ThreadPlaces
    <3>3. made[k] \in registry[rank(j)].dfbs
      BY <3>1 DEF MadeBy, ThreadPlaces
    <3> QED BY <1>2, <3>2, <3>3 DEF Captured, ToSet
  <2> HIDE DEF D
  <2> QED BY <2>1, <2>2
<1>4. /\ \A k \in 1 .. N : made[k] \in D /\ made[k].index + 1 = k
      /\ \A d \in D : d.index + 1 \in 1 .. N
  BY <1>1, <1>2, <1>3
<1> HIDE DEF D
<1>5. Len(Configs(D)) = N
  <2> DEFINE S == {0} \cup {d.index + 1 : d \in D}
  <2>1. S \in SUBSET Nat /\ S # {} /\ \A x \in S : x <= N
    BY <1>1, <1>4
  <2>2. Max(S) \in S /\ \A y \in S : Max(S) >= y
    <3> HIDE DEF S
    <3> QED BY <1>1, <2>1, MaxIsThere
  <2>3. N \in S
    BY <1>1, <1>4
  <2>4. Max(S) = N
    <3> HIDE DEF S, N
    <3>1. Max(S) \in Nat /\ Max(S) <= N /\ Max(S) >= N
      BY <2>1, <2>2, <2>3
    <3>2. N \in Nat
      BY <1>1
    <3> QED BY <3>1, <3>2
  <2>5. Configs(D) = [i \in 1 .. N |-> IF \E d \in D : d.index = i - 1
                                        THEN CHOOSE d \in D : d.index = i - 1 ELSE None]
    BY <2>4 DEF Configs
  <2> QED BY <1>1, <2>5
<1>6. ASSUME NEW i \in 1 .. N
      PROVE  /\ Configs(D)[i] # None /\ Configs(D)[i].tiles = DfbItem(items, i).tiles
             /\ Configs(D)[i].blocks = DfbItem(items, i).blocks
  <2>1. D \subseteq {made[k] : k \in 1 .. Len(made)}
    BY <1>1, <1>3
  <2>2. Configs(D)[i] = made[i]
    <3>1. Len(made) \in Nat /\ \A k \in 1 .. Len(made) : made[k].index = k - 1
      BY <1>1, <1>2
    <3>2. \A d \in D : Configs(D)[d.index + 1] = d
      BY <2>1, <3>1, ConfigsAre
    <3>3. made[i] \in D /\ made[i].index + 1 = i
      BY <1>4
    <3> QED BY <3>2, <3>3
  <2>3. made[i] # None
    BY <1>1, <1>2 DEF None
  <2>4. i \in 1 .. Cardinality(Places(items, Len(body), "dfb"))
    BY <1>1 DEF DfbPlaces
  <2>5. /\ Nth(DfbPlaces(items), i) \in DfbPlaces(items)
        /\ Cardinality(Places(items, Nth(DfbPlaces(items), i), "dfb")) = i
    BY <1>1, <2>4, NthPlace DEF DfbPlaces
  <2>6. made[i].tiles = DfbItem(items, i).tiles /\ made[i].blocks = DfbItem(items, i).blocks
    BY <2>5 DEF MadeBy, DfbItem, DfbPlaces
  <2> QED BY <2>2, <2>3, <2>6
<1> QED BY <1>5, <1>6

(* The compiler's buffers come behind, and their sizes are the call's.     *)
LEMMA MergedIs ==
  ASSUME CallsOk, NEW c \in Calls, NEW configs, IsSeq(configs)
  PROVE  LET merged == Merged(c, configs)
             n == Len(configs)
         IN  /\ IsSeq(merged) /\ Len(merged) = n + Len(Intermediates(c)) /\ Len(Intermediates(c)) \in Nat
             /\ \A i \in 1 .. Len(merged) :
                  merged[i] = IF i <= n THEN configs[i]
                              ELSE [made |-> -1, index |-> i - 1, tiles |-> Intermediates(c)[i - n], blocks |-> 1]
<1> DEFINE n == Len(configs)
           k == Len(Intermediates(c))
           added == [i \in DOMAIN Intermediates(c) |->
                       [made |-> -1, index |-> n + i - 1, tiles |-> Intermediates(c)[i], blocks |-> 1]]
           T == {configs[i] : i \in 1 .. n} \cup {added[i] : i \in 1 .. k}
<1>1. Intermediates(c) \in Seq(Nat)
  BY DEF Intermediates, CallsOk
<1>2. k \in Nat /\ DOMAIN Intermediates(c) = 1 .. k /\ n \in Nat
  BY <1>1 DEF IsSeq
<1>3. Merged(c, configs) = configs \o added
  BY DEF Merged
<1>4. \A i \in 1 .. k : added[i] = [made |-> -1, index |-> n + i - 1, tiles |-> Intermediates(c)[i], blocks |-> 1]
  BY <1>2
<1>5. IsSeq(added) /\ Len(added) = k
  <2>1. added = [i \in 1 .. k |-> added[i]]
    BY <1>2
  <2> HIDE DEF added
  <2>2. Len(added) = k
    BY <1>2, <2>1
  <2> QED BY <1>2, <2>1, <2>2 DEF IsSeq
<1> HIDE DEF added
<1>6. configs \in Seq(T) /\ added \in Seq(T)
  <2>1. (\A i \in 1 .. n : configs[i] \in T) /\ \A i \in 1 .. k : added[i] \in T
    OBVIOUS
  <2> HIDE DEF T
  <2> QED BY <1>5, <2>1, SeqIn
<1> HIDE DEF T
<1>7. /\ configs \o added \in Seq(T) /\ Len(configs \o added) = n + k
      /\ \A i \in 1 .. n + k : (configs \o added)[i] = IF i <= n THEN configs[i] ELSE added[i - n]
  BY <1>2, <1>5, <1>6
<1>8. IsSeq(configs \o added)
  <2>1. \A s \in Seq(T) : Len(s) \in Nat /\ s = [i \in 1 .. Len(s) |-> s[i]]
    OBVIOUS
  <2> QED BY <1>7, <2>1 DEF IsSeq
<1>9. ASSUME NEW i \in 1 .. n + k
      PROVE  (configs \o added)[i] =
               IF i <= n THEN configs[i]
               ELSE [made |-> -1, index |-> i - 1, tiles |-> Intermediates(c)[i - n], blocks |-> 1]
  <2>1. CASE i <= n
    BY <1>7, <2>1
  <2>2. CASE ~(i <= n)
    <3>1. i - n \in 1 .. k /\ n + (i - n) - 1 = i - 1
      BY <1>2, <2>2
    <3>2. added[i - n] = [made |-> -1, index |-> i - 1, tiles |-> Intermediates(c)[i - n], blocks |-> 1]
      BY <1>4, <3>1
    <3> QED BY <1>7, <2>2, <3>2
  <2> QED BY <2>1, <2>2
<1> QED BY <1>2, <1>3, <1>7, <1>8, <1>9

LEMMA SameSizesSameTiles ==
  ASSUME CallsOk, NEW c \in Calls, NEW x, NEW y, IsSeq(x), IsSeq(y), Len(x) = Len(y),
         \A i \in 1 .. Len(x) : x[i].tiles = y[i].tiles /\ x[i].blocks = y[i].blocks
  PROVE  Tiles(Merged(c, x)) = Tiles(Merged(c, y))
<1> DEFINE p == Merged(c, x)
           q == Merged(c, y)
           n == Len(x)
           extra(i) == [made |-> -1, index |-> i - 1, tiles |-> Intermediates(c)[i - n], blocks |-> 1]
<1>1. Len(p) = Len(q) /\ Len(p) \in Nat
  BY MergedIs DEF IsSeq
<1>2. ASSUME NEW i \in 1 .. Len(p) PROVE p[i].tiles * p[i].blocks = q[i].tiles * q[i].blocks
  <2>1. p[i] = (IF i <= n THEN x[i] ELSE extra(i)) /\ q[i] = (IF i <= n THEN y[i] ELSE extra(i))
    BY <1>1, MergedIs
  <2> HIDE DEF p, q, extra
  <2>2. CASE i <= n
    <3>1. i \in 1 .. n
      BY <1>1, <2>2 DEF IsSeq
    <3> QED BY <2>1, <2>2, <3>1
  <2>3. CASE ~(i <= n)
    BY <2>1, <2>3
  <2> QED BY <2>2, <2>3
<1> HIDE DEF p, q
<1>3. [i \in 1 .. Len(p) |-> p[i].tiles * p[i].blocks] = [i \in 1 .. Len(q) |-> q[i].tiles * q[i].blocks]
  BY <1>1, <1>2
<1>4. Tiles(p) = Tiles(q)
  BY <1>3 DEF Tiles
<1> QED BY <1>4 DEF p, q

LEMMA UpTo == ASSUME NEW n \in Nat PROVE IsFiniteSet(1 .. n) /\ Cardinality(1 .. n) = n
BY FS_Interval

Fits(c, configs) ==
  NoGap(Run(c).body) =>
    Tiles(configs) = Tiles(Merged(c, OwnDfbs(Run(c).body))) /\ \A i \in DOMAIN configs : configs[i] # None
Launchable(c, k) == InOrder(c) => Fits(c, k.configs) /\ k.count = Len(c.args)

LEMMA LoweredFits ==
  ASSUME CallsOk, NEW c \in Calls, NEW configs, IsSeq(configs), SizedAs(Run(c).body, configs)
  PROVE  /\ Fits(c, Merged(c, configs))
         /\ NoGap(Run(c).body) => Len(Merged(c, configs)) = Cardinality(UsedDfbs(Run(c).body)) + Len(Intermediates(c))
<1> SUFFICES ASSUME NoGap(Run(c).body)
             PROVE  /\ Tiles(Merged(c, configs)) = Tiles(Merged(c, OwnDfbs(Run(c).body)))
                    /\ \A i \in DOMAIN Merged(c, configs) : Merged(c, configs)[i] # None
                    /\ Len(Merged(c, configs)) = Cardinality(UsedDfbs(Run(c).body)) + Len(Intermediates(c))
  BY DEF Fits
<1> DEFINE N == Cardinality(UsedDfbs(Run(c).body))
           own == OwnDfbs(Run(c).body)
<1>1. N \in Nat
  BY UsedWereMade
<1>2. /\ Len(configs) = N
      /\ \A i \in 1 .. N : /\ configs[i] # None /\ configs[i].tiles = DfbItem(Run(c).body, i).tiles
                           /\ configs[i].blocks = DfbItem(Run(c).body, i).blocks
  BY DEF SizedAs
<1>3. IsSeq(own) /\ Len(own) = N /\ \A i \in 1 .. N : own[i] = DfbItem(Run(c).body, i)
  <2>1. own = [i \in 1 .. N |-> DfbItem(Run(c).body, i)]
    BY DEF OwnDfbs
  <2> HIDE DEF own, N
  <2>2. Len(own) = N /\ \A i \in 1 .. N : own[i] = DfbItem(Run(c).body, i)
    BY <1>1, <2>1
  <2>3. own = [i \in 1 .. N |-> own[i]]
    BY <1>1, <2>1
  <2> QED BY <1>1, <2>2, <2>3 DEF IsSeq
<1>4. Tiles(Merged(c, configs)) = Tiles(Merged(c, own))
  <2> HIDE DEF own, N
  <2> QED BY <1>2, <1>3, SameSizesSameTiles
<1>5. ASSUME NEW i \in DOMAIN Merged(c, configs) PROVE Merged(c, configs)[i] # None
  <2>1. i \in 1 .. Len(Merged(c, configs)) /\ Len(Merged(c, configs)) \in Nat
    BY MergedIs DEF IsSeq
  <2>2. Merged(c, configs)[i] =
          IF i <= Len(configs) THEN configs[i]
          ELSE [made |-> -1, index |-> i - 1, tiles |-> Intermediates(c)[i - Len(configs)], blocks |-> 1]
    BY <2>1, MergedIs
  <2>3. CASE i <= N
    <3>1. i \in 1 .. N
      BY <1>1, <2>1, <2>3
    <3>2. Merged(c, configs)[i] = configs[i]
      BY <1>2, <2>2, <2>3
    <3> QED BY <1>2, <3>1, <3>2
  <2>4. CASE ~(i <= N)
    BY <1>2, <2>2, <2>4 DEF None
  <2> QED BY <2>3, <2>4
<1>6. Len(Merged(c, configs)) = N + Len(Intermediates(c))
  BY <1>2, MergedIs
<1> QED BY <1>4, <1>5, <1>6

(* What a cached kernel needs is the same for two calls with its key that  *)
(* have the same keywords, and so is the number of tensors.                *)
LEMMA SameKeyFits ==
  ASSUME NEW c \in Calls, NEW d \in Calls, CacheKey(c) = CacheKey(d), c.keywords = d.keywords,
         NEW configs, Fits(c, configs)
  PROVE  Fits(d, configs)
<1>1. Run(c) = Run(d) /\ Compared(CompilerOptions(c)) = Compared(CompilerOptions(d))
  BY DEF CacheKey, Run
<1>2. CompilerOptions(c)["compiler_dfbs"] = CompilerOptions(d)["compiler_dfbs"]
  <2>1. \A o : Compared(o)["compiler_dfbs"] = o["compiler_dfbs"]
    BY DEF Compared, Restrict, Options
  <2> QED BY <1>1, <2>1
<1>3. Intermediates(c) = Intermediates(d)
  BY <1>1, <1>2 DEF Intermediates
<1>4. Merged(c, OwnDfbs(Run(c).body)) = Merged(d, OwnDfbs(Run(d).body))
  BY <1>1, <1>3 DEF Merged
<1> QED BY <1>1, <1>4 DEF Fits

LEMMA SameKeyCounted ==
  ASSUME CallsOk, NEW c \in Calls, NEW d \in Calls, CacheKey(c) = CacheKey(d), TensorsOk(c.args),
         NEW k, k.count = Len(c.args)
  PROVE  InOrder(d) => k.count = Len(d.args)
<1> SUFFICES ASSUME InOrder(d) PROVE Len(c.args) = Len(d.args)
  OBVIOUS
<1>1. /\ Len(c.args) \in Nat /\ DOMAIN c.args = 1 .. Len(c.args)
      /\ Len(d.args) \in Nat /\ DOMAIN d.args = 1 .. Len(d.args)
  BY DEF CallsOk
<1>2. Cardinality(TtnnPlaces(c.args)) \in Nat
  <2>1. IsFiniteSet(1 .. Len(c.args)) /\ TtnnPlaces(c.args) \subseteq 1 .. Len(c.args)
    BY <1>1, UpTo DEF TtnnPlaces
  <2> QED BY <2>1, FS_Subset, FS_CardinalityType
<1>3. Cardinality(TtnnPlaces(d.args)) = Len(d.args) /\ Len(d.args) # 0
  <2>1. TtnnPlaces(d.args) = 1 .. Len(d.args)
    BY <1>1 DEF InOrder, TtnnPlaces, ToSet
  <2>2. Cardinality(1 .. Len(d.args)) = Len(d.args)
    BY <1>1, UpTo
  <2>3. Placed(d.args) # {}
    BY DEF InOrder, HasDevice
  <2>4. DOMAIN d.args # {}
    BY <2>3 DEF Placed
  <2> QED BY <1>1, <2>1, <2>2, <2>4
<1>4. 1 .. Cardinality(TtnnPlaces(c.args)) = 1 .. Cardinality(TtnnPlaces(d.args))
  <2>1. TensorKey(c.args) = TensorKey(d.args)
    BY DEF CacheKey
  <2>2. \A args : DOMAIN TensorKey(args) = 1 .. Cardinality(TtnnPlaces(args))
    BY DEF TensorKey
  <2> QED BY <2>1, <2>2
<1>5. \A m, n \in Nat : 1 .. m = 1 .. n => m = n
  <2> SUFFICES ASSUME NEW m \in Nat, NEW n \in Nat, 1 .. m = 1 .. n PROVE m = n
    OBVIOUS
  <2>1. Cardinality(1 .. m) = m /\ Cardinality(1 .. n) = n
    BY UpTo
  <2> QED BY <2>1
<1>6. Cardinality(TtnnPlaces(c.args)) = Len(d.args)
  BY <1>1, <1>2, <1>3, <1>4, <1>5
<1>7. Cardinality(TtnnPlaces(c.args)) \in {0, Len(c.args)}
  BY DEF TensorsOk
<1> QED BY <1>3, <1>6, <1>7

-----------------------------------------------------------------------------
(* What keeps a call in order from failing: in every stage the build is    *)
(* what the operation's body and the call's options say, whatever ran      *)
(* before.                                                                 *)
ArgsRegistered == \A t \in ToSet(call.args) : t \in DOMAIN tensorIndex
ThreadsOf(items, k) ==
  \A i \in DOMAIN k.threads : \E j \in ThreadPlaces(items) :
    k.threads[i].compiles = items[j].compiles /\ k.threads[i].tensors = items[j].tensors

GoodBody ==
  phase = "body" =>
    ArgsRegistered /\ build.compiled = <<>> /\ MadeBy(Run(call).body, build.at - 1, build.dfbs, threadRegistry)
GoodThreads ==
  phase = "threads" =>
    /\ ArgsRegistered /\ ThreadsOf(Run(call).body, build) /\ SizedAs(Run(call).body, build.configs)
    /\ IsSeq(build.compiled) /\ Len(build.compiled) <= Len(build.threads)
GoodLowered ==
  phase = "lowered" => Fits(call, build.configs) /\ Len(build.compiled) = Cardinality(ThreadPlaces(Run(call).body))
GoodLaunch == phase = "launch" => Launchable(call, build)
GoodCache ==
  \A key \in DOMAIN cache : \E c \in Calls :
    /\ GridResolves(c) /\ CacheKey(c) = key /\ Fits(c, cache[key].configs)
    /\ TensorsOk(c.args) /\ cache[key].count = Len(c.args)

GInv == GoodBody /\ GoodThreads /\ GoodLowered /\ GoodLaunch /\ GoodCache /\ GoodCallsSucceed

LEMMA GoodInit == LaunchInit => GInv
BY DEF LaunchInit, GInv, GoodBody, GoodThreads, GoodLowered, GoodLaunch, GoodCache, GoodCallsSucceed

LEMMA GoodFail ==
  ASSUME GInv, phase' \in {"failed", "idle"}, cache' = cache, phase' = "failed" => ~InOrder(call')
  PROVE  GInv'
<1>1. GoodBody' /\ GoodThreads' /\ GoodLowered' /\ GoodLaunch' /\ GoodCallsSucceed'
  BY DEF GoodBody, GoodThreads, GoodLowered, GoodLaunch, GoodCallsSucceed
<1>2. GoodCache'
  BY DEF GInv, GoodCache
<1> QED BY <1>1, <1>2 DEF GInv

LEMMA DecorateGood == ASSUME GInv, Decorate PROVE GInv'
<1>1. phase' = phase /\ phase' \in {"failed", "idle"} /\ cache' = cache /\ call' = call
  BY DEF Decorate, Ready
<1>2. phase' = "failed" => ~InOrder(call')
  BY <1>1 DEF GInv, GoodCallsSucceed
<1> QED BY <1>1, <1>2, GoodFail

LEMMA CallFailsGood == ASSUME GInv, NEW c \in Calls, CallFails(c) PROVE GInv'
<1>1. phase' = "failed" /\ cache' = cache /\ call' = c /\ ~(GridResolves(c) /\ OptionsAreKnown(c))
  BY DEF CallFails, Begin, Fail
<1>2. ~InOrder(c)
  BY <1>1 DEF InOrder, GridResolves
<1> QED BY <1>1, <1>2, GoodFail

LEMMA CallHitsGood == ASSUME GInv, CallsOk, NEW c \in Calls, CallHits(c) PROVE GInv'
<1>1. /\ cache' = cache /\ call' = c /\ CacheKey(c) \in DOMAIN cache
      /\ build' = cache[CacheKey(c)] /\ phase' \in {"launch", "idle"}
  BY DEF CallHits, Begin
<1>2. GoodBody' /\ GoodThreads' /\ GoodLowered' /\ GoodCallsSucceed'
  BY <1>1 DEF GoodBody, GoodThreads, GoodLowered, GoodCallsSucceed
<1>3. GoodCache'
  BY <1>1 DEF GInv, GoodCache
<1>4. PICK d \in Calls : /\ GridResolves(d) /\ CacheKey(d) = CacheKey(c) /\ Fits(d, build'.configs)
                         /\ TensorsOk(d.args) /\ build'.count = Len(d.args)
  BY <1>1 DEF GInv, GoodCache
<1>5. Launchable(c, build')
  <2> SUFFICES ASSUME InOrder(c) PROVE Fits(c, build'.configs) /\ build'.count = Len(c.args)
    BY DEF Launchable
  <2>1. d.keywords = c.keywords
    BY <1>4, SameKey DEF InOrder, KeyDecides
  <2> QED BY <1>4, <2>1, SameKeyFits, SameKeyCounted
<1>6. GoodLaunch'
  BY <1>1, <1>5 DEF GoodLaunch
<1> QED BY <1>2, <1>3, <1>6 DEF GInv

LEMMA CallCompilesGood == ASSUME GInv, NEW c \in Calls, CallCompiles(c) PROVE GInv'
<1>1. /\ cache' = cache /\ call' = c /\ phase' = "body" /\ threadRegistry' = <<>> /\ tensorIndex' = Register(c.args)
      /\ build' = [at |-> 1, dfbs |-> <<>>, threads |-> <<>>, configs |-> <<>>, compiled |-> <<>>, base |-> 0]
  BY DEF CallCompiles, Begin, FreshRegistry, NoBuild
<1>2. GoodThreads' /\ GoodLowered' /\ GoodLaunch' /\ GoodCallsSucceed'
  BY <1>1 DEF GoodThreads, GoodLowered, GoodLaunch, GoodCallsSucceed
<1>3. GoodCache'
  BY <1>1 DEF GInv, GoodCache
<1>4. ArgsRegistered'
  <2>1. \A t \in ToSet(c.args) : t \in DOMAIN Register(c.args)
    BY DEF Register, Merge
  <2> QED BY <1>1, <2>1 DEF ArgsRegistered
<1>5. MadeBy(Run(c).body, 0, <<>>, <<>>)
  BY MadeFromTheStart
<1>6. GoodBody'
  <2>1. build'.at - 1 = 0 /\ build'.dfbs = <<>> /\ build'.compiled = <<>>
    BY <1>1
  <2>2. MadeBy(Run(call').body, build'.at - 1, build'.dfbs, threadRegistry')
    BY <1>1, <1>5, <2>1
  <2> QED BY <1>4, <2>1, <2>2 DEF GoodBody
<1> QED BY <1>2, <1>3, <1>6 DEF GInv

LEMMA BodyDfbGood == ASSUME IInv, GInv, CallsOk, BodyDfb PROVE GInv'
<1> DEFINE d == [made |-> calls, index |-> cbCount, tiles |-> Item.tiles, blocks |-> Item.blocks]
           n == build.at - 1
           items == Run(call).body
<1>1. /\ phase = "body" /\ build.at <= Len(Body) /\ Item.do = "dfb"
      /\ UNCHANGED <<threadRegistry, tensorIndex, cache, phase, call>>
      /\ build' = [build EXCEPT !.at = @ + 1, !.dfbs = Append(@, d)]
  BY DEF BodyDfb, AtItem
<1>2. /\ items \in {Run(c).body : c \in Calls} /\ ABuild(build) /\ build.at \in 1 .. Len(Body) + 1
      /\ Follows(items, n, calls, build.dfbs, threadRegistry)
      /\ ArgsRegistered /\ build.compiled = <<>> /\ MadeBy(items, n, build.dfbs, threadRegistry)
  BY <1>1 DEF IInv, InBody, GInv, GoodBody
<1>3. /\ build'.at = build.at + 1 /\ build'.dfbs = Append(build.dfbs, d) /\ build'.compiled = build.compiled
  <2> HIDE DEF d
  <2> QED BY <1>1, <1>2 DEF ABuild
<1>4. PICK c \in Calls : Run(c).body = items
  BY <1>2
<1>5. Len(Body) \in Nat /\ n \in Nat /\ n + 1 = build.at /\ n < Len(Body)
  <2>1. Len(Body) \in Nat
    BY <1>4 DEF CallsOk, Body
  <2> QED BY <1>1, <1>2, <2>1
<1>6. MadeBy(items, n + 1, Append(build.dfbs, d), threadRegistry)
  <2>1. Item = items[n + 1]
    BY <1>5 DEF Item, Body
  <2>2. /\ items[n + 1].do = "dfb" /\ d.tiles = items[n + 1].tiles
        /\ d.blocks = items[n + 1].blocks
    BY <1>1, <2>1
  <2>3. \A j \in Places(items, n, "thread") :
          items[j].dfbs \subseteq 1 .. Cardinality(Places(items, j, "dfb"))
    <3> SUFFICES ASSUME NEW j \in Places(items, n, "thread")
                 PROVE  items[j].dfbs \subseteq 1 .. Cardinality(Places(items, j, "dfb"))
      OBVIOUS
    <3>1. j \in 1 .. n /\ items[j].do = "thread"
      BY DEF Places
    <3>2. j \in 1 .. Len(items)
      BY <1>5, <3>1 DEF Body
    <3>3. j \in Places(Run(c).body, Len(Run(c).body), "thread")
      BY <1>4, <3>1, <3>2 DEF Places
    <3> QED BY <1>4, <3>3 DEF CallsOk
  <2> HIDE DEF d, n, items
  <2> QED BY <1>2, <1>5, <2>2, <2>3, MadeDfb
<1>7. GoodBody'
  <2>1. build'.at - 1 = n + 1
    BY <1>2, <1>3, <1>5
  <2>2. MadeBy(Run(call').body, build'.at - 1, build'.dfbs, threadRegistry')
    BY <1>1, <1>3, <1>6, <2>1
  <2>3. ArgsRegistered'
    BY <1>1, <1>2 DEF ArgsRegistered
  <2> QED BY <1>2, <1>3, <2>2, <2>3 DEF GoodBody
<1>8. GoodThreads' /\ GoodLowered' /\ GoodLaunch' /\ GoodCallsSucceed'
  BY <1>1 DEF GoodThreads, GoodLowered, GoodLaunch, GoodCallsSucceed
<1>9. GoodCache'
  BY <1>1 DEF GInv, GoodCache
<1> QED BY <1>7, <1>8, <1>9 DEF GInv

LEMMA BodyThreadGood == ASSUME IInv, GInv, CallsOk, BodyThread PROVE GInv'
<1> DEFINE t == [made |-> calls, kind |-> Item.kind, dfbs |-> {build.dfbs[i] : i \in Item.dfbs},
                 tensors |-> Item.tensors, compiles |-> Item.compiles]
           n == build.at - 1
           items == Run(call).body
<1>1. /\ phase = "body" /\ build.at <= Len(Body) /\ Item.do = "thread"
      /\ UNCHANGED <<tensorIndex, cache, phase, call>> /\ threadRegistry' = Append(threadRegistry, t)
      /\ build' = [build EXCEPT !.at = @ + 1]
  BY DEF BodyThread, AtItem
<1>2. /\ call \in Calls /\ ABuild(build) /\ build.at \in 1 .. Len(Body) + 1
      /\ Follows(items, n, calls, build.dfbs, threadRegistry)
      /\ ArgsRegistered /\ build.compiled = <<>> /\ MadeBy(items, n, build.dfbs, threadRegistry)
  BY <1>1 DEF IInv, InBody, GInv, GoodBody
<1>3. /\ build'.at = build.at + 1 /\ build'.dfbs = build.dfbs /\ build'.compiled = build.compiled
  BY <1>1, <1>2 DEF ABuild
<1>4. n \in Nat /\ n + 1 = build.at
  <2>1. Len(Body) \in Nat
    BY <1>2 DEF CallsOk, Body
  <2> QED BY <1>2, <2>1
<1>5. MadeBy(items, n + 1, build.dfbs, Append(threadRegistry, t))
  <2>1. Item = items[n + 1]
    BY <1>4 DEF Item, Body
  <2>2. /\ items[n + 1].do = "thread" /\ t.compiles = items[n + 1].compiles
        /\ t.dfbs = {build.dfbs[k] : k \in items[n + 1].dfbs}
    BY <1>1, <2>1
  <2> HIDE DEF t, n, items
  <2> QED BY <1>2, <1>4, <2>2, MadeThread
<1> HIDE DEF t
<1>6. GoodBody'
  <2>1. build'.at - 1 = n + 1
    BY <1>2, <1>3, <1>4
  <2>2. MadeBy(Run(call').body, build'.at - 1, build'.dfbs, threadRegistry')
    BY <1>1, <1>3, <1>5, <2>1
  <2>3. ArgsRegistered'
    BY <1>1, <1>2 DEF ArgsRegistered
  <2> QED BY <1>2, <1>3, <2>2, <2>3 DEF GoodBody
<1>7. GoodThreads' /\ GoodLowered' /\ GoodLaunch' /\ GoodCallsSucceed'
  BY <1>1 DEF GoodThreads, GoodLowered, GoodLaunch, GoodCallsSucceed
<1>8. GoodCache'
  BY <1>1 DEF GInv, GoodCache
<1> QED BY <1>6, <1>7, <1>8 DEF GInv

LEMMA BodyFailsGood == ASSUME IInv, GInv, CallsOk, BodyFails PROVE GInv'
<1>1. /\ phase = "body" /\ build.at <= Len(Body) /\ phase' = "failed" /\ cache' = cache /\ call' = call
      /\ Item.do = "raise" \/ (Item.do = "dfb" /\ ~DfbOk(Item))
  BY DEF BodyFails, AtItem, Fail
<1>2. call \in Calls /\ build.at \in 1 .. Len(Body) + 1
  BY <1>1 DEF IInv, InBody
<1>3. Len(Body) \in Nat /\ DOMAIN Body = 1 .. Len(Body)
  BY <1>2 DEF CallsOk, Body
<1>4. Item \in ToSet(Body)
  <2>1. build.at \in DOMAIN Body
    BY <1>1, <1>2, <1>3
  <2> QED BY <2>1 DEF Item, ToSet
<1>5. ~InOrder(call)
  BY <1>1, <1>4 DEF InOrder, Body
<1> QED BY <1>1, <1>5, GoodFail

LEMMA CollectThreadsGood == ASSUME IInv, GInv, CallsOk, CollectThreads PROVE GInv'
<1> DEFINE items == Run(call).body
           body == Run(call).body
           rank(j) == Cardinality(Places(Run(call).body, j, "thread"))
<1>1. phase = "body" /\ build.at > Len(Body) /\ UNCHANGED <<tensorIndex, cache, call>>
  BY DEF CollectThreads
<1>2. /\ call \in Calls /\ ABuild(build) /\ build.at \in 1 .. Len(Body) + 1
      /\ Follows(items, build.at - 1, calls, build.dfbs, threadRegistry)
      /\ ArgsRegistered /\ build.compiled = <<>> /\ MadeBy(items, build.at - 1, build.dfbs, threadRegistry)
  BY <1>1 DEF IInv, InBody, GInv, GoodBody
<1>3. Len(body) \in Nat /\ build.at - 1 = Len(body)
  <2>1. Len(body) \in Nat
    BY <1>2 DEF CallsOk
  <2>2. build.at \in 1 .. Len(body) + 1 /\ build.at > Len(body)
    BY <1>1, <1>2 DEF Body
  <2> QED BY <2>1, <2>2
<1>4. /\ Follows(items, Len(body), calls, build.dfbs, threadRegistry)
      /\ MadeBy(items, Len(body), build.dfbs, threadRegistry)
  BY <1>2, <1>3
<1>5. /\ DOMAIN threadRegistry = 1 .. Len(threadRegistry) /\ Len(threadRegistry) = Cardinality(ThreadPlaces(items))
      /\ Len(threadRegistry) \in Nat
      /\ \A j \in ThreadPlaces(items) : ThreadAt(items, j, threadRegistry[rank(j)])
  BY <1>4 DEF Follows, ThreadPlaces
<1>6. CASE threadRegistry = <<>> \/ ~Run(call).netsOk
  <2>1. phase' = "failed"
    BY <1>6 DEF CollectThreads, Fail
  <2>2. ~InOrder(call)
    BY <1>5, <1>6, SMTT(30) DEF InOrder
  <2> QED BY <1>1, <2>1, <2>2, GoodFail
<1>7. CASE ~(threadRegistry = <<>> \/ ~Run(call).netsOk)
  <2>1. /\ phase' = "threads"
        /\ build' = [build EXCEPT !.threads = threadRegistry, !.configs = Configs(Captured(threadRegistry))]
    BY <1>7 DEF CollectThreads
  <2>2. /\ build'.threads = threadRegistry /\ build'.configs = Configs(Captured(threadRegistry))
        /\ build'.compiled = <<>>
    BY <1>2, <2>1 DEF ABuild
  <2>3. SizedAs(items, build'.configs)
    BY <1>2, <1>4, <2>2, SizedFromBody
  <2>4. ThreadsOf(items, build')
    <3> SUFFICES ASSUME NEW i \in DOMAIN threadRegistry
                 PROVE  \E j \in ThreadPlaces(items) : /\ threadRegistry[i].compiles = body[j].compiles
                                                    /\ threadRegistry[i].tensors = body[j].tensors
      BY <2>2 DEF ThreadsOf
    <3>1. PICK j \in ThreadPlaces(items) : rank(j) = i
      BY <1>3, <1>5, RanksAreAll DEF ThreadPlaces
    <3>2. threadRegistry[i].tensors = body[j].tensors
      BY <1>5, <3>1 DEF ThreadAt
    <3>3. threadRegistry[i].compiles = body[j].compiles
      BY <1>4, <3>1 DEF MadeBy, ThreadPlaces
    <3> QED BY <3>2, <3>3
  <2>5. IsSeq(build'.compiled) /\ Len(build'.compiled) <= Len(build'.threads)
    <3>1. Len(build'.compiled) = 0 /\ build'.compiled = [i \in 1 .. 0 |-> build'.compiled[i]]
      BY <2>2
    <3> QED BY <1>5, <2>2, <3>1 DEF IsSeq
  <2>6. ArgsRegistered'
    BY <1>1, <1>2 DEF ArgsRegistered
  <2>7. (ThreadsOf(Run(call).body, build))' /\ (SizedAs(Run(call).body, build.configs))' /\ (IsSeq(build.compiled))'
    BY <1>1, <2>3, <2>4, <2>5
  <2>8. GoodThreads'
    BY <2>5, <2>6, <2>7 DEF GoodThreads
  <2>9. GoodBody' /\ GoodLowered' /\ GoodLaunch' /\ GoodCallsSucceed'
    BY <2>1 DEF GoodBody, GoodLowered, GoodLaunch, GoodCallsSucceed
  <2>10. GoodCache'
    BY <1>1 DEF GInv, GoodCache
  <2> QED BY <2>8, <2>9, <2>10 DEF GInv
<1> QED BY <1>6, <1>7

LEMMA CompileThreadGood == ASSUME IInv, GInv, CallsOk, CompileThread PROVE GInv'
<1> DEFINE next == Len(build.compiled) + 1
           t == build.threads[next]
           c == [kind |-> t.kind, tensors |-> t.tensors,
                 indices |-> [i \in DOMAIN t.tensors |-> tensorIndex[Resolve(t.tensors[i])]]]
<1>1. phase = "threads" /\ next <= Len(build.threads) /\ UNCHANGED <<tensorIndex, cache, call>>
  BY DEF CompileThread
<1>2. /\ call \in Calls /\ ABuild(build) /\ Collected(Run(call).body, build)
      /\ ArgsRegistered /\ ThreadsOf(Run(call).body, build) /\ SizedAs(Run(call).body, build.configs)
      /\ IsSeq(build.compiled) /\ Len(build.compiled) <= Len(build.threads)
  BY <1>1 DEF IInv, InThreads, GInv, GoodThreads
<1>3. next \in DOMAIN build.threads /\ Len(build.threads) \in Nat /\ Len(build.compiled) \in Nat
  <2>1. Len(build.threads) \in Nat /\ DOMAIN build.threads = 1 .. Len(build.threads)
    BY <1>2 DEF Collected
  <2> QED BY <1>1, <1>2, <2>1 DEF IsSeq
<1>4. CASE ~CompilesHere(t)
  <2>1. phase' = "failed"
    BY <1>4 DEF CompileThread, Fail
  <2>2. PICK j \in ThreadPlaces(Run(call).body) : /\ t.compiles = Run(call).body[j].compiles
                                           /\ t.tensors = Run(call).body[j].tensors
    BY <1>2, <1>3 DEF ThreadsOf
  <2>3. ASSUME InOrder(call) PROVE CompilesHere(t)
    <3>1. t.compiles
      BY <2>2, <2>3 DEF InOrder
    <3>2. ASSUME NEW i \in DOMAIN t.tensors PROVE Resolve(t.tensors[i]) \in DOMAIN tensorIndex
      <4>1. t.tensors[i][1] = "param" /\ t.tensors[i][2] \in DOMAIN call.args
        BY <2>2, <2>3 DEF InOrder
      <4>2. Resolve(t.tensors[i]) \in ToSet(call.args)
        BY <4>1 DEF Resolve, ToSet
      <4> QED BY <1>2, <4>2 DEF ArgsRegistered
    <3> QED BY <3>1, <3>2 DEF CompilesHere
  <2>4. ~InOrder(call)
    BY <1>4, <2>3
  <2> QED BY <1>1, <2>1, <2>4, GoodFail
<1>5. CASE CompilesHere(t)
  <2>1. phase' = phase /\ build' = [build EXCEPT !.compiled = Append(@, c), !.base = cbCount]
    BY <1>5 DEF CompileThread
  <2> HIDE DEF c
  <2>2. /\ build'.threads = build.threads /\ build'.configs = build.configs
        /\ build'.compiled = Append(build.compiled, c)
    BY <1>2, <2>1 DEF ABuild
  <2>3. IsSeq(build'.compiled) /\ Len(build'.compiled) = next
    BY <1>2, <2>2, AppendGrows
  <2>4. ArgsRegistered'
    BY <1>1, <1>2 DEF ArgsRegistered
  <2>5. ThreadsOf(Run(call).body, build') /\ SizedAs(Run(call).body, build'.configs)
    BY <1>2, <2>2 DEF ThreadsOf
  <2>6. (ThreadsOf(Run(call).body, build))' /\ (SizedAs(Run(call).body, build.configs))' /\ (IsSeq(build.compiled))'
    BY <1>1, <2>3, <2>5
  <2>7. GoodThreads'
    BY <1>1, <2>2, <2>3, <2>4, <2>6 DEF GoodThreads
  <2>8. GoodBody' /\ GoodLowered' /\ GoodLaunch' /\ GoodCallsSucceed'
    BY <1>1, <2>1 DEF GoodBody, GoodLowered, GoodLaunch, GoodCallsSucceed
  <2>9. GoodCache'
    BY <1>1 DEF GInv, GoodCache
  <2> QED BY <2>7, <2>8, <2>9 DEF GInv
<1> QED BY <1>4, <1>5

LEMMA LowerGood == ASSUME IInv, GInv, CallsOk, Lower PROVE GInv'
<1> DEFINE configs == Merged(call, build.configs)
<1>1. /\ phase = "threads" /\ Len(build.compiled) = Len(build.threads) /\ UNCHANGED <<cache, call>>
  BY DEF Lower
<1>2. /\ call \in Calls /\ ABuild(build) /\ Collected(Run(call).body, build) /\ SizedAs(Run(call).body, build.configs)
  BY <1>1 DEF IInv, InThreads, GInv, GoodThreads
<1>3. IsSeq(build.configs) /\ Len(build.threads) = Cardinality(ThreadPlaces(Run(call).body))
  BY <1>2 DEF Collected, IsSeq, ThreadPlaces
<1>4. /\ Fits(call, configs)
      /\ NoGap(Run(call).body) => Len(configs) = Cardinality(UsedDfbs(Run(call).body)) + Len(Intermediates(call))
  BY <1>2, <1>3, LoweredFits
<1> HIDE DEF configs
<1>5. CASE ~(Len(configs) <= MaxCBs /\ Tiles(configs) <= Budget(call))
  <2>1. phase' = "failed"
    BY <1>5 DEF Lower, Fail, configs
  <2>2. ASSUME InOrder(call) PROVE FALSE
    <3>1. /\ NoGap(Run(call).body) /\ Cardinality(UsedDfbs(Run(call).body)) + Len(Intermediates(call)) <= MaxCBs
          /\ Tiles(Merged(call, OwnDfbs(Run(call).body))) <= Budget(call)
      BY <2>2 DEF InOrder, NoGap
    <3>2. Len(configs) <= MaxCBs
      BY <1>4, <3>1
    <3>3. Tiles(configs) <= Budget(call)
      BY <1>4, <3>1 DEF Fits
    <3> QED BY <1>5, <3>2, <3>3
  <2> QED BY <1>1, <2>1, <2>2, GoodFail
<1>6. CASE Len(configs) <= MaxCBs /\ Tiles(configs) <= Budget(call)
  <2>1. phase' = "lowered" /\ build' = [build EXCEPT !.configs = configs, !.base = CBArgsBase(configs)]
    BY <1>6 DEF Lower, configs
  <2>2. build'.configs = configs /\ build'.compiled = build.compiled
    BY <1>2, <2>1 DEF ABuild
  <2>3. (Fits(call, build.configs))'
    BY <1>1, <1>4, <2>2
  <2>4. GoodLowered'
    BY <1>1, <1>3, <2>2, <2>3 DEF GoodLowered
  <2>5. GoodBody' /\ GoodThreads' /\ GoodLaunch' /\ GoodCallsSucceed'
    BY <2>1 DEF GoodBody, GoodThreads, GoodLaunch, GoodCallsSucceed
  <2>6. GoodCache'
    BY <1>1 DEF GInv, GoodCache
  <2> QED BY <2>4, <2>5, <2>6 DEF GInv
<1> QED BY <1>5, <1>6

LEMMA BuildKernelGood == ASSUME IInv, GInv, CallsOk, BuildKernel PROVE GInv'
<1> DEFINE kernel ==
             [threads |-> build.threads, compiled |-> build.compiled, configs |-> build.configs, base |-> build.base,
              roles |-> [i \in 1 .. 3 |-> Role(build.compiled, i)], grid |-> ResolveGrid(call),
              tensors |-> TensorKey(call.args), count |-> Len(call.args), mesh |-> MeshShape(call.args),
              arch |-> TargetArch(call.args), options |-> Compared(CompilerOptions(call))]
<1>1. phase = "lowered" /\ UNCHANGED call
  BY DEF BuildKernel
<1>2. /\ call \in Calls /\ GridResolves(call) /\ Fits(call, build.configs)
      /\ Len(build.compiled) = Cardinality(ThreadPlaces(Run(call).body))
  BY <1>1 DEF IInv, InLowered, GInv, GoodLowered
<1>3. CASE ~(TensorsOk(call.args) /\ Len(build.compiled) = 3)
  <2>1. phase' = "failed" /\ cache' = cache
    BY <1>3 DEF BuildKernel, Fail
  <2>2. ~InOrder(call)
    BY <1>2, <1>3 DEF InOrder
  <2> QED BY <1>1, <2>1, <2>2, GoodFail
<1>4. CASE TensorsOk(call.args) /\ Len(build.compiled) = 3
  <2>1. /\ cache' = Merge(cache, [k \in {CacheKey(call)} |-> kernel]) /\ build' = kernel
        /\ phase' \in {"launch", "idle"}
    BY <1>4 DEF BuildKernel
  <2>2. kernel.configs = build.configs /\ kernel.count = Len(call.args)
    OBVIOUS
  <2> HIDE DEF kernel
  <2>3. /\ DOMAIN cache' = DOMAIN cache \cup {CacheKey(call)} /\ cache'[CacheKey(call)] = kernel
        /\ \A key \in DOMAIN cache : key # CacheKey(call) => cache'[key] = cache[key]
    BY <2>1 DEF Merge
  <2>4. GoodCache'
    <3>1. ASSUME NEW key \in DOMAIN cache'
          PROVE  \E c \in Calls : /\ GridResolves(c) /\ CacheKey(c) = key /\ Fits(c, cache'[key].configs)
                                  /\ TensorsOk(c.args) /\ cache'[key].count = Len(c.args)
      <4>1. CASE key = CacheKey(call)
        BY <1>2, <1>4, <2>2, <2>3, <4>1
      <4>2. CASE key # CacheKey(call)
        BY <2>3, <4>2 DEF GInv, GoodCache
      <4> QED BY <4>1, <4>2
    <3> QED BY <3>1 DEF GoodCache
  <2>5. (Launchable(call, build))'
    <3>1. Launchable(call, kernel)
      BY <1>2, <2>2 DEF Launchable
    <3> QED BY <1>1, <2>1, <3>1
  <2>6. GoodLaunch'
    BY <2>5 DEF GoodLaunch
  <2>7. GoodBody' /\ GoodThreads' /\ GoodLowered' /\ GoodCallsSucceed'
    BY <2>1 DEF GoodBody, GoodThreads, GoodLowered, GoodCallsSucceed
  <2> QED BY <2>4, <2>6, <2>7 DEF GInv
<1> QED BY <1>3, <1>4

LEMMA LaunchKernelGood == ASSUME IInv, GInv, CallsOk, LaunchKernel PROVE GInv'
<1>1. phase = "launch" /\ phase' \in {"failed", "idle"} /\ UNCHANGED <<cache, call>>
  BY DEF LaunchKernel
<1>2. call \in Calls /\ Serves(build, call) /\ Launchable(call, build)
  BY <1>1 DEF IInv, InLaunch, GInv, GoodLaunch
<1>3. ASSUME InOrder(call) PROVE LaunchOk(call, build)
  <2>1. Len(call.args) = build.count /\ HasDevice(call.args) /\ Fits(call, build.configs)
    BY <1>2, <1>3 DEF Launchable, InOrder
  <2>2. build.grid = ResolveGrid(call) /\ \A axis \in 1 .. 2 : ResolveGrid(call)[axis] <= DeviceOf(call.args).grid[axis]
    <3>1. PICK d \in Calls : GridResolves(d) /\ Alike(d, call) /\ build.grid = ResolveGrid(d)
      BY <1>2 DEF Serves, IsKernelOf
    <3>2. KeyDecides(call) /\ \A axis \in 1 .. 2 : ResolveGrid(call)[axis] <= DeviceOf(call.args).grid[axis]
      BY <1>3 DEF InOrder
    <3> QED BY <3>1, <3>2 DEF KeyDecides
  <2>3. NoGap(Run(call).body) /\ Tiles(Merged(call, OwnDfbs(Run(call).body))) <= call.l1
    BY <1>3 DEF InOrder, NoGap
  <2>4. (\A i \in DOMAIN build.configs : build.configs[i] # None) /\ Tiles(build.configs) <= call.l1
    BY <2>1, <2>3 DEF Fits
  <2> QED BY <2>1, <2>2, <2>4 DEF LaunchOk
<1>4. phase' = "failed" => ~LaunchOk(call, build)
  BY DEF LaunchKernel
<1> QED BY <1>1, <1>3, <1>4, GoodFail

(* Whether a call succeeds does not depend on the calls before it: after   *)
(* bodies that raised half way, threads decorated elsewhere and calls that *)
(* were refused, a call that is in order does not fail (ttl_api.py:        *)
(* _compile clears the list and the counter, and registers the arguments). *)
THEOREM OrderlyCallsSucceed == ASSUME CallsOk PROVE LaunchSpec => []GoodCallsSucceed
<1>1. LaunchInit => GInv
  BY GoodInit
<1>2. IInv /\ GInv /\ [LaunchNext]_launchVars => GInv'
  <2> SUFFICES ASSUME IInv, GInv, [LaunchNext]_launchVars PROVE GInv'
    OBVIOUS
  <2>1. CASE UNCHANGED launchVars
    <3>1. /\ phase' = phase /\ call' = call /\ build' = build /\ cache' = cache /\ tensorIndex' = tensorIndex
          /\ threadRegistry' = threadRegistry
      BY <2>1 DEF launchVars
    <3>2. ArgsRegistered' = ArgsRegistered
      BY <3>1 DEF ArgsRegistered
    <3>3. /\ (MadeBy(Run(call).body, build.at - 1, build.dfbs, threadRegistry))' =
               MadeBy(Run(call).body, build.at - 1, build.dfbs, threadRegistry)
          /\ (ThreadsOf(Run(call).body, build))' = ThreadsOf(Run(call).body, build)
          /\ (SizedAs(Run(call).body, build.configs))' = SizedAs(Run(call).body, build.configs)
          /\ (IsSeq(build.compiled))' = IsSeq(build.compiled)
          /\ (Fits(call, build.configs))' = Fits(call, build.configs)
          /\ (Launchable(call, build))' = Launchable(call, build)
      BY <3>1
    <3>4. GoodBody' /\ GoodThreads' /\ GoodLowered' /\ GoodLaunch'
      BY <3>1, <3>2, <3>3 DEF GInv, GoodBody, GoodThreads, GoodLowered, GoodLaunch
    <3>5. GoodCache' /\ GoodCallsSucceed'
      BY <3>1 DEF GInv, GoodCache, GoodCallsSucceed
    <3> QED BY <3>4, <3>5 DEF GInv
  <2>2. CASE MakeCall
    BY <2>2, CallFailsGood, CallHitsGood, CallCompilesGood DEF MakeCall
  <2>3. CASE LaunchNext /\ ~MakeCall
    BY <2>3, DecorateGood, BodyDfbGood, BodyThreadGood, BodyFailsGood, CollectThreadsGood, CompileThreadGood,
       LowerGood, BuildKernelGood, LaunchKernelGood DEF LaunchNext
  <2> QED BY <2>1, <2>2, <2>3
<1>3. GInv => GoodCallsSucceed
  BY DEF GInv
<1> QED BY <1>1, <1>2, <1>3, Invariance, PTL DEF LaunchSpec
=============================================================================
