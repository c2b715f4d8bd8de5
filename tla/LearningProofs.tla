--------------------------- MODULE LearningProofs ---------------------------
(* Theorems about Learning, for any finite set of tasks, any kinds, lengths  *)
(* and limits, and any number of errors and crashes.                         *)
EXTENDS Learning, FiniteSetTheorems, SequenceTheorems, TLAPS

----------------------------------------------------------------------------
(* Sums over sequences *)

\* Induction over a set of numbers; LongestIsOne and the facts about Total need it.
LEMMA AllNumbers ==
  ASSUME NEW S, 0 \in S, \A n \in Nat : n \in S => n + 1 \in S
  PROVE  Nat \subseteq S
<1> DEFINE T == Nat \ S
           R == OpToRel(<, Nat)
<1>1. SUFFICES ASSUME T # {} PROVE FALSE
  OBVIOUS
<1>2. \E x \in T : \A y \in T : ~ (<<y, x>> \in R)
  <2>1. T \subseteq Nat
    OBVIOUS
  <2> HIDE DEF T, R
  <2>2. IsWellFoundedOn(R, Nat)
    BY NatLessThanWellFounded DEF R
  <2> QED BY <1>1, <2>1, <2>2, WFMin
<1>3. PICK x \in T : \A y \in T : ~ (<<y, x>> \in R)
  BY <1>2
<1>4. x \in Nat /\ x \notin S /\ x # 0
  OBVIOUS
<1>5. x - 1 \in Nat /\ x - 1 < x
  BY <1>4
<1>6. x - 1 \in S
  BY <1>3, <1>4, <1>5 DEF OpToRel
<1>7. (x - 1) + 1 \in S
  BY <1>5, <1>6
<1> QED BY <1>4, <1>7

Short(n) == {s \in Seq(Task) : Len(s) <= n}

\* Sums of w over the sequences of at most n tasks.
Sums(w, n) ==
  {f \in [Short(n) -> Nat] :
     \A s \in Short(n) : f[s] = IF s = <<>> THEN 0 ELSE w[Head(s)] + f[Tail(s)]}

LEMMA TailShort ==
  ASSUME NEW s \in Seq(Task), s # <<>>
  PROVE  /\ Head(s) \in Task /\ Tail(s) \in Seq(Task)
         /\ Len(s) \in Nat /\ Len(s) >= 1 /\ Len(Tail(s)) = Len(s) - 1 /\ Len(Tail(s)) \in Nat
<1>1. Len(s) \in Nat \ {0}
  BY EmptySeq
<1>2. Tail(s) \in Seq(Task) /\ Len(Tail(s)) = Len(s) - 1 /\ Head(s) = s[1]
  BY HeadTailProperties
<1>3. Head(s) \in Task
  BY <1>1, <1>2, ElementOfSeq
<1> QED BY <1>1, <1>2, <1>3

LEMMA SumsExist ==
  ASSUME NEW w \in [Task -> Nat], NEW n \in Nat
  PROVE  Sums(w, n) # {}
<1> DEFINE S == {k \in Nat : Sums(w, k) # {}}
<1>1. 0 \in S
  <2> DEFINE f == [s \in Short(0) |-> 0]
  <2>1. \A s \in Short(0) : s = <<>>
    <3> TAKE s \in Short(0)
    <3>1. s \in Seq(Task) /\ Len(s) <= 0
      BY DEF Short
    <3> QED BY <3>1, EmptySeq
  <2>2. f \in Sums(w, 0)
    BY <2>1 DEF Sums
  <2> QED BY <2>2
<1>2. ASSUME NEW k \in Nat, k \in S PROVE k + 1 \in S
  <2>1. PICK f \in [Short(k) -> Nat] :
          \A s \in Short(k) : f[s] = IF s = <<>> THEN 0 ELSE w[Head(s)] + f[Tail(s)]
    BY <1>2 DEF Sums
  <2> DEFINE g == [s \in Short(k + 1) |-> IF s = <<>> THEN 0 ELSE w[Head(s)] + f[Tail(s)]]
  <2>2. ASSUME NEW s \in Short(k + 1), s # <<>>
        PROVE  Head(s) \in Task /\ Tail(s) \in Short(k) /\ Tail(s) \in Short(k + 1)
    <3>1. s \in Seq(Task) /\ Len(s) <= k + 1
      BY DEF Short
    <3>2. Tail(s) \in Seq(Task) /\ Len(Tail(s)) <= k /\ Len(Tail(s)) <= k + 1
      BY <2>2, <3>1, TailShort
    <3> QED BY <2>2, <3>1, <3>2, TailShort DEF Short
  <2>3. g \in [Short(k + 1) -> Nat]
    <3>1. ASSUME NEW s \in Short(k + 1), s # <<>> PROVE w[Head(s)] + f[Tail(s)] \in Nat
      <4>1. w[Head(s)] \in Nat /\ f[Tail(s)] \in Nat
        BY <2>1, <2>2, <3>1
      <4> QED BY <4>1
    <3> QED BY <3>1
  <2>4. ASSUME NEW s \in Short(k) PROVE s \in Short(k + 1) /\ g[s] = f[s]
    <3>1. s \in Seq(Task) /\ Len(s) <= k /\ Len(s) \in Nat
      BY LenProperties DEF Short
    <3>2. s \in Short(k + 1)
      BY <3>1 DEF Short
    <3> QED BY <2>1, <3>2
  <2>5. ASSUME NEW s \in Short(k + 1)
        PROVE  g[s] = IF s = <<>> THEN 0 ELSE w[Head(s)] + g[Tail(s)]
    BY <2>2, <2>4
  <2>6. g \in Sums(w, k + 1)
    <3> HIDE DEF g
    <3> QED BY <2>3, <2>5 DEF Sums
  <2> QED BY <2>6
<1>3. Nat \subseteq S
  <2> HIDE DEF S
  <2> QED BY <1>1, <1>2, AllNumbers
<1> QED BY <1>3

LEMMA SumsAgree ==
  ASSUME NEW w, NEW k \in Nat, NEW m \in Nat, NEW f \in Sums(w, k), NEW g \in Sums(w, m),
         NEW t \in Short(k), t \in Short(m)
  PROVE  f[t] = g[t]
<1> DEFINE S == {n \in Nat : \A s \in Seq(Task) :
                   (Len(s) <= n /\ Len(s) <= k /\ Len(s) <= m) => f[s] = g[s]}
<1>0. /\ \A s \in Short(k) : f[s] = IF s = <<>> THEN 0 ELSE w[Head(s)] + f[Tail(s)]
      /\ \A s \in Short(m) : g[s] = IF s = <<>> THEN 0 ELSE w[Head(s)] + g[Tail(s)]
  BY DEF Sums
<1>1. ASSUME NEW s \in Seq(Task), Len(s) <= k, Len(s) <= m, s = <<>> PROVE f[s] = g[s]
  BY <1>0, <1>1 DEF Short
<1>2. 0 \in S
  <2>1. ASSUME NEW s \in Seq(Task), Len(s) <= 0 PROVE s = <<>>
    BY <2>1, EmptySeq
  <2> QED BY <1>1, <2>1
<1>3. ASSUME NEW n \in Nat, n \in S PROVE n + 1 \in S
  <2>1. ASSUME NEW s \in Seq(Task), Len(s) <= n + 1, Len(s) <= k, Len(s) <= m, s # <<>>
        PROVE  f[s] = g[s]
    <3>1. /\ Tail(s) \in Seq(Task) /\ Len(Tail(s)) <= n /\ Len(Tail(s)) <= k /\ Len(Tail(s)) <= m
      BY <2>1, TailShort
    <3>2. f[Tail(s)] = g[Tail(s)]
      BY <1>3, <3>1
    <3>3. s \in Short(k) /\ s \in Short(m)
      BY <2>1 DEF Short
    <3> QED BY <1>0, <2>1, <3>2, <3>3
  <2> QED BY <1>1, <2>1
<1>4. Nat \subseteq S
  <2> HIDE DEF S
  <2> QED BY <1>2, <1>3, AllNumbers
<1>5. k \in S /\ t \in Seq(Task) /\ Len(t) <= k /\ Len(t) <= m
  BY <1>4 DEF Short
<1> QED BY <1>5

\* Total adds w up, task after task.
LEMMA TotalFacts ==
  ASSUME NEW w \in [Task -> Nat]
  PROVE  /\ Total(w, <<>>) = 0
         /\ \A s \in Seq(Task) : Total(w, s) \in Nat
         /\ \A s \in Seq(Task) : s # <<>> => Total(w, s) = w[Head(s)] + Total(w, Tail(s))
<1> DEFINE F == [n \in Nat |-> CHOOSE f \in Sums(w, n) : TRUE]
           h == [s \in Seq(Task) |-> F[Len(s)][s]]
           Adds(f) == f = [s \in Seq(Task) |-> IF s = <<>> THEN 0 ELSE w[Head(s)] + f[Tail(s)]]
           c == CHOOSE f : Adds(f)
<1>1. \A n \in Nat : F[n] \in Sums(w, n)
  BY SumsExist
<1>2. ASSUME NEW s \in Seq(Task) PROVE h[s] = IF s = <<>> THEN 0 ELSE w[Head(s)] + h[Tail(s)]
  <2>1. Len(s) \in Nat /\ s \in Short(Len(s)) /\ h[s] = F[Len(s)][s] /\ F[Len(s)] \in Sums(w, Len(s))
    <3>1. Len(s) \in Nat
      BY LenProperties
    <3> QED BY <1>1, <3>1 DEF Short
  <2>2. h[s] = IF s = <<>> THEN 0 ELSE w[Head(s)] + F[Len(s)][Tail(s)]
    <3> HIDE DEF F, h
    <3> QED BY <2>1 DEF Sums
  <2>3. ASSUME s # <<>> PROVE F[Len(s)][Tail(s)] = h[Tail(s)]
    <3>1. Tail(s) \in Seq(Task) /\ Len(Tail(s)) \in Nat /\ Len(Tail(s)) <= Len(s)
      BY <2>1, <2>3, TailShort
    <3>2. Tail(s) \in Short(Len(s)) /\ Tail(s) \in Short(Len(Tail(s)))
      BY <3>1 DEF Short
    <3>3. h[Tail(s)] = F[Len(Tail(s))][Tail(s)] /\ F[Len(Tail(s))] \in Sums(w, Len(Tail(s)))
      BY <1>1, <3>1
    <3> HIDE DEF F, h
    <3> QED BY <2>1, <3>1, <3>2, <3>3, SumsAgree
  <2> QED BY <2>2, <2>3
<1>3. Adds(h)
  <2>1. h = [s \in Seq(Task) |-> h[s]]
    OBVIOUS
  <2> HIDE DEF h
  <2> QED BY <1>2, <2>1
<1>4. Adds(c)
  <2> HIDE DEF h, Adds
  <2> QED BY <1>3
<1>5. \A s \in Seq(Task) : Total(w, s) = c[s]
  BY DEF Total
<1>6. \A s \in Seq(Task) : c[s] = IF s = <<>> THEN 0 ELSE w[Head(s)] + c[Tail(s)]
  <2> HIDE DEF c
  <2> QED BY <1>4
<1> DEFINE S == {n \in Nat : \A s \in Seq(Task) : Len(s) <= n => c[s] \in Nat}
<1> HIDE DEF F, h, c, Adds
<1>7. Nat \subseteq S
  <2>1. 0 \in S
    <3>1. ASSUME NEW s \in Seq(Task), Len(s) <= 0 PROVE s = <<>>
      BY <3>1, EmptySeq
    <3> QED BY <1>6, <3>1
  <2>2. ASSUME NEW n \in Nat, n \in S PROVE n + 1 \in S
    <3>1. ASSUME NEW s \in Seq(Task), Len(s) <= n + 1 PROVE c[s] \in Nat
      <4>1. CASE s = <<>>
        <5>1. c[s] = 0
          BY <1>6, <4>1
        <5> QED BY <5>1
      <4>2. CASE s # <<>>
        <5>1. Head(s) \in Task /\ Tail(s) \in Seq(Task) /\ Len(Tail(s)) <= n
          BY <3>1, <4>2, TailShort
        <5>2. c[Tail(s)] \in Nat /\ w[Head(s)] \in Nat
          BY <2>2, <5>1
        <5> QED BY <1>6, <4>2, <5>2
      <4> QED BY <4>1, <4>2
    <3> QED BY <3>1
  <2> HIDE DEF S
  <2> QED BY <2>1, <2>2, AllNumbers
<1>8. ASSUME NEW s \in Seq(Task) PROVE c[s] \in Nat
  <2>1. Len(s) \in Nat
    BY LenProperties
  <2> QED BY <1>7, <2>1
<1>9. ASSUME NEW s \in Seq(Task), s # <<>> PROVE c[s] = w[Head(s)] + c[Tail(s)] /\ Tail(s) \in Seq(Task)
  BY <1>6, <1>9, TailShort
<1>10. <<>> \in Seq(Task)
  BY EmptySeq
<1> QED BY <1>5, <1>6, <1>8, <1>9, <1>10

----------------------------------------------------------------------------
(* Plans and chunks *)

Once(s) == \A i, j \in 1 .. Len(s) : s[i] = s[j] => i = j

LEMMA LongestIsOne ==
  ASSUME NEW L \in Nat, NEW S \in SUBSET (0 .. L), S # {}
  PROVE  Longest(S) \in S /\ \A m \in S : m <= Longest(S)
<1> DEFINE B == {k \in Nat : (\E n \in S : L - n <= k) => \E n \in S : \A m \in S : m <= n}
<1>1. 0 \in B
  BY Z3
<1>2. ASSUME NEW k \in Nat, k \in B PROVE k + 1 \in B
  <2>1. SUFFICES ASSUME NEW n \in S, L - n <= k + 1 PROVE \E x \in S : \A m \in S : m <= x
    OBVIOUS
  <2>2. CASE \E m \in S : L - m <= k
    BY <1>2, <2>2
  <2>3. CASE \A m \in S : ~ (L - m <= k)
    <3>1. \A m \in S : m <= n
      BY <2>1, <2>3
    <3> QED BY <3>1
  <2> QED BY <2>2, <2>3
<1>3. Nat \subseteq B
  <2> HIDE DEF B
  <2> QED BY <1>1, <1>2, AllNumbers
<1>4. PICK n \in S : TRUE
  OBVIOUS
<1>5. L - n \in Nat /\ L - n <= L - n
  OBVIOUS
<1>6. \E x \in S : \A m \in S : m <= x
  BY <1>3, <1>4, <1>5
<1> QED BY <1>6 DEF Longest

LEMMA LongestOfFinite ==
  ASSUME NEW S \in SUBSET Nat, S # {}, IsFiniteSet(S)
  PROVE  Longest(S) \in S /\ \A m \in S : m <= Longest(S)
<1>1. PICK n \in Nat : ExistsBijection(1 .. n, S)
  BY FS_NatBijection
<1>2. PICK f \in Bijection(1 .. n, S) : TRUE
  BY <1>1 DEF ExistsBijection
<1>3. f \in [1 .. n -> S] /\ \A m \in S : \E i \in 1 .. n : f[i] = m
  BY <1>2 DEF Bijection, Surjection, Injection
<1> DEFINE B == {k \in Nat : \E b \in Nat : \A i \in 1 .. n : i <= k => f[i] <= b}
<1>4. 0 \in B
  OBVIOUS
<1>5. ASSUME NEW k \in Nat, k \in B PROVE k + 1 \in B
  <2>1. PICK b \in Nat : \A i \in 1 .. n : i <= k => f[i] <= b
    BY <1>5
  <2> DEFINE Bound(c) == \A i \in 1 .. n : i <= k + 1 => f[i] <= c
  <2>2. ASSUME k + 1 \in 1 .. n PROVE \E c \in Nat : Bound(c)
    <3>1. f[k + 1] \in Nat
      BY <1>3, <2>2
    <3>2. PICK c \in Nat : b <= c /\ f[k + 1] <= c
      BY <3>1
    <3>3. ASSUME NEW i \in 1 .. n, i <= k + 1 PROVE f[i] <= c
      <4>1. CASE i = k + 1
        BY <3>2, <4>1
      <4>2. CASE i # k + 1
        <5>1. i <= k
          BY <3>3, <4>2
        <5>2. f[i] <= b
          BY <2>1, <5>1
        <5>3. f[i] \in Nat
          BY <1>3
        <5> QED BY <3>2, <5>2, <5>3
      <4> QED BY <4>1, <4>2
    <3> QED BY <3>2, <3>3
  <2>3. ASSUME k + 1 \notin 1 .. n PROVE \E c \in Nat : Bound(c)
    <3>1. ASSUME NEW i \in 1 .. n, i <= k + 1 PROVE i <= k
      BY <2>3, <3>1
    <3> QED BY <2>1, <3>1
  <2>4. \E c \in Nat : Bound(c)
    BY <2>2, <2>3
  <2>5. k + 1 \in Nat
    OBVIOUS
  <2> QED BY <2>4, <2>5
<1>6. Nat \subseteq B
  <2> HIDE DEF B
  <2> QED BY <1>4, <1>5, AllNumbers
<1>7. PICK b \in Nat : \A i \in 1 .. n : f[i] <= b
  <2>1. n \in B
    BY <1>6
  <2> QED BY <2>1
<1>8. S \in SUBSET (0 .. b)
  BY <1>3, <1>7
<1> QED BY <1>8, LongestIsOne

LEMMA ChunkLength ==
  ASSUME NEW s \in Seq(Task)
  PROVE  /\ Chunk(s) \in 0 .. Len(s) /\ Chunk(s) <= MaxTasks
         /\ Chunk(s) <= 1 \/ Cost(Prefix(s, Chunk(s))) <= Target
         /\ \A b \in Nat : LET n == CyberChunk(s, b)
                           IN  n \in 0 .. Len(s) /\ n <= MaxTasks /\ (n = 0 \/ Cost(Prefix(s, n)) <= b)
<1>1. Len(s) \in Nat /\ 0 \in 0 .. Len(s) /\ 0 <= MaxTasks
  BY LenProperties, LearningAssumption
<1>2. /\ Chunk(s) \in 0 .. Len(s) /\ Chunk(s) <= MaxTasks
      /\ Chunk(s) <= 1 \/ Cost(Prefix(s, Chunk(s))) <= Target
  <2> DEFINE C == {n \in 0 .. Len(s) : n <= MaxTasks /\ (n <= 1 \/ Cost(Prefix(s, n)) <= Target)}
  <2>1. 0 \in C
    BY <1>1
  <2>2. C \in SUBSET (0 .. Len(s)) /\ C # {}
    BY <2>1
  <2>3. Longest(C) \in C
    <3> HIDE DEF C
    <3> QED BY <1>1, <2>2, LongestIsOne
  <2> QED BY <2>3 DEF Chunk
<1>3. ASSUME NEW b \in Nat
      PROVE  LET n == CyberChunk(s, b)
             IN  n \in 0 .. Len(s) /\ n <= MaxTasks /\ (n = 0 \/ Cost(Prefix(s, n)) <= b)
  <2> DEFINE C == {n \in 0 .. Len(s) : n <= MaxTasks /\ (n = 0 \/ Cost(Prefix(s, n)) <= b)}
  <2>1. 0 \in C
    BY <1>1
  <2>2. C \in SUBSET (0 .. Len(s)) /\ C # {}
    BY <2>1
  <2>3. Longest(C) \in C
    <3> HIDE DEF C
    <3> QED BY <1>1, <2>2, LongestIsOne
  <2> QED BY <2>3 DEF CyberChunk
<1> QED BY <1>2, <1>3

LEMMA PrefixFacts ==
  ASSUME NEW s \in Seq(Task), Once(s), NEW n \in 0 .. Len(s)
  PROVE  /\ Prefix(s, n) \in Seq(Task) /\ Once(Prefix(s, n))
         /\ n = Len(s) => Prefix(s, n) = s
<1>1. /\ Prefix(s, n) \in Seq(Task) /\ Len(Prefix(s, n)) = n
      /\ \A i \in 1 .. n : Prefix(s, n)[i] = s[i]
  BY SubSeqProperties DEF Prefix
<1>2. Once(Prefix(s, n))
  BY <1>1 DEF Once
<1>3. n = Len(s) => Prefix(s, n) = s
  BY SubSeqFull DEF Prefix
<1> QED BY <1>1, <1>2, <1>3

LEMMA TailFacts ==
  ASSUME NEW s \in Seq(Task), s # <<>>, Once(s)
  PROVE  /\ Head(s) \in Task /\ Tail(s) \in Seq(Task) /\ Once(Tail(s))
         /\ Range(s) = {Head(s)} \union Range(Tail(s)) /\ Head(s) \notin Range(Tail(s))
<1>1. /\ Head(s) = s[1] /\ Tail(s) \in Seq(Task) /\ Len(s) >= 1 /\ Len(Tail(s)) = Len(s) - 1
      /\ \A i \in 1 .. Len(Tail(s)) : Tail(s)[i] = s[i + 1]
  BY HeadTailProperties
<1>2. DOMAIN s = 1 .. Len(s) /\ DOMAIN Tail(s) = 1 .. Len(Tail(s)) /\ Len(s) \in Nat
  BY <1>1
<1>3. Once(Tail(s)) /\ Head(s) \in Task
  BY <1>1, <1>2 DEF Once
<1>4. ASSUME NEW x PROVE x \in Range(s) <=> (x = Head(s) \/ x \in Range(Tail(s)))
  <2>1. x \in Range(s) => (x = Head(s) \/ x \in Range(Tail(s)))
    <3>1. HAVE x \in Range(s)
    <3>2. PICK i \in 1 .. Len(s) : x = s[i]
      BY <1>2, <3>1 DEF Range
    <3>3. CASE i = 1
      BY <1>1, <3>2, <3>3
    <3>4. CASE i # 1
      <4>1. i - 1 \in 1 .. Len(Tail(s)) /\ Tail(s)[i - 1] = s[i]
        BY <1>1, <1>2, <3>4
      <4> QED BY <1>2, <3>2, <4>1 DEF Range
    <3> QED BY <3>3, <3>4
  <2>2. x \in Range(Tail(s)) => x \in Range(s)
    <3>1. HAVE x \in Range(Tail(s))
    <3>2. PICK i \in 1 .. Len(Tail(s)) : x = Tail(s)[i]
      BY <1>2, <3>1 DEF Range
    <3>3. i + 1 \in 1 .. Len(s) /\ x = s[i + 1]
      BY <1>1, <1>2, <3>2
    <3> QED BY <1>2, <3>3 DEF Range
  <2>3. Head(s) \in Range(s)
    BY <1>1, <1>2 DEF Range
  <2> QED BY <2>1, <2>2, <2>3
<1>5. Head(s) \notin Range(Tail(s))
  BY <1>1, <1>2 DEF Once, Range
<1> QED BY <1>1, <1>3, <1>4, <1>5

\* A plan names tasks of S, each once, and unless one is asked for, all of them.
LEMMA PlanFacts ==
  ASSUME NEW S \in SUBSET Task, NEW s \in Plans(S)
  PROVE  /\ s \in Seq(Task) /\ Once(s)
         /\ scope.mode # "SINGLE_NEXT" => Range(s) = S
<1>1. IsFiniteSet(S) /\ Cardinality(S) \in Nat
  BY LearningAssumption, FS_Subset, FS_CardinalityType
<1>2. ASSUME NEW t \in Sorted(S) PROVE t \in Seq(Task) /\ Once(t) /\ Range(t) = S /\ Len(t) = Cardinality(S)
  <2>1. t \in [1 .. Cardinality(S) -> S] /\ Range(t) = S
    BY <1>2 DEF Sorted
  <2>2. t \in Seq(S) /\ Len(t) = Cardinality(S)
    BY <1>1, <2>1
  <2>3. t \in Surjection(1 .. Cardinality(S), S)
    BY <2>1 DEF Surjection, Range
  <2>4. IsFiniteSet(1 .. Cardinality(S)) /\ Cardinality(1 .. Cardinality(S)) = Cardinality(S)
    BY <1>1, FS_Interval
  <2>5. t \in Injection(1 .. Cardinality(S), S)
    BY <2>3, <2>4, FS_SurjSameCardinalityImpliesInj
  <2>6. Once(t)
    BY <2>1, <2>2, <2>5 DEF Injection, IsInjective, Once
  <2>7. t \in Seq(Task)
    BY <2>2
  <2> QED BY <2>1, <2>2, <2>6, <2>7
<1>3. CASE scope.mode = "SINGLE_NEXT" /\ S # {}
  <2>1. PICK t \in Sorted(S) : s = <<t[1]>>
    BY <1>3 DEF Plans
  <2>2. Cardinality(S) # 0
    BY <1>1, <1>3, FS_EmptySet
  <2>3. t[1] \in Task
    BY <1>1, <1>2, <2>2
  <2> QED BY <1>3, <2>1, <2>3 DEF Once
<1>4. CASE ~ (scope.mode = "SINGLE_NEXT" /\ S # {})
  BY <1>2, <1>4 DEF Plans
<1> QED BY <1>3, <1>4

----------------------------------------------------------------------------
(* Types *)

Run ==
  [pc : {"free", "session", "plan", "next", "play", "quiz", "verify", "report", "finish", "mail"},
   rest : Seq(Task), counted : SUBSET Task, elapsed : Nat, cut : BOOLEAN,
   reason : {"none", "nothing", "too long"}]

\* What is planned is planned once and not counted yet.
RunTyped ==
  /\ run \in Run /\ Once(run.rest) /\ run.counted \cap Range(run.rest) = {}
  /\ At("free") => run = Free
  /\ run.pc \in {"play", "quiz", "verify"} => run.rest # <<>>
  /\ run.pc \in {"session", "plan"} => run.counted = {}
  /\ run.pc \in {"report", "finish", "mail"} => run.rest = <<>>

\* A row is claimed again after a failure, while it has attempts left, or after
\* a crash; a worker's row runs or is canceled, and a row whose result is being
\* mailed is over.
RowTyped ==
  /\ row \in [status : {"none", "pending", "running", "succeeded", "failed", "canceled"},
              elapsed : Nat, attempts : Nat]
  /\ row.attempts <= MaxAttempts + faults
  /\ row.status = "pending" \/ (row.status = "running" /\ At("free"))
       => row.attempts < MaxAttempts + faults
  /\ run.pc \notin {"free", "mail"} => row.status \in {"running", "canceled"}
  /\ At("mail") => row.status \in {"succeeded", "canceled"}

OthersTyped ==
  /\ provider \in {"CU12", "CYBER_CAMPUS"} /\ seconds \in [Task -> Nat]
  /\ scope \in [mode : Mode, course : Nat]
  /\ done \subseteq Task /\ tries \in [Task -> Nat] /\ session \in Session
  /\ blind \in BOOLEAN /\ spent \in Nat /\ played \subseteq Task /\ mails \in Nat /\ faults \in 0 .. MaxFaults

TypeInv == RunTyped /\ RowTyped /\ OthersTyped

LEMMA Constants ==
  /\ MaxTasks \in Nat \ {0} /\ MaxAttempts \in Nat \ {0} /\ QuizLimit \in Nat \ {0} /\ Reading \in Nat \ {0}
  /\ Target \in Nat \ {0} /\ CyberTarget \in Nat \ {0} /\ ChainMax \in Nat \ {0} /\ MaxFaults \in Nat
  /\ \A t \in Task : CourseOf[t] \in Nat /\ Pos[t] \in Nat /\ Kind[t] \in Kinds
  /\ Course \subseteq Nat
BY LearningAssumption DEF Course, Range

LEMMA EmptyRange == Range(<<>>) = {} /\ <<>> \in Seq(Task) /\ Once(<<>>)
BY DEF Range, Once

LEMMA FreeTyped == Free \in Run /\ Once(Free.rest) /\ Free.counted \cap Range(Free.rest) = {}
BY EmptyRange DEF Free, Run

\* A worker that lets go of its row, or dies.
LEMMA EndTyped ==
  ASSUME TypeInv,
         \/ EndRun /\ UNCHANGED faults
         \/ run' = Free /\ row' = row /\ faults' = faults + 1
         \/ EndRun /\ faults' = faults + 1
         \/ run' = Free /\ row' = row /\ row.status # "running" /\ UNCHANGED faults,
         faults' <= MaxFaults, ~ At("free"), OthersTyped'
  PROVE  TypeInv'
<1>1. run' = Free
  BY DEF EndRun
<1>2. RunTyped'
  BY <1>1, FreeTyped, EmptyRange DEF RunTyped, At, Free
<1>3. RowTyped'
  <2>1. faults \in Nat /\ faults' \in {faults, faults + 1} /\ MaxAttempts \in Nat \ {0}
    BY Constants DEF TypeInv, OthersTyped
  <2>2. CASE EndRun
    BY <1>1, <2>1, <2>2 DEF EndRun, Retried, TypeInv, RowTyped, Active, At, Free
  <2>3. CASE ~ EndRun
    BY <1>1, <2>1, <2>3 DEF TypeInv, RowTyped, Active, At, Free
  <2> QED BY <2>2, <2>3
<1> QED BY <1>2, <1>3 DEF TypeInv

LEMMA RowStepTyped ==
  ASSUME TypeInv, Request \/ CancelRow \/ Claim \/ Reclaim \/ SessionLapses
  PROVE  TypeInv'
<1>1. CASE Request
  <2>1. row' = [NoRow EXCEPT !.status = "pending"] /\ UNCHANGED <<run, faults>>
    BY <1>1 DEF Request
  <2>2. RowTyped'
    BY <1>1, <2>1, Constants DEF Request, RowTyped, NoRow, TypeInv, OthersTyped, At
  <2>3. scope' \in [mode : Mode, course : Nat]
    BY <1>1, Constants DEF Request
  <2> QED BY <1>1, <2>1, <2>2, <2>3 DEF Request, TypeInv, RunTyped, OthersTyped, portal, At
<1>2. CASE CancelRow
  <2>1. row' = [row EXCEPT !.status = "canceled"] /\ UNCHANGED <<request, run, portal, session, history, mails, faults>>
    BY <1>2 DEF CancelRow
  <2>2. RowTyped'
    BY <2>1 DEF RowTyped, TypeInv, Active, At
  <2> QED BY <2>1, <2>2 DEF TypeInv, RunTyped, OthersTyped, request, portal, history, At
<1>3. CASE Claim
  <2>1. /\ row' = [row EXCEPT !.status = "running", !.attempts = @ + 1] /\ row.status = "pending" /\ At("free")
        /\ Goes(IF Cyber THEN "session" ELSE "plan")
        /\ UNCHANGED <<request, portal, session, history, mails, faults>>
    BY <1>3 DEF Claim
  <2>2. run = Free
    BY <2>1 DEF TypeInv, RunTyped
  <2>3. RunTyped' /\ ~ At("free")'
    BY <2>1, <2>2, FreeTyped DEF RunTyped, Run, Goes, At, Free
  <2>4. RowTyped'
    <3>1. /\ faults \in Nat /\ MaxAttempts \in Nat /\ faults' = faults
          /\ row.attempts \in Nat /\ row.attempts < MaxAttempts + faults
      BY <2>1, Constants DEF RowTyped, TypeInv, OthersTyped
    <3>2. row \in [status : {"none", "pending", "running", "succeeded", "failed", "canceled"},
                   elapsed : Nat, attempts : Nat]
      BY DEF TypeInv, RowTyped
    <3>3. row.attempts + 1 \in Nat
      BY <3>1
    <3>4. /\ row' \in [status : {"none", "pending", "running", "succeeded", "failed", "canceled"},
                       elapsed : Nat, attempts : Nat]
          /\ row'.attempts = row.attempts + 1 /\ row'.status = "running"
      BY <2>1, <3>2, <3>3
    <3>5. ~ At("mail")'
      BY <2>1, <2>2, FreeTyped DEF Goes, At, Free, Run
    <3> QED BY <2>3, <3>1, <3>4, <3>5 DEF RowTyped, At
  <2> QED BY <2>1, <2>3, <2>4 DEF TypeInv, OthersTyped, request, portal, history
<1>4. CASE Reclaim
  <2>1. /\ row' = [row EXCEPT !.status = Reclaimed] /\ row.status = "running" /\ At("free")
        /\ UNCHANGED <<request, run, portal, session, history, mails, faults>>
    BY <1>4 DEF Reclaim
  <2>2. RowTyped'
    BY <2>1 DEF RowTyped, TypeInv, Reclaimed, Active, At
  <2> QED BY <2>1, <2>2 DEF TypeInv, RunTyped, OthersTyped, request, portal, history, At
<1>5. CASE SessionLapses
  BY <1>5 DEF SessionLapses, TypeInv, RunTyped, RowTyped, OthersTyped, Session, Active,
     request, portal, history, At
<1> QED BY <1>1, <1>2, <1>3, <1>4, <1>5

LEMMA EndStepTyped ==
  ASSUME TypeInv,
         \/ Fail \/ Die \/ RestoreRefused \/ Refused \/ OpenFails \/ QuizFails \/ StopCanceled
         \/ Exhausted \/ NotConfirmed \/ ReportNothing \/ Mail
  PROVE  TypeInv'
<1>0. faults \in 0 .. MaxFaults /\ MaxFaults \in Nat
  BY Constants DEF TypeInv, OthersTyped
<1>1. CASE Fail
  <2>1. OthersTyped' /\ EndRun /\ faults' = faults + 1 /\ faults' <= MaxFaults /\ ~ At("free")
    BY <1>0, <1>1 DEF Fail, EndRun, TypeInv, OthersTyped, request, portal, history
  <2> QED BY <2>1, EndTyped
<1>2. CASE Die
  <2>1. /\ OthersTyped' /\ run' = Free /\ row' = row
        /\ faults' = faults + 1 /\ faults' <= MaxFaults /\ ~ At("free")
    BY <1>0, <1>2 DEF Die, TypeInv, OthersTyped, request, portal, history
  <2> QED BY <2>1, EndTyped
<1>3. CASE RestoreRefused \/ Refused \/ OpenFails \/ QuizFails \/ StopCanceled \/ NotConfirmed
  <2>1. OthersTyped' /\ EndRun /\ UNCHANGED faults /\ ~ At("free")
    BY <1>3 DEF RestoreRefused, Refused, OpenFails, QuizFails, StopCanceled, NotConfirmed,
       EndRun, TypeInv, OthersTyped, Session, At,
       request, portal, history
  <2> QED BY <1>0, <2>1, EndTyped
<1>4. CASE Exhausted
  <2>1. tries' \in [Task -> Nat]
    BY <1>4, Constants DEF Exhausted, TypeInv, OthersTyped
  <2>2. OthersTyped' /\ EndRun /\ UNCHANGED faults /\ ~ At("free")
    BY <1>4, <2>1 DEF Exhausted, EndRun, TypeInv, OthersTyped, At, request, history
  <2> QED BY <1>0, <2>2, EndTyped
<1>5. CASE ReportNothing
  <2>1. OthersTyped' /\ run' = Free /\ row' = row /\ row.status # "running" /\ UNCHANGED faults /\ ~ At("free")
    BY <1>5 DEF ReportNothing, TypeInv, OthersTyped, At, request, portal, history
  <2> QED BY <1>0, <2>1, EndTyped
<1>6. CASE Mail
  <2>1. /\ OthersTyped' /\ run' = Free /\ row' = row /\ UNCHANGED faults
        /\ row.status # "running" /\ ~ At("free")
    BY <1>6 DEF Mail, TypeInv, OthersTyped, RowTyped, Active, At, request, portal, history
  <2> QED BY <1>0, <2>1, EndTyped
<1> QED BY <1>1, <1>2, <1>3, <1>4, <1>5, <1>6

\* A step of a run that leaves the row alone and does not end.
LEMMA GoesTyped ==
  ASSUME TypeInv, UNCHANGED <<row, faults>>, OthersTyped', RunTyped',
         run.pc \notin {"free", "mail"}, run'.pc \notin {"free", "mail"}
  PROVE  TypeInv'
<1>1. RowTyped'
  BY DEF TypeInv, RowTyped, At
<1> QED BY <1>1 DEF TypeInv

LEMMA PlanTyped ==
  ASSUME TypeInv, NEW s \in Seq(Task), Once(s), NEW n \in 0 .. Len(s),
         NEW reason \in {"none", "nothing", "too long"}, At("plan"), Starts(s, n, reason)
  PROVE  /\ RunTyped' /\ run'.pc \notin {"free", "mail"}
         /\ run'.pc = "next" /\ run'.rest = Prefix(s, n) /\ run'.reason = reason
         /\ run'.cut = (n < Len(s) /\ reason = "none") /\ run'.counted = {}
<1>1. Prefix(s, n) \in Seq(Task) /\ Once(Prefix(s, n))
  BY PrefixFacts
<1>2. run \in Run /\ run.counted = {} /\ (n < Len(s) /\ reason = "none") \in BOOLEAN
  BY DEF TypeInv, RunTyped, At
<1>3. run' \in Run
  BY <1>1, <1>2 DEF Starts, Run
<1>4. /\ run'.pc = "next" /\ run'.rest = Prefix(s, n) /\ run'.reason = reason
      /\ run'.cut = (n < Len(s) /\ reason = "none") /\ run'.counted = {}
  BY <1>2 DEF Starts, Run
<1> QED BY <1>1, <1>3, <1>4 DEF RunTyped, At

\* What a plan is made from, after a fresh login when that is what it takes.
LEMMA ListedTasks ==
  Learnable \in SUBSET Task /\ (IF Believed THEN Listed ELSE Learnable) = Learnable
BY DEF Learnable, Listed, Believed

LEMMA PrepareTyped ==
  ASSUME TypeInv, EnsureSession \/ PlanCu12 \/ PlanCyber
  PROVE  TypeInv'
<1>1. OthersTyped'
  <2>1. blind' \in BOOLEAN
    BY DEF EnsureSession, PlanCu12, PlanCyber, TypeInv, OthersTyped, history
  <2>2. session' \in Session
    BY DEF EnsureSession, PlanCu12, PlanCyber, Restored, TypeInv, OthersTyped, Session
  <2>3. UNCHANGED <<provider, seconds, scope, done, tries, spent, played, mails, faults>>
    BY DEF EnsureSession, PlanCu12, PlanCyber, request, portal, history
  <2> QED BY <2>1, <2>2, <2>3 DEF TypeInv, OthersTyped
<1>2. UNCHANGED <<row, faults>> /\ run.pc \notin {"free", "mail"}
  BY DEF EnsureSession, PlanCu12, PlanCyber, At
<1>3. CASE EnsureSession
  <2>1. Goes("plan")
    BY <1>3 DEF EnsureSession
  <2>2. run \in Run /\ run.counted = {} /\ Once(run.rest)
    BY <1>3 DEF EnsureSession, At, TypeInv, RunTyped
  <2>3. run' \in Run /\ run'.pc = "plan" /\ run'.counted = {} /\ run'.rest = run.rest
    BY <2>1, <2>2 DEF Goes, Run
  <2>4. RunTyped' /\ run'.pc \notin {"free", "mail"}
    BY <2>1, <2>2, <2>3 DEF RunTyped, At
  <2> QED BY <1>1, <1>2, <2>4, GoesTyped
<1>4. CASE PlanCu12
  <2>1. PICK s \in Plans(Learnable) : Starts(s, Chunk(s), IF s = <<>> THEN "nothing" ELSE "none")
    BY <1>4 DEF PlanCu12
  <2>2. s \in Seq(Task) /\ Once(s)
    BY <2>1, ListedTasks, PlanFacts
  <2>3. RunTyped' /\ run'.pc \notin {"free", "mail"}
    BY <1>4, <2>1, <2>2, ChunkLength, PlanTyped DEF PlanCu12
  <2> QED BY <1>1, <1>2, <2>3, GoesTyped
<1>5. CASE PlanCyber
  <2>1. PICK s \in Plans(Learnable) : \E budget \in 0 .. CyberTarget :
          LET n == CyberChunk(s, budget)
          IN  Starts(s, n, IF s = <<>> THEN "nothing" ELSE IF TooLong(s, n) THEN "too long" ELSE "none")
    BY <1>5, ListedTasks DEF PlanCyber
  <2>2. PICK budget \in 0 .. CyberTarget :
          Starts(s, CyberChunk(s, budget),
                 IF s = <<>> THEN "nothing" ELSE IF TooLong(s, CyberChunk(s, budget)) THEN "too long" ELSE "none")
    BY <2>1
  <2>3. s \in Seq(Task) /\ Once(s)
    BY <2>1, ListedTasks, PlanFacts
  <2>4. budget \in Nat
    <3>1. CyberTarget \in Nat
      BY Constants
    <3> QED BY <3>1
  <2>5. RunTyped' /\ run'.pc \notin {"free", "mail"}
    BY <1>5, <2>2, <2>3, <2>4, ChunkLength, PlanTyped DEF PlanCyber
  <2> QED BY <1>1, <1>2, <2>5, GoesTyped
<1> QED BY <1>3, <1>4, <1>5

\* The task a run is at.
LEMMA NowTyped ==
  ASSUME TypeInv, run.rest # <<>>
  PROVE  /\ Now \in Task /\ Tail(run.rest) \in Seq(Task) /\ Once(Tail(run.rest))
         /\ Range(run.rest) = {Now} \union Range(Tail(run.rest)) /\ Now \notin Range(Tail(run.rest))
<1>1. run.rest \in Seq(Task) /\ Once(run.rest)
  BY DEF TypeInv, RunTyped, Run
<1> QED BY <1>1, TailFacts DEF Now

LEMMA TaskTyped ==
  ASSUME TypeInv, Open \/ Play \/ Answer \/ TaskDone
  PROVE  TypeInv'
<1>0. /\ run.rest # <<>> /\ run \in Run /\ Once(run.rest) /\ run.counted \cap Range(run.rest) = {}
      /\ done \subseteq Task /\ tries \in [Task -> Nat] /\ seconds \in [Task -> Nat]
  BY DEF Open, Play, Answer, TaskDone, At, TypeInv, RunTyped, OthersTyped
<1>1. Now \in Task
  BY <1>0, NowTyped
<1>2. UNCHANGED <<row, faults>> /\ run.pc \notin {"free", "mail"}
  BY DEF Open, Play, Answer, TaskDone, At
<1>3. CASE Open \/ Play \/ (Answer /\ Goes("verify"))
  <2>1. PICK pc \in {"play", "quiz", "verify"} : Goes(pc)
    BY <1>3 DEF Open, Play
  <2>2. run' \in Run /\ run'.pc = pc /\ run'.counted = run.counted /\ run'.rest = run.rest
    BY <1>0, <2>1 DEF Goes, Run
  <2>3. RunTyped' /\ run'.pc \notin {"free", "mail"}
    BY <1>0, <2>1, <2>2 DEF RunTyped, At
  <2>4. done' \subseteq Task
    BY <1>0, <1>1, <1>3 DEF Open, Play, Answer, portal
  <2>5. tries' \in [Task -> Nat]
    BY <1>0, <1>1, <1>3 DEF Open, Play, Answer, portal
  <2>6. session' \in Session
    BY <1>3 DEF Open, Play, Answer, TypeInv, OthersTyped, Session
  <2>7. UNCHANGED <<provider, seconds, scope, blind, spent, played, mails, faults>>
    BY <1>3 DEF Open, Play, Answer, request, history
  <2>8. OthersTyped'
    BY <2>4, <2>5, <2>6, <2>7 DEF TypeInv, OthersTyped
  <2> QED BY <1>2, <2>3, <2>8, GoesTyped
<1>4. CASE Answer /\ UNCHANGED <<done, run>>
  <2>1. tries' \in [Task -> Nat]
    BY <1>0, <1>1, <1>4 DEF Answer
  <2>2. OthersTyped'
    BY <1>4, <2>1 DEF Answer, TypeInv, OthersTyped, request, history
  <2>3. RunTyped' /\ run'.pc \notin {"free", "mail"}
    BY <1>4 DEF Answer, TypeInv, RunTyped, At
  <2> QED BY <1>2, <2>2, <2>3, GoesTyped
<1>5. CASE TaskDone
  <2>1. PICK t \in IF Kind[Now] = "VOD" THEN {seconds[Now]} ELSE 1 .. Reading :
          run' = [run EXCEPT !.pc = "next", !.rest = Tail(@),
                    !.counted = @ \union {Now}, !.elapsed = @ + t]
    BY <1>5 DEF TaskDone
  <2>2. t \in Nat
    BY <1>0, <1>1, <2>1, Constants
  <2>3. run.elapsed \in Nat /\ run.counted \union {Now} \subseteq Task
    BY <1>0, <1>1 DEF Run
  <2>7. run.elapsed + t \in Nat
    BY <2>2, <2>3
  <2>4. /\ run' \in Run /\ run'.pc = "next" /\ run'.rest = Tail(run.rest)
        /\ run'.counted = run.counted \union {Now}
    BY <1>0, <2>1, <2>3, <2>7, NowTyped DEF Run
  <2>5. RunTyped' /\ run'.pc \notin {"free", "mail"}
    BY <1>0, <2>4, NowTyped DEF RunTyped, At
  <2>6. OthersTyped'
    BY <1>5 DEF TaskDone, TypeInv, OthersTyped, request, history, portal
  <2> QED BY <1>2, <2>5, <2>6, GoesTyped
<1> QED BY <1>3, <1>4, <1>5 DEF Answer

LEMMA PositiveSum == \A a \in Nat \ {0}, f \in Nat : 0 < a + f /\ 0 <= a + f
OBVIOUS

LEMMA CloseTyped ==
  ASSUME TypeInv, Refresh \/ CheckStatus \/ Report \/ ReportTerminal
  PROVE  TypeInv'
<1>0. /\ run \in Run /\ Once(run.rest) /\ run.counted \cap Range(run.rest) = {}
      /\ run.pc \notin {"free", "mail"}
  BY DEF Refresh, CheckStatus, Report, ReportTerminal, At, TypeInv, RunTyped
<1>1. CASE Refresh \/ CheckStatus
  <2>1. PICK pc \in {"report", "finish"} : Goes(pc)
    BY <1>1 DEF Refresh, CheckStatus
  <2>2. run' \in Run /\ run'.pc = pc /\ run'.rest = run.rest /\ run'.counted = run.counted
    BY <1>0, <2>1 DEF Goes, Run
  <2>3. run.rest = <<>>
    BY <1>1 DEF Refresh, CheckStatus, At, TypeInv, RunTyped
  <2>4. RunTyped' /\ run'.pc \notin {"free", "mail"}
    BY <1>0, <2>1, <2>2, <2>3 DEF RunTyped, At
  <2>5. OthersTyped' /\ UNCHANGED <<row, faults>>
    BY <1>1 DEF Refresh, CheckStatus, TypeInv, OthersTyped, request, history, portal
  <2> QED BY <1>0, <2>4, <2>5, GoesTyped
<1>2. CASE Report
  <2>1. row \in [status : {"none", "pending", "running", "succeeded", "failed", "canceled"},
                 elapsed : Nat, attempts : Nat]
    BY DEF TypeInv, RowTyped
  <2>2. ChainElapsed \in Nat /\ spent + run.elapsed \in Nat
    <3>1. run.elapsed \in Nat /\ row.elapsed \in Nat /\ spent \in Nat
      BY <1>0, <2>1 DEF Run, TypeInv, OthersTyped
    <3> QED BY <3>1 DEF ChainElapsed, TotalElapsed
  <2>3. OthersTyped'
    BY <1>0, <1>2, <2>2 DEF Report, Run, TypeInv, OthersTyped, request, portal
  <2>4. CASE Continues
    <3>1. run' = Free /\ row' = [status |-> "pending", elapsed |-> ChainElapsed, attempts |-> 0]
      BY <1>2, <2>4 DEF Report, AfterReport
    <3>2. RunTyped' /\ run'.pc = "free"
      BY <3>1, FreeTyped, EmptyRange DEF RunTyped, At, Free
    <3>3. MaxAttempts \in Nat \ {0} /\ faults' \in Nat
      <4>1. faults' \in 0 .. MaxFaults
        BY <2>3 DEF OthersTyped
      <4> QED BY <4>1, Constants
    <3>4. 0 < MaxAttempts + faults' /\ 0 <= MaxAttempts + faults'
      BY <3>3, PositiveSum
    <3>5. /\ row' \in [status : {"none", "pending", "running", "succeeded", "failed", "canceled"},
                        elapsed : Nat, attempts : Nat]
          /\ row'.attempts = 0
      BY <2>2, <3>1
    <3>6. row'.attempts <= MaxAttempts + faults' /\ row'.attempts < MaxAttempts + faults'
      BY <3>4, <3>5
    <3>7. RowTyped'
      BY <3>2, <3>5, <3>6 DEF RowTyped, At
    <3> QED BY <2>3, <3>2, <3>7 DEF TypeInv
  <2>5. CASE ~ Continues
    <3>1. run' = [run EXCEPT !.pc = "mail"] /\ row' = [row EXCEPT !.status = "succeeded"]
      BY <1>2, <2>5 DEF Report, AfterReport
    <3>2. run' \in Run /\ run'.pc = "mail" /\ run'.rest = run.rest /\ run'.counted = run.counted
      BY <1>0, <3>1 DEF Run
    <3>3. RunTyped'
      BY <1>0, <1>2, <3>2 DEF Report, At, RunTyped, TypeInv
    <3>4. UNCHANGED faults /\ row.attempts <= MaxAttempts + faults
      BY <1>2 DEF Report, TypeInv, RowTyped
    <3>5. RowTyped'
      BY <2>1, <3>1, <3>2, <3>4 DEF RowTyped, At
    <3> QED BY <2>3, <3>3, <3>5 DEF TypeInv
  <2> QED BY <2>4, <2>5
<1>3. CASE ReportTerminal
  <2>1. run' \in Run /\ run'.pc = "mail" /\ run'.rest = run.rest /\ run'.counted = run.counted
    BY <1>0, <1>3 DEF ReportTerminal, Goes, Run
  <2>2. RunTyped'
    BY <1>0, <1>3, <2>1 DEF ReportTerminal, At, RunTyped, TypeInv
  <2>3. RowTyped'
    BY <1>3, <2>1 DEF ReportTerminal, At, RowTyped, TypeInv
  <2>4. OthersTyped'
    BY <1>3 DEF ReportTerminal, TypeInv, OthersTyped, request, history, portal
  <2> QED BY <2>2, <2>3, <2>4 DEF TypeInv
<1> QED BY <1>1, <1>2, <1>3

LEMMA InitTyped == Init => TypeInv
<1>1. SUFFICES ASSUME Init PROVE TypeInv
  OBVIOUS
<1>2. RunTyped
  BY <1>1, FreeTyped, EmptyRange DEF Init, RunTyped, At, Free
<1>3. RowTyped
  <2>1. row = NoRow /\ run.pc = "free" /\ faults = 0 /\ MaxAttempts \in Nat
    BY <1>1, Constants DEF Init, Free
  <2>2. 0 <= MaxAttempts + faults
    BY <2>1
  <2> QED BY <2>1, <2>2 DEF RowTyped, NoRow, At
<1>4. OthersTyped
  <2>1. session \in Session
    BY <1>1 DEF Init, Session
  <2>2. blind \in BOOLEAN
    BY <1>1 DEF Init
  <2>3. /\ provider \in {"CU12", "CYBER_CAMPUS"} /\ seconds \in [Task -> Nat]
        /\ scope \in [mode : Mode, course : Nat] /\ tries \in [Task -> Nat] /\ faults \in 0 .. MaxFaults
    BY <1>1, LearningAssumption, Constants DEF Init, Mode
  <2>4. done = {} /\ played = {} /\ spent = 0 /\ mails = 0
    BY <1>1 DEF Init
  <2> QED BY <2>1, <2>2, <2>3, <2>4 DEF OthersTyped
<1> QED BY <1>2, <1>3, <1>4 DEF TypeInv

LEMMA NextTyped == TypeInv /\ [Next]_vars => TypeInv'
<1>1. SUFFICES ASSUME TypeInv, [Next]_vars PROVE TypeInv'
  OBVIOUS
<1>2. CASE UNCHANGED vars
  BY <1>1, <1>2 DEF vars, TypeInv, RunTyped, RowTyped, OthersTyped, At, Active
<1>3. CASE Next
  BY <1>1, <1>3, RowStepTyped, EndStepTyped, PrepareTyped, TaskTyped, CloseTyped DEF Next, Step
<1> QED BY <1>1, <1>2, <1>3

LEMMA Typed == Spec => []TypeInv
BY InitTyped, NextTyped, PTL DEF Spec

\* Types: the worker counts only what it played, no plan is left over, and a row
\* has as many attempts as its failures and its workers' crashes explain.
THEOREM TypesCorrect == Spec => []TypeOK
<1>1. TypeInv => TypeOK
  <2>1. SUFFICES ASSUME TypeInv PROVE TypeOK
    OBVIOUS
  <2>2. row.attempts <= MaxAttempts + MaxFaults
    BY <2>1, Constants DEF TypeInv, RowTyped, OthersTyped
  <2>3. run.counted \subseteq Task \ Range(run.rest)
    BY <2>1 DEF TypeInv, RunTyped, Run
  <2>4. {row.elapsed, row.attempts, spent, mails, faults} \subseteq Nat
    BY <2>1, Constants DEF TypeInv, RowTyped, OthersTyped
  <2>5. /\ scope.mode \in Mode /\ run.rest \in Seq(Task)
        /\ run.pc \in {"free", "session", "plan", "next", "play", "quiz", "verify", "report", "finish", "mail"}
    BY <2>1 DEF TypeInv, RunTyped, OthersTyped, Run
  <2>6. row.status \in {"none", "pending", "running", "succeeded", "failed", "canceled"}
    BY <2>1 DEF TypeInv, RowTyped
  <2> QED BY <2>1, <2>2, <2>3, <2>4, <2>5, <2>6 DEF TypeInv, RunTyped, OthersTyped, TypeOK
<1> QED BY <1>1, Typed, PTL

----------------------------------------------------------------------------
(* What counts as processed *)

LEMMA NowInPlan ==
  ASSUME TypeInv, TaskDone
  PROVE  run'.counted = run.counted \union {Now} /\ run'.rest = Tail(run.rest)
BY DEF TypeInv, RunTyped, Run, TaskDone

\* Until a session of the chain lapses under its run, or is restored hollow, a
\* run that plays has a session whose lists are the portal's.
SessionInv ==
  run.pc \in {"next", "play", "quiz", "verify"} => session = "good" \/ blind

LEMMA SessionStep == TypeInv /\ SessionInv /\ [Next]_vars => SessionInv'
<1>0. SUFFICES ASSUME TypeInv, SessionInv, [Next]_vars PROVE SessionInv'
  OBVIOUS
<1>1. run \in Run
  BY <1>0 DEF TypeInv, RunTyped
<1>2. CASE Fail \/ Die \/ RestoreRefused \/ Refused \/ StopCanceled \/ OpenFails \/ Exhausted \/ QuizFails
           \/ NotConfirmed \/ ReportNothing \/ Mail
  <2>1. run' = Free
    BY <1>2 DEF Fail, Die, RestoreRefused, Refused, StopCanceled, OpenFails, Exhausted, QuizFails,
       NotConfirmed, ReportNothing, Mail, EndRun
  <2> QED BY <2>1 DEF SessionInv, Free
<1>3. CASE Request
  <2>1. run' = run /\ run = Free
    BY <1>0, <1>3 DEF Request, TypeInv, RunTyped
  <2> QED BY <2>1 DEF SessionInv, Free
<1>4. CASE CancelRow \/ Reclaim \/ UNCHANGED vars
  <2>1. UNCHANGED <<run, session, blind>>
    BY <1>4 DEF CancelRow, Reclaim, vars, history
  <2> QED BY <1>0, <2>1 DEF SessionInv
<1>5. CASE SessionLapses
  <2>1. run' = run /\ (At("free") \/ blind')
    BY <1>5 DEF SessionLapses
  <2> QED BY <2>1 DEF SessionInv, At
<1>6. CASE Claim \/ EnsureSession \/ Refresh \/ CheckStatus \/ ReportTerminal
  <2>1. run'.pc \in {"session", "plan", "report", "finish", "mail"}
    BY <1>1, <1>6 DEF Claim, EnsureSession, Refresh, CheckStatus, ReportTerminal, Goes, Run
  <2> QED BY <2>1 DEF SessionInv
<1>7. CASE PlanCu12
  BY <1>7 DEF PlanCu12, SessionInv
<1>8. CASE PlanCyber
  <2>1. session' = "good" \/ blind'
    BY <1>8 DEF PlanCyber, Restored, Believed, Listed
  <2> QED BY <2>1 DEF SessionInv
<1>9. CASE Open \/ Play \/ Answer \/ TaskDone
  <2>1. run.pc \in {"next", "play", "quiz", "verify"}
    BY <1>9 DEF Open, Play, Answer, TaskDone, At
  <2>2. blind' = blind /\ (session = "good" => session' = "good")
    BY <1>9 DEF Open, Play, Answer, TaskDone, history
  <2> QED BY <1>0, <2>1, <2>2 DEF SessionInv
<1>10. CASE Report
  <2>1. run'.pc \in {"free", "mail"}
    BY <1>1, <1>10 DEF Report, AfterReport, Free, Run
  <2> QED BY <2>1 DEF SessionInv
<1> QED BY <1>0, <1>2, <1>3, <1>4, <1>5, <1>6, <1>7, <1>8, <1>9, <1>10 DEF Next, Step

LEMMA ProcessedStep == TypeInv /\ SessionInv /\ ProcessedAreDone /\ [Next]_vars => ProcessedAreDone'
<1>0. SUFFICES ASSUME TypeInv, SessionInv, ProcessedAreDone, [Next]_vars PROVE ProcessedAreDone'
  OBVIOUS
<1>1. ASSUME played' \union run'.counted \subseteq played \union run.counted,
             done \subseteq done', UNCHANGED provider, blind => blind'
      PROVE  ProcessedAreDone'
  BY <1>0, <1>1 DEF ProcessedAreDone, Cyber
<1>2. run \in Run
  BY <1>0 DEF TypeInv, RunTyped
<1>3. CASE Fail \/ Die \/ RestoreRefused \/ Refused \/ StopCanceled \/ OpenFails \/ Exhausted \/ QuizFails
           \/ NotConfirmed \/ ReportNothing \/ Mail
  <2>1. run' = Free /\ UNCHANGED <<provider, played, blind>>
    BY <1>3 DEF Fail, Die, RestoreRefused, Refused, StopCanceled, OpenFails, Exhausted, QuizFails,
       NotConfirmed, ReportNothing, Mail, EndRun, request, history
  <2>2. done' = done
    BY <1>3 DEF Fail, Die, RestoreRefused, Refused, StopCanceled, OpenFails, Exhausted, QuizFails,
       NotConfirmed, ReportNothing, Mail, portal
  <2> QED BY <1>1, <2>1, <2>2 DEF Free
<1>4. CASE Request
  <2>1. played' = {} /\ run' = Free
    BY <1>0, <1>4 DEF Request, TypeInv, RunTyped
  <2> QED BY <2>1 DEF ProcessedAreDone, Free
<1>5. CASE CancelRow \/ Reclaim \/ SessionLapses \/ UNCHANGED vars
  <2>1. UNCHANGED <<provider, run, played, done>>
    BY <1>5 DEF CancelRow, Reclaim, SessionLapses, vars, request, history, portal
  <2>2. blind => blind'
    BY <1>5 DEF CancelRow, Reclaim, SessionLapses, vars, history
  <2> QED BY <1>1, <2>1, <2>2
<1>6. CASE \/ Claim \/ EnsureSession \/ PlanCu12 \/ PlanCyber \/ Open \/ Play \/ Answer
           \/ Refresh \/ CheckStatus \/ ReportTerminal
  <2>1. UNCHANGED <<provider, played>>
    BY <1>6 DEF Claim, EnsureSession, PlanCu12, PlanCyber, Open, Play, Answer, Refresh, CheckStatus,
       ReportTerminal, request, history
  <2>2. run'.counted = run.counted
    BY <1>2, <1>6 DEF Claim, EnsureSession, PlanCu12, PlanCyber, Open, Play, Answer, Refresh, CheckStatus,
       ReportTerminal, Goes, Starts, Run
  <2>3. done \subseteq done'
    BY <1>6 DEF Claim, EnsureSession, PlanCu12, PlanCyber, Open, Play, Answer, Refresh, CheckStatus,
       ReportTerminal, portal
  <2>4. blind => blind'
    <3>1. CASE PlanCyber
      BY <3>1 DEF PlanCyber
    <3>2. CASE ~ PlanCyber
      BY <1>6, <3>2 DEF Claim, EnsureSession, PlanCu12, Open, Play, Answer, Refresh, CheckStatus,
         ReportTerminal, history
    <3> QED BY <3>1, <3>2
  <2> QED BY <1>1, <2>1, <2>2, <2>3, <2>4
<1>7. CASE Report
  <2>1. played' = played \union run.counted /\ UNCHANGED <<provider, done, blind>>
    BY <1>7 DEF Report, request, portal
  <2>2. run'.counted \subseteq run.counted
    BY <1>2, <1>7 DEF Report, Free, Run
  <2> QED BY <1>1, <2>1, <2>2
<1>8. CASE TaskDone
  <2>1. run'.counted = run.counted \union {Now} /\ UNCHANGED <<provider, played, done, blind>>
    BY <1>0, <1>8, NowInPlan DEF TaskDone, request, history, portal
  <2>2. session = "good" \/ blind
    BY <1>0, <1>8 DEF TaskDone, SessionInv, At
  <2>3. Now \in Task
    BY <1>0, <1>8, NowTyped DEF TaskDone, At, TypeInv, RunTyped
  <2>4. ~ blind /\ Verified(Now) => Now \in done
    BY <1>8, <2>2, <2>3 DEF TaskDone, PendingList
  <2> QED BY <1>0, <2>1, <2>4 DEF ProcessedAreDone, Cyber, Verified
<1> QED BY <1>0, <1>3, <1>4, <1>5, <1>6, <1>7, <1>8 DEF Next, Step

\* What a result counts as processed is completed on the portal, for materials,
\* quizzes and every Cyber Campus lecture, unless a session of the chain lapsed
\* under its run or was restored hollow.
THEOREM ProcessedTasksAreDone == Spec => []ProcessedAreDone
<1>1. Init => SessionInv /\ ProcessedAreDone
  BY DEF Init, SessionInv, ProcessedAreDone, Free
<1> QED BY <1>1, Typed, SessionStep, ProcessedStep, PTL DEF Spec

----------------------------------------------------------------------------
(* One result mail *)

\* A chain that goes on, or whose worker is still at it, has mailed nothing; one
\* that has mailed its result is over.
MailInv ==
  /\ mails <= 1 /\ (Active \/ ~ At("free") => mails = 0)
  /\ mails = 1 => row.status \in {"succeeded", "canceled"}

LEMMA MailStep == TypeInv /\ MailInv /\ [Next]_vars => MailInv'
<1>0. SUFFICES ASSUME TypeInv, MailInv, [Next]_vars PROVE MailInv'
  OBVIOUS
<1>1. CASE Request
  <2>1. mails' = 0
    BY <1>1 DEF Request
  <2> QED BY <2>1 DEF MailInv
<1>2. CASE Mail
  <2>1. mails' = 1 /\ run' = Free /\ row' = row /\ row.status \in {"succeeded", "canceled"}
    BY <1>0, <1>2 DEF Mail, At, MailInv, TypeInv, RowTyped
  <2> QED BY <2>1 DEF MailInv, Active, At, Free
<1>3. CASE CancelRow \/ Claim \/ Reclaim \/ Report
  <2>1. Active /\ mails' = mails
    BY <1>3 DEF CancelRow, Claim, Reclaim, Report, Active
  <2> QED BY <1>0, <2>1 DEF MailInv
<1>4. CASE \/ Fail \/ RestoreRefused \/ Refused \/ StopCanceled \/ OpenFails \/ Exhausted
           \/ QuizFails \/ NotConfirmed
  <2>1. EndRun /\ ~ At("free")
    BY <1>4 DEF Fail, RestoreRefused, Refused, StopCanceled, OpenFails, Exhausted, QuizFails, NotConfirmed, At
  <2>2. mails' = mails /\ mails = 0
    BY <1>0, <2>1 DEF EndRun, MailInv
  <2> QED BY <2>2 DEF MailInv
<1>5. CASE Die \/ SessionLapses \/ ReportNothing
  <2>1. mails' = mails /\ row' = row /\ (run' = run \/ run' = Free)
    BY <1>5 DEF Die, SessionLapses, ReportNothing
  <2> QED BY <1>0, <2>1 DEF MailInv, Active, At, Free
<1>6. CASE \/ EnsureSession \/ PlanCu12 \/ PlanCyber \/ Open \/ Play \/ Answer \/ TaskDone
           \/ Refresh \/ CheckStatus \/ ReportTerminal
  <2>1. mails' = mails /\ ~ At("free")
    BY <1>6 DEF EnsureSession, PlanCu12, PlanCyber, Open, Play, Answer, TaskDone, Refresh, CheckStatus,
       ReportTerminal, At
  <2>2. mails' = 0
    BY <1>0, <2>1 DEF MailInv
  <2> QED BY <2>2 DEF MailInv
<1>7. CASE UNCHANGED vars
  BY <1>0, <1>7 DEF MailInv, vars, Active, At
<1> QED BY <1>0, <1>1, <1>2, <1>3, <1>4, <1>5, <1>6, <1>7 DEF Next, Step

\* One result mail at most for a chain, however many rows it had, only when it is
\* over, and only of a success or of a row canceled between the worker's last
\* look at it and its report.
THEOREM OneMailPerChain == Spec => []OneResultMail
<1>1. Init => MailInv
  BY DEF Init, MailInv, NoRow, Active, At, Free
<1>2. MailInv => OneResultMail
  BY DEF MailInv, OneResultMail
<1> QED BY <1>1, <1>2, Typed, MailStep, PTL DEF Spec

----------------------------------------------------------------------------
(* Nothing left out *)

Whole == ~ run.cut /\ run.reason # "too long" /\ scope.mode # "SINGLE_NEXT"
Playing == run.pc \in {"next", "play", "quiz", "verify", "report", "finish"}

\* A plan is made from a list that a session the portal believes in has read
\* (ListedTasks); from there on, what a run that is not cut off has still to play
\* and what it has counted are all that is learnable.
PlannedInv ==
  /\ Playing /\ Whole => Learnable \subseteq run.counted \union Range(run.rest)
  /\ At("mail") /\ Whole => Learnable \subseteq played \union run.counted

LEMMA LearnableShrinks ==
  ASSUME done \subseteq done', UNCHANGED <<provider, scope>>
  PROVE  Learnable' \subseteq Learnable
BY DEF Learnable, Cyber

\* A run that is over, or has not begun, owes nothing.
LEMMA FreeOwesNothing == run' = Free => PlannedInv'
BY DEF Free, PlannedInv, At, Playing

LEMMA NotBelow ==
  ASSUME NEW L \in Nat, NEW n \in 0 .. L, n < L => L = 0
  PROVE  n = L
OBVIOUS

LEMMA StartOwes ==
  ASSUME TypeInv, NEW s \in Plans(Learnable), s \in Seq(Task), Once(s), NEW n \in 0 .. Len(s),
         NEW reason \in {"none", "nothing", "too long"}, At("plan"), Starts(s, n, reason),
         reason = "nothing" => Len(s) = 0, UNCHANGED <<request, done>>
  PROVE  PlannedInv'
<1>1. /\ run'.pc = "next" /\ run'.rest = Prefix(s, n) /\ run'.reason = reason
      /\ run'.cut = (n < Len(s) /\ reason = "none")
  BY PlanTyped
<1>2. Len(s) \in Nat
  BY LenProperties
<1>3. ASSUME Whole' PROVE n = Len(s) /\ scope.mode # "SINGLE_NEXT"
  <2>1. ~ (n < Len(s) /\ reason = "none") /\ reason # "too long" /\ scope.mode # "SINGLE_NEXT"
    BY <1>1, <1>3 DEF Whole, request
  <2>2. n < Len(s) => Len(s) = 0
    BY <2>1
  <2> QED BY <1>2, <2>1, <2>2, NotBelow
<1>4. ASSUME Whole' PROVE Learnable' \subseteq Range(run'.rest)
  <2>1. run'.rest = s /\ Range(s) = Learnable
    BY <1>1, <1>3, <1>4, PrefixFacts, PlanFacts, ListedTasks
  <2> QED BY <2>1, LearnableShrinks DEF request
<1> QED BY <1>1, <1>4 DEF PlannedInv, Playing, At

LEMMA PlannedStep == TypeInv /\ PlannedInv /\ [Next]_vars => PlannedInv'
<1>0. SUFFICES ASSUME TypeInv, PlannedInv, [Next]_vars PROVE PlannedInv'
  OBVIOUS
<1>1. run \in Run
  BY <1>0 DEF TypeInv, RunTyped
<1>2. CASE \/ Fail \/ Die \/ RestoreRefused \/ Refused \/ OpenFails \/ QuizFails
           \/ StopCanceled \/ Exhausted \/ NotConfirmed \/ ReportNothing \/ Mail
  <2>1. run' = Free
    BY <1>2 DEF Fail, Die, RestoreRefused, Refused, OpenFails, QuizFails, StopCanceled,
       Exhausted, NotConfirmed, ReportNothing, Mail, EndRun
  <2> QED BY <2>1, FreeOwesNothing
<1>3. CASE Request
  <2>1. run' = run /\ run = Free
    BY <1>0, <1>3 DEF Request, TypeInv, RunTyped
  <2> QED BY <2>1, FreeOwesNothing
<1>4. CASE CancelRow \/ Reclaim \/ SessionLapses \/ UNCHANGED vars
  <2>1. UNCHANGED <<provider, scope, run, done, played>>
    BY <1>4 DEF CancelRow, Reclaim, SessionLapses, vars, request, portal, history
  <2> QED BY <1>0, <2>1, LearnableShrinks DEF PlannedInv, Playing, Whole, At
<1>5. CASE Claim \/ EnsureSession
  <2>1. run'.pc \in {"session", "plan"}
    BY <1>1, <1>5 DEF Claim, EnsureSession, Goes, Run
  <2> QED BY <2>1 DEF PlannedInv, Playing, At
<1>8. CASE PlanCu12
  <2>1. PICK s \in Plans(Learnable) : Starts(s, Chunk(s), IF s = <<>> THEN "nothing" ELSE "none")
    BY <1>8 DEF PlanCu12
  <2>2. s \in Seq(Task) /\ Once(s)
    BY <2>1, ListedTasks, PlanFacts
  <2>3. At("plan") /\ UNCHANGED <<request, done>>
    BY <1>8 DEF PlanCu12, portal
  <2>4. Chunk(s) \in 0 .. Len(s)
    BY <2>2, ChunkLength
  <2>5. s = <<>> => Len(s) = 0
    OBVIOUS
  <2> QED BY <1>0, <2>1, <2>2, <2>3, <2>4, <2>5, StartOwes
<1>9. CASE PlanCyber
  <2>1. PICK s \in Plans(Learnable) : \E budget \in 0 .. CyberTarget :
          LET n == CyberChunk(s, budget)
          IN  Starts(s, n, IF s = <<>> THEN "nothing" ELSE IF TooLong(s, n) THEN "too long" ELSE "none")
    BY <1>9, ListedTasks DEF PlanCyber
  <2>2. PICK budget \in 0 .. CyberTarget :
          Starts(s, CyberChunk(s, budget),
                 IF s = <<>> THEN "nothing" ELSE IF TooLong(s, CyberChunk(s, budget)) THEN "too long" ELSE "none")
    BY <2>1
  <2>3. s \in Seq(Task) /\ Once(s)
    BY <2>1, ListedTasks, PlanFacts
  <2>4. budget \in Nat
    <3>1. CyberTarget \in Nat
      BY Constants
    <3> QED BY <3>1
  <2>6. At("plan") /\ UNCHANGED <<request, done>>
    BY <1>9 DEF PlanCyber, portal
  <2>7. CyberChunk(s, budget) \in 0 .. Len(s)
    BY <2>3, <2>4, ChunkLength
  <2>8. s = <<>> => Len(s) = 0
    OBVIOUS
  <2> QED BY <1>0, <2>2, <2>3, <2>6, <2>7, <2>8, StartOwes
<1>10. CASE Open \/ Play \/ Answer \/ Refresh \/ CheckStatus
  <2>1. /\ Playing /\ Playing' /\ ~ At("mail")'
        /\ run'.counted = run.counted /\ run'.rest = run.rest /\ (Whole' => Whole)
    BY <1>1, <1>10 DEF Open, Play, Answer, Refresh, CheckStatus, Goes, Run, Playing, At, Whole, request
  <2>2. done \subseteq done' /\ UNCHANGED <<provider, scope>>
    BY <1>10 DEF Open, Play, Answer, Refresh, CheckStatus, request, portal
  <2> QED BY <1>0, <2>1, <2>2, LearnableShrinks DEF PlannedInv
<1>11. CASE TaskDone
  <2>1. run.rest # <<>>
    BY <1>0, <1>11 DEF TaskDone, At, TypeInv, RunTyped
  <2>2. run'.counted = run.counted \union {Now} /\ run'.rest = Tail(run.rest)
    BY <1>0, <1>11, NowInPlan
  <2>3. Playing /\ run'.pc = "next" /\ (Whole' => Whole) /\ UNCHANGED <<provider, scope, done>>
    BY <1>1, <1>11 DEF TaskDone, Run, Playing, At, Whole, request, portal
  <2>4. Range(run.rest) = {Now} \union Range(Tail(run.rest))
    BY <1>0, <2>1, NowTyped
  <2> QED BY <1>0, <2>2, <2>3, <2>4, LearnableShrinks DEF PlannedInv, Playing, At
<1>12. CASE Report
  <2>1. run.rest = <<>> /\ played' = played \union run.counted /\ UNCHANGED <<provider, scope, done>>
    BY <1>0, <1>12 DEF Report, At, TypeInv, RunTyped, request, portal
  <2>2. CASE AfterReport = "free"
    BY <1>12, <2>2, FreeOwesNothing DEF Report
  <2>3. CASE AfterReport # "free"
    <3>1. run' = [run EXCEPT !.pc = "mail"]
      BY <1>12, <2>3 DEF Report, AfterReport
    <3>2. run'.pc = "mail" /\ (Whole' => Whole)
      BY <1>1, <2>1, <3>1 DEF Run, Whole
    <3>3. Playing /\ Range(run.rest) = {}
      BY <1>12, <2>1, EmptyRange DEF Report, At, Playing
    <3>4. Learnable' \subseteq Learnable /\ (Whole' => Learnable \subseteq run.counted)
      BY <1>0, <2>1, <3>2, <3>3, LearnableShrinks DEF PlannedInv
    <3>5. Whole' => Learnable' \subseteq played'
      BY <2>1, <3>4
    <3> QED BY <3>2, <3>5 DEF PlannedInv, Playing, At
  <2> QED BY <2>2, <2>3
<1>13. CASE ReportTerminal
  <2>1. run.rest = <<>> /\ UNCHANGED <<provider, scope, done, played>>
    BY <1>0, <1>13 DEF ReportTerminal, At, TypeInv, RunTyped, request, portal, history
  <2>2. run'.pc = "mail" /\ run'.counted = run.counted /\ (Whole' => Whole)
    BY <1>1, <1>13, <2>1 DEF ReportTerminal, Goes, Run, Whole
  <2>3. Playing /\ Range(run.rest) = {}
    BY <1>13, <2>1, EmptyRange DEF ReportTerminal, At, Playing
  <2>4. Learnable' \subseteq Learnable /\ (Whole' => Learnable \subseteq run.counted)
    BY <1>0, <2>1, <2>2, <2>3, LearnableShrinks DEF PlannedInv
  <2>5. Whole' => Learnable' \subseteq played' \union run'.counted
    BY <2>1, <2>2, <2>4
  <2> QED BY <2>2, <2>5 DEF PlannedInv, Playing, At
<1> QED BY <1>0, <1>2, <1>3, <1>4, <1>5, <1>8, <1>9, <1>10, <1>11, <1>12, <1>13 DEF Next, Step

\* A request that ends as a success, neither cut off by a limit nor refused for
\* its length, has left nothing out: whatever was learnable in its scope is
\* completed or was played, whatever its stored session listed.
THEOREM RequestsLeaveNothingOut == Spec => []NothingLeftOut
<1>1. Init => PlannedInv
  BY DEF Init, PlannedInv, Playing, At, Free
<1>2. PlannedInv => NothingLeftOut
  BY DEF PlannedInv, NothingLeftOut, Whole
<1> QED BY <1>1, <1>2, Typed, PlannedStep, PTL DEF Spec

----------------------------------------------------------------------------
(* The cap of a chain *)

\* What a run has played and may still play fits one chunk.
BudgetInv ==
  /\ run.pc \in {"session", "plan"} => run.elapsed = 0
  /\ Playing => run.elapsed + Cost(run.rest) + Reading * Len(run.rest) <= ChunkBound

\* The payload of the active row counts its chain's time, and a chain goes on
\* only below the cap.
ChainInv ==
  /\ Active => row.elapsed = spent /\ (spent = 0 \/ spent < ChainMax)
  /\ ChainWithinCap

LEMMA Products ==
  ASSUME NEW r \in Nat, NEW a \in Nat, NEW b \in Nat
  PROVE  /\ r * a \in Nat /\ r * (a + 1) = r * a + r
         /\ a <= b => r * a <= b * r
<1>1. r * a \in Nat /\ r * (a + 1) = r * a + r
  OBVIOUS
<1>2. ASSUME a <= b PROVE r * a <= b * r
  <2>1. PICK d \in Nat : b = a + d
    <3>1. b - a \in Nat /\ b = a + (b - a)
      BY <1>2
    <3> QED BY <3>1
  <2>2. b * r = r * a + r * d /\ r * d \in Nat
    BY <2>1
  <2> QED BY <1>1, <2>2
<1> QED BY <1>1, <1>2

LEMMA Weights ==
  ASSUME TypeInv
  PROVE  /\ RowSeconds \in [Task -> Nat]
         /\ \A t \in Task : seconds[t] <= RowSeconds[t] /\ RowSeconds[t] \in {seconds[t], 1}
<1>1. \A t \in Task : seconds[t] \in Nat
  BY DEF TypeInv, OthersTyped
<1> QED BY <1>1 DEF RowSeconds

LEMMA BoundFacts ==
  ASSUME TypeInv
  PROVE  \E m \in Nat :
           /\ ChunkBound = m + MaxTasks * Reading /\ ChunkBound \in Nat
           /\ (IF Cyber THEN CyberTarget ELSE Target) <= m
           /\ \A t \in Task : seconds[t] <= m
<1> DEFINE T == IF Cyber THEN CyberTarget ELSE Target
           S == {T} \union {seconds[t] : t \in Task}
<1>1. T \in Nat /\ \A t \in Task : seconds[t] \in Nat
  BY Constants DEF TypeInv, OthersTyped
<1>2. IsFiniteSet(S)
  <2>1. IsFiniteSet({seconds[t] : t \in Task})
    <3>1. seconds \in Surjection(Task, {seconds[t] : t \in Task})
      BY DEF TypeInv, OthersTyped, Surjection
    <3> QED BY <3>1, LearningAssumption, FS_Surjection
  <2>2. IsFiniteSet({T})
    BY FS_Singleton
  <2> QED BY <2>1, <2>2, FS_Union
<1>3. S \in SUBSET Nat /\ S # {} /\ T \in S /\ \A t \in Task : seconds[t] \in S
  BY <1>1
<1>4. Longest(S) \in S /\ \A m \in S : m <= Longest(S)
  <2> HIDE DEF S
  <2> QED BY <1>2, <1>3, LongestOfFinite
<1>5. MaxTasks * Reading \in Nat
  BY Constants, Products
<1>6. Longest(S) + MaxTasks * Reading \in Nat
  <2> DEFINE P == MaxTasks * Reading
  <2>1. Longest(S) \in Nat /\ P \in Nat
    BY <1>3, <1>4, <1>5
  <2> HIDE DEF S, P
  <2>2. Longest(S) + P \in Nat
    BY <2>1
  <2> QED BY <2>2 DEF P
<1>7. ChunkBound = Longest(S) + MaxTasks * Reading
  BY DEF ChunkBound
<1> HIDE DEF S, T
<1>8. Longest(S) \in Nat
  BY <1>3, <1>4
<1> QED BY <1>3, <1>4, <1>6, <1>7, <1>8 DEF T

LEMMA OneIsSome ==
  ASSUME NEW s \in Seq(Task), Len(s) = 1
  PROVE  s # <<>>
BY EmptySeq

LEMMA CostFacts ==
  ASSUME TypeInv
  PROVE  /\ Cost(<<>>) = 0
         /\ \A s \in Seq(Task) : Cost(s) \in Nat
         /\ \A s \in Seq(Task) : s # <<>> => Cost(s) = RowSeconds[Head(s)] + Cost(Tail(s))
BY Weights, TotalFacts DEF Cost

\* A chunk that is begun fits the bound.
LEMMA ChunkFits ==
  ASSUME TypeInv, NEW s \in Seq(Task), NEW n \in 0 .. Len(s), n <= MaxTasks,
         \/ n = 0
         \/ ~ Cyber /\ (n <= 1 \/ Cost(Prefix(s, n)) <= Target)
         \/ Cyber /\ Cost(Prefix(s, n)) <= CyberTarget
  PROVE  Cost(Prefix(s, n)) + Reading * Len(Prefix(s, n)) <= ChunkBound
<1>1. PICK m \in Nat :
        /\ ChunkBound = m + MaxTasks * Reading /\ ChunkBound \in Nat
        /\ (IF Cyber THEN CyberTarget ELSE Target) <= m
        /\ \A t \in Task : seconds[t] <= m
  BY BoundFacts
<1>2. Prefix(s, n) \in Seq(Task) /\ Len(Prefix(s, n)) = n /\ n \in Nat
  BY SubSeqProperties DEF Prefix
<1>3. Cost(Prefix(s, n)) \in Nat
  BY <1>2, CostFacts
<1>4. Reading * n <= MaxTasks * Reading /\ Reading * n \in Nat /\ MaxTasks * Reading \in Nat
  BY <1>2, Constants, Products
<1>5. Cost(Prefix(s, n)) <= m
  <2>1. CASE n = 0
    <3>1. Prefix(s, n) = <<>>
      BY <1>2, <2>1, EmptySeq
    <3> QED BY <3>1, CostFacts
  <2>2. CASE n = 1 /\ ~ Cyber
    <3>1. Prefix(s, n) # <<>>
      <4>1. Len(Prefix(s, n)) = 1
        BY <1>2, <2>2
      <4> QED BY <1>2, <4>1, OneIsSome
    <3>2. Len(Tail(Prefix(s, n))) = 0 /\ Tail(Prefix(s, n)) \in Seq(Task) /\ Head(Prefix(s, n)) \in Task
      BY <1>2, <2>2, <3>1, TailShort
    <3>3. Tail(Prefix(s, n)) = <<>>
      BY <3>2, EmptySeq
    <3>4. Cost(Prefix(s, n)) = RowSeconds[Head(Prefix(s, n))] + 0
      BY <1>2, <3>1, <3>3, CostFacts
    <3>5. RowSeconds[Head(Prefix(s, n))] \in {seconds[Head(Prefix(s, n))], 1}
      BY <3>2, Weights
    <3>6. seconds[Head(Prefix(s, n))] \in Nat /\ seconds[Head(Prefix(s, n))] <= m
      BY <1>1, <3>2 DEF TypeInv, OthersTyped
    <3>7. 1 <= m
      BY <1>1, <2>2, Constants
    <3> QED BY <3>4, <3>5, <3>6, <3>7
  <2>3. CASE n > 1 /\ ~ Cyber
    BY <1>1, <1>2, <1>3, <2>3, Constants
  <2>4. CASE n # 0 /\ Cyber
    BY <1>1, <1>2, <1>3, <2>4, Constants
  <2> QED BY <1>2, <2>1, <2>2, <2>3, <2>4
<1> QED BY <1>1, <1>2, <1>3, <1>4, <1>5

LEMMA SameBudget ==
  ASSUME UNCHANGED <<provider, seconds>>
  PROVE  /\ RowSeconds' = RowSeconds /\ ChunkBound' = ChunkBound
         /\ \A s : Cost(s)' = Cost(s)
BY DEF RowSeconds, Cyber, ChunkBound, Cost

LEMMA FromZero ==
  ASSUME NEW a \in Nat, NEW b \in Nat, NEW m \in Nat, a + b <= m
  PROVE  0 + a + b <= m
OBVIOUS

LEMMA StartBudget ==
  ASSUME TypeInv, BudgetInv, NEW s \in Seq(Task), Once(s), NEW n \in 0 .. Len(s), n <= MaxTasks,
         \/ n = 0
         \/ ~ Cyber /\ (n <= 1 \/ Cost(Prefix(s, n)) <= Target)
         \/ Cyber /\ Cost(Prefix(s, n)) <= CyberTarget,
         NEW reason \in {"none", "nothing", "too long"}, At("plan"), Starts(s, n, reason),
         UNCHANGED request
  PROVE  BudgetInv'
<1>1. Cost(Prefix(s, n)) + Reading * Len(Prefix(s, n)) <= ChunkBound
  BY ChunkFits
<1>2. run'.pc = "next" /\ run'.rest = Prefix(s, n)
  BY PlanTyped
<1>3. run'.elapsed = 0
  BY DEF Starts, At, BudgetInv, TypeInv, RunTyped, Run
<1>4. UNCHANGED <<provider, seconds>>
  BY DEF request
<1>5. Cost(run'.rest) \in Nat /\ Prefix(s, n) \in Seq(Task) /\ Len(Prefix(s, n)) \in Nat
  BY <1>2, CostFacts, PrefixFacts, LenProperties
<1>6. Reading * Len(Prefix(s, n)) \in Nat
  BY <1>5, Constants, Products
<1>7. run'.elapsed + Cost(run'.rest) + Reading * Len(run'.rest) <= ChunkBound
  <2> DEFINE c == Cost(Prefix(s, n))
             p == Reading * Len(Prefix(s, n))
  <2>1. c \in Nat /\ p \in Nat /\ c + p <= ChunkBound /\ ChunkBound \in Nat
    BY <1>1, <1>2, <1>5, <1>6, BoundFacts
  <2> HIDE DEF c, p
  <2>2. 0 + c + p <= ChunkBound
    BY <2>1, FromZero
  <2> QED BY <1>2, <1>3, <2>2 DEF c, p
<1>8. (run.elapsed + Cost(run.rest) + Reading * Len(run.rest) <= ChunkBound)'
  BY <1>4, <1>7, SameBudget DEF Cost
<1> QED BY <1>2, <1>8 DEF BudgetInv

LEMMA BudgetStep == TypeInv /\ BudgetInv /\ [Next]_vars => BudgetInv'
<1>0. SUFFICES ASSUME TypeInv, BudgetInv, [Next]_vars PROVE BudgetInv'
  OBVIOUS
<1>1. run \in Run
  BY <1>0 DEF TypeInv, RunTyped
<1>2. CASE \/ Fail \/ Die \/ RestoreRefused \/ Refused \/ OpenFails \/ QuizFails
           \/ StopCanceled \/ Exhausted \/ NotConfirmed \/ ReportNothing \/ Mail
  <2>1. run' = Free
    BY <1>2 DEF Fail, Die, RestoreRefused, Refused, OpenFails, QuizFails, StopCanceled,
       Exhausted, NotConfirmed, ReportNothing, Mail, EndRun
  <2> QED BY <2>1 DEF BudgetInv, Playing, Free
<1>3. CASE Request
  <2>1. run' = Free
    BY <1>0, <1>3 DEF Request, TypeInv, RunTyped
  <2> QED BY <2>1 DEF BudgetInv, Playing, Free
<1>4. CASE CancelRow \/ Reclaim \/ SessionLapses \/ UNCHANGED vars
  <2>1. UNCHANGED <<provider, seconds, run>>
    BY <1>4 DEF CancelRow, Reclaim, SessionLapses, vars, request
  <2> QED BY <1>0, <2>1, SameBudget DEF BudgetInv, Playing
<1>5. CASE Claim
  <2>1. run = Free /\ run'.elapsed = run.elapsed /\ run'.pc \in {"session", "plan"}
    BY <1>0, <1>1, <1>5 DEF Claim, Goes, Run, TypeInv, RunTyped
  <2> QED BY <2>1 DEF BudgetInv, Playing, Free
<1>6. CASE EnsureSession
  <2>1. run'.elapsed = run.elapsed /\ run.elapsed = 0 /\ run'.pc = "plan"
    BY <1>0, <1>1, <1>6 DEF EnsureSession, At, Goes, Run, BudgetInv
  <2> QED BY <2>1 DEF BudgetInv, Playing
<1>7. CASE PlanCu12
  <2>1. PICK s \in Plans(Learnable) : Starts(s, Chunk(s), IF s = <<>> THEN "nothing" ELSE "none")
    BY <1>7 DEF PlanCu12
  <2>2. s \in Seq(Task) /\ Once(s)
    BY <2>1, ListedTasks, PlanFacts
  <2>3. At("plan") /\ UNCHANGED request /\ ~ Cyber
    BY <1>7 DEF PlanCu12
  <2>4. /\ Chunk(s) \in 0 .. Len(s) /\ Chunk(s) <= MaxTasks
        /\ Chunk(s) <= 1 \/ Cost(Prefix(s, Chunk(s))) <= Target
    BY <2>2, ChunkLength
  <2> QED BY <1>0, <2>1, <2>2, <2>3, <2>4, StartBudget
<1>8. CASE PlanCyber
  <2>1. PICK s \in Plans(Learnable) : \E budget \in 0 .. CyberTarget :
          LET n == CyberChunk(s, budget)
          IN  Starts(s, n, IF s = <<>> THEN "nothing" ELSE IF TooLong(s, n) THEN "too long" ELSE "none")
    BY <1>8, ListedTasks DEF PlanCyber
  <2>2. PICK budget \in 0 .. CyberTarget :
          Starts(s, CyberChunk(s, budget),
                 IF s = <<>> THEN "nothing" ELSE IF TooLong(s, CyberChunk(s, budget)) THEN "too long" ELSE "none")
    BY <2>1
  <2>3. s \in Seq(Task) /\ Once(s)
    BY <2>1, ListedTasks, PlanFacts
  <2>4. budget \in Nat /\ budget <= CyberTarget /\ CyberTarget \in Nat
    <3>1. CyberTarget \in Nat
      BY Constants
    <3> QED BY <3>1
  <2>5. At("plan") /\ UNCHANGED request /\ Cyber
    BY <1>8 DEF PlanCyber
  <2> DEFINE n == CyberChunk(s, budget)
  <2>6. n \in 0 .. Len(s) /\ n <= MaxTasks /\ (n = 0 \/ Cost(Prefix(s, n)) <= budget)
    BY <2>3, <2>4, ChunkLength
  <2>7. Cost(Prefix(s, n)) \in Nat
    BY <1>0, <2>3, <2>6, CostFacts, PrefixFacts
  <2>8. n = 0 \/ Cost(Prefix(s, n)) <= CyberTarget
    <3> HIDE DEF n
    <3> QED BY <2>4, <2>6, <2>7
  <2> QED BY <1>0, <2>2, <2>3, <2>5, <2>6, <2>8, StartBudget
<1>9. CASE Open \/ Play \/ Answer \/ Refresh \/ CheckStatus
  <2>1. Playing /\ Playing' /\ run'.elapsed = run.elapsed /\ run'.rest = run.rest
    BY <1>1, <1>9 DEF Open, Play, Answer, Refresh, CheckStatus, Goes, Run, Playing, At
  <2>2. UNCHANGED <<provider, seconds>>
    BY <1>9 DEF Open, Play, Answer, Refresh, CheckStatus, request
  <2>3. ChunkBound' = ChunkBound /\ Cost(run.rest)' = Cost(run.rest)
    BY <2>1, <2>2, SameBudget DEF Cost
  <2> QED BY <1>0, <2>1, <2>3 DEF BudgetInv, Playing
<1>10. CASE TaskDone
  <2>1. run.rest # <<>> /\ Playing
    BY <1>0, <1>10 DEF TaskDone, At, Playing, TypeInv, RunTyped
  <2>2. Now \in Task /\ Tail(run.rest) \in Seq(Task) /\ run.rest \in Seq(Task)
    BY <1>0, <1>1, <2>1, NowTyped DEF Run
  <2>3. PICK t \in IF Kind[Now] = "VOD" THEN {seconds[Now]} ELSE 1 .. Reading :
          run' = [run EXCEPT !.pc = "next", !.rest = Tail(@),
                    !.counted = @ \union {Now}, !.elapsed = @ + t]
    BY <1>10 DEF TaskDone
  <2>4. run'.pc = "next" /\ run'.rest = Tail(run.rest) /\ run'.elapsed = run.elapsed + t
    BY <1>1, <2>3 DEF Run
  <2>5. UNCHANGED <<provider, seconds>>
    BY <1>10 DEF TaskDone, request
  <2>6. Reading \in Nat /\ t \in Nat /\ t <= RowSeconds[Now] + Reading /\ RowSeconds[Now] \in Nat
    <3>1. RowSeconds[Now] \in Nat /\ seconds[Now] \in Nat /\ seconds[Now] <= RowSeconds[Now] /\ Reading \in Nat
      BY <1>0, <2>2, Weights, Constants DEF TypeInv, OthersTyped
    <3> QED BY <2>3, <3>1
  <2>7. Cost(run.rest) = RowSeconds[Now] + Cost(Tail(run.rest)) /\ Cost(Tail(run.rest)) \in Nat
    BY <1>0, <2>1, <2>2, CostFacts DEF Now
  <2> DEFINE l == Len(Tail(run.rest))
             c == Cost(Tail(run.rest))
  <2>8. l \in Nat /\ Len(run.rest) = l + 1
    BY <2>1, <2>2, TailShort
  <2>9. Reading * l \in Nat /\ Reading * Len(run.rest) = Reading * l + Reading
    BY <2>6, <2>8, Products
  <2>10. run.elapsed \in Nat /\ ChunkBound \in Nat
    BY <1>0, <1>1, BoundFacts DEF Run
  <2>11. run.elapsed + (RowSeconds[Now] + c) + (Reading * l + Reading) <= ChunkBound
    BY <1>0, <2>1, <2>7, <2>9 DEF BudgetInv
  <2>12. run.elapsed + t + c + Reading * l <= ChunkBound
    <3> DEFINE p == Reading * l
    <3>1. /\ c \in Nat /\ p \in Nat
          /\ run.elapsed + (RowSeconds[Now] + c) + (p + Reading) <= ChunkBound
      BY <2>7, <2>9, <2>11
    <3> HIDE DEF c, l, p
    <3>2. run.elapsed + t + c + p <= ChunkBound
      BY <2>6, <2>10, <3>1
    <3> QED BY <3>2 DEF p
  <2>13. run'.elapsed + Cost(run'.rest) + Reading * Len(run'.rest) <= ChunkBound
    BY <2>4, <2>12
  <2>14. (run.elapsed + Cost(run.rest) + Reading * Len(run.rest) <= ChunkBound)'
    BY <2>5, <2>13, SameBudget DEF Cost
  <2> QED BY <2>4, <2>14 DEF BudgetInv
<1>11. CASE Report \/ ReportTerminal
  <2>1. run'.pc \in {"free", "mail"}
    <3>1. CASE Report
      BY <1>1, <3>1 DEF Report, AfterReport, Free, Run
    <3>2. CASE ReportTerminal
      BY <1>1, <3>2 DEF ReportTerminal, Goes, Run
    <3> QED BY <1>11, <3>1, <3>2
  <2> QED BY <2>1 DEF BudgetInv, Playing
<1> QED BY <1>0, <1>2, <1>3, <1>4, <1>5, <1>6, <1>7, <1>8, <1>9, <1>10, <1>11 DEF Next, Step

LEMMA ChainStep == TypeInv /\ BudgetInv /\ ChainInv /\ [Next]_vars => ChainInv'
<1>0. SUFFICES ASSUME TypeInv, BudgetInv, ChainInv, [Next]_vars PROVE ChainInv'
  OBVIOUS
<1>1. /\ ChainMax \in Nat \ {0} /\ ChunkBound \in Nat /\ spent \in Nat
      /\ row \in [status : {"none", "pending", "running", "succeeded", "failed", "canceled"},
                  elapsed : Nat, attempts : Nat]
      /\ run \in Run
  BY <1>0, Constants, BoundFacts DEF TypeInv, OthersTyped, RowTyped, RunTyped
<1>2. UNCHANGED <<provider, seconds>>
  BY <1>0 DEF Next, Step, Request, CancelRow, Claim, Reclaim, Fail, Die, SessionLapses,
     RestoreRefused, Refused, OpenFails, QuizFails,
     EnsureSession, PlanCu12, PlanCyber, StopCanceled, Open, Play, Answer, Exhausted,
     NotConfirmed, TaskDone, Refresh, ReportNothing, CheckStatus, Report, ReportTerminal, Mail, EndRun,
     request, vars
<1>3. ChunkBound' = ChunkBound
  BY <1>2, SameBudget
<1>4. CASE Request
  <2>1. spent' = 0 /\ row' = [NoRow EXCEPT !.status = "pending"]
    BY <1>4 DEF Request
  <2>2. row'.elapsed = 0
    BY <2>1 DEF NoRow
  <2> QED BY <1>1, <1>3, <2>1, <2>2 DEF ChainInv, ChainWithinCap
<1>5. CASE Report
  <2>1. row.status = "running" /\ At("finish") /\ run.rest = <<>>
    BY <1>0, <1>5 DEF Report, At, TypeInv, RunTyped
  <2>2. run.elapsed <= ChunkBound /\ run.elapsed \in Nat
    <3>1. run.elapsed \in Nat /\ Cost(run.rest) = 0 /\ Len(run.rest) = 0 /\ Reading \in Nat
      BY <1>0, <1>1, <2>1, CostFacts, Constants, EmptySeq DEF Run
    <3>2. Reading * Len(run.rest) = 0
      BY <3>1
    <3>3. run.elapsed + Cost(run.rest) + Reading * Len(run.rest) <= ChunkBound
      BY <1>0, <2>1 DEF BudgetInv, Playing, At
    <3> QED BY <3>1, <3>2, <3>3
  <2>3. row.elapsed = spent /\ spent < ChainMax /\ spent' = spent + run.elapsed
    BY <1>0, <1>1, <1>5, <2>1 DEF Report, ChainInv, Active
  <2>4. ChainWithinCap'
    BY <1>1, <1>3, <2>2, <2>3 DEF ChainWithinCap
  <2>5. CASE Continues
    <3>1. row' = [status |-> "pending", elapsed |-> row.elapsed + run.elapsed, attempts |-> 0]
      BY <1>5, <2>5 DEF Report, ChainElapsed, TotalElapsed
    <3>2. ~ (row.elapsed + run.elapsed >= ChainMax)
      BY <2>5 DEF Continues, LimitReached, TotalElapsed
    <3>3. row'.elapsed = spent' /\ spent' < ChainMax
      BY <1>1, <2>2, <2>3, <3>1, <3>2
    <3> QED BY <2>4, <3>3 DEF ChainInv
  <2>6. CASE ~ Continues
    <3>1. row'.status = "succeeded"
      BY <1>1, <1>5, <2>6 DEF Report
    <3> QED BY <2>4, <3>1 DEF ChainInv, Active
  <2> QED BY <2>5, <2>6
<1>6. ASSUME spent' = spent, row'.elapsed = row.elapsed, Active' => Active PROVE ChainInv'
  BY <1>0, <1>3, <1>6 DEF ChainInv, ChainWithinCap
<1>7. CASE CancelRow \/ Claim \/ Reclaim
  <2>1. Active /\ spent' = spent
    BY <1>7 DEF CancelRow, Claim, Reclaim, Active, history
  <2>2. row'.elapsed = row.elapsed
    BY <1>1, <1>7 DEF CancelRow, Claim, Reclaim
  <2> QED BY <1>6, <2>1, <2>2
<1>8. CASE \/ Fail \/ RestoreRefused \/ Refused \/ OpenFails \/ QuizFails \/ StopCanceled
           \/ Exhausted \/ NotConfirmed
  <2>1. EndRun
    BY <1>8 DEF Fail, RestoreRefused, Refused, OpenFails, QuizFails, StopCanceled, Exhausted, NotConfirmed
  <2>2. spent' = spent /\ row'.elapsed = row.elapsed /\ (Active' => Active)
    BY <1>1, <2>1 DEF EndRun, Active, history
  <2> QED BY <1>6, <2>2
<1>9. CASE \/ Die \/ SessionLapses \/ ReportNothing \/ Mail \/ EnsureSession \/ PlanCu12
           \/ PlanCyber \/ Open \/ Play \/ Answer \/ TaskDone \/ Refresh \/ CheckStatus \/ ReportTerminal
           \/ UNCHANGED vars
  <2>1. spent' = spent /\ row' = row
    BY <1>9 DEF Die, SessionLapses, ReportNothing, Mail, EnsureSession, PlanCu12, PlanCyber,
       Open, Play, Answer, TaskDone, Refresh, CheckStatus, ReportTerminal, vars, history
  <2> QED BY <1>6, <2>1 DEF Active
<1> QED BY <1>0, <1>4, <1>5, <1>7, <1>8, <1>9 DEF Next, Step

\* AUTOLEARN_CHAIN_MAX_SECONDS caps the chain: its rows have played less than the
\* cap and one more chunk.
THEOREM ChainsAreCapped == Spec => []ChainWithinCap
<1>1. Init => BudgetInv
  BY DEF Init, BudgetInv, Playing, Free
<1>2. Init => ChainInv
  <2>1. SUFFICES ASSUME Init PROVE ChainInv
    OBVIOUS
  <2>2. ChunkBound \in Nat /\ ChainMax \in Nat \ {0} /\ spent = 0 /\ ~ Active
    BY <2>1, InitTyped, BoundFacts, Constants DEF Init, NoRow, Active
  <2> QED BY <2>2 DEF ChainInv, ChainWithinCap
<1>3. ChainInv => ChainWithinCap
  BY DEF ChainInv
<1> QED BY <1>1, <1>2, <1>3, Typed, BudgetStep, ChainStep, PTL DEF Spec
=============================================================================
