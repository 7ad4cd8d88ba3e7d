--------------------------- MODULE ExtensionProofs ---------------------------
(* Proofs about the extensions: one whose code has never thrown is enabled exactly when   *)
(* it should be, and those that stay enabled keep their order, for every set of           *)
(* extensions and every number of calls that throw. An operation goes through a list and  *)
(* may leave several states at every step; a fold rule turns what holds from step to step *)
(* into what holds at the end.                                                            *)
EXTENDS Agents, Sequences, FiniteSetTheorems, TLAPS
-----------------------------------------------------------------------------
(* Folds. *)

\* Induction for a set of numbers.
LEMMA NumbersFrom ==
  ASSUME NEW T, 0 \in T, \A n \in Nat : n \in T => n + 1 \in T
  PROVE  Nat \subseteq T
<1> SUFFICES ASSUME NEW k \in Nat, k \notin T PROVE FALSE
  OBVIOUS
<1> DEFINE S == 0..k
           f == [n \in S |-> IF n \in T THEN n + 1 ELSE n]
<1>1. f \in Injection(S, S)
  <2>1. ASSUME NEW n \in S PROVE f[n] \in S
    BY SMT
  <2>2. ASSUME NEW m \in S, NEW n \in S, f[m] = f[n] PROVE m = n
    BY <2>2, SMT
  <2> QED
    BY <2>1, <2>2 DEF Injection, IsInjective
<1>2. f \in Surjection(S, S)
  <2>1. IsFiniteSet(S)
    BY FS_Interval
  <2> QED
    BY <1>1, <2>1, FS_Injection
<1>3. 0 \in S
  BY SMT
<1>4. PICK n \in S : f[n] = 0
  BY <1>2, <1>3 DEF Surjection
<1> QED
  BY <1>4, SMT

\* What holds at 0, and after every step up to n, holds at n.
LEMMA UpTo ==
  ASSUME NEW n \in Nat, NEW T, 0 \in T, \A i \in 0..(n - 1) : i \in T => i + 1 \in T
  PROVE  \A i \in 0..n : i \in T
<1> DEFINE X == {i \in Nat : i <= n => i \in T}
<1>1. 0 \in X
  OBVIOUS
<1>2. ASSUME NEW i \in Nat, i \in X PROVE i + 1 \in X
  BY <1>2, SMT
<1> HIDE DEF X
<1>3. Nat \subseteq X
  BY <1>1, <1>2, NumbersFrom
<1> QED
  BY <1>3, SMT DEF X

\* The steps f of a fold of n functions h, and a family of sets they stay in.
Steps(f, n, a, h) == f = [i \in 0..n |-> IF i = 0 THEN a ELSE h[i][f[i - 1]]]
Family(G, n, a, h) == a \in G[0] /\ \A i \in 1..n : \A x \in G[i - 1] : h[i][x] \in G[i]

LEMMA StepsExist ==
  ASSUME NEW n \in Nat, NEW a, NEW G, NEW h, Family(G, n, a, h)
  PROVE  \E f : Steps(f, n, a, h) /\ \A i \in 0..n : f[i] \in G[i]
<1> USE DEF Steps, Family
<1> DEFINE P(k, f) == /\ Steps(f, k, a, h)
                      /\ \A i \in 0..k : f[i] \in G[i]
           T == {k \in Nat : \E f : P(k, f)}
<1>1. 0 \in T
  <2>1. P(0, [i \in 0..0 |-> a])
    BY SMT
  <2> QED
    BY <2>1
<1>2. ASSUME NEW k \in 0..(n - 1), k \in T PROVE k + 1 \in T
  <2>1. PICK f : P(k, f)
    BY <1>2
  <2> DEFINE g == [i \in 0..(k + 1) |-> IF i <= k THEN f[i] ELSE h[k + 1][f[k]]]
  <2>2. ASSUME NEW i \in 0..(k + 1)
        PROVE  g[i] = (IF i = 0 THEN a ELSE h[i][g[i - 1]]) /\ g[i] \in G[i]
    <3>1. CASE i = k + 1
      <4>1. g[i] = h[i][f[k]] /\ i # 0 /\ g[i - 1] = f[k] /\ i - 1 = k /\ i \in 1..n
        BY <3>1, SMT
      <4>2. f[k] \in G[k]
        BY <2>1, SMT
      <4> QED
        BY <4>1, <4>2
    <3>2. CASE i \in 0..k
      <4>1. f[i] = (IF i = 0 THEN a ELSE h[i][f[i - 1]]) /\ f[i] \in G[i]
        BY <2>1, <3>2, Zenon
      <4>2. g[i] = f[i] /\ (i # 0 => g[i - 1] = f[i - 1])
        BY <3>2, SMT
      <4> QED
        BY <4>1, <4>2
    <3> QED
      BY <3>1, <3>2, SMT
  <2>3. g = [i \in 0..(k + 1) |-> g[i]]
    OBVIOUS
  <2> HIDE DEF g
  <2>4. P(k + 1, g)
    BY <2>2, <2>3, Zenon
  <2> QED
    BY <2>4, SMT
<1> HIDE DEF P
<1>3. \A k \in 0..n : k \in T
  BY <1>1, <1>2, UpTo
<1>4. PICK f : P(n, f)
  BY <1>3, SMT
<1> QED
  BY <1>4 DEF P

\* The fold rule of every operation that goes through a list (a theorem takes no operator
\* for a parameter, so each has its own): when every call takes the states of G[i - 1] to
\* states of G[i], the list takes those of G[0] to states of the last.
LEMMA RebaseFold ==
  ASSUME NEW S, NEW s \in Seq(S), NEW U, NEW isOn, NEW G, U \subseteq G[0],
         \A i \in 1..Len(s) : \A v \in G[i - 1] :
           ExtensionSystem!Rebased(v, s[i], isOn) \subseteq G[i]
  PROVE  ExtensionSystem!RebaseEach(U, s, isOn) \subseteq G[Len(s)]
<1> DEFINE n == Len(s)
           Is(f) == f = [i \in 0..n |->
                           IF i = 0 THEN U
                           ELSE UNION {ExtensionSystem!Rebased(v, s[i], isOn) : v \in f[i - 1]}]
           F == [i \in 0..n |-> SUBSET G[i]]
           h == [i \in 1..n |-> [V \in F[i - 1] |->
                  UNION {ExtensionSystem!Rebased(v, s[i], isOn) : v \in V}]]
<1>1. n \in Nat /\ U \in F[0]
  OBVIOUS
<1>2. ASSUME NEW i \in 1..n
      PROVE  /\ i \in 0..n /\ i - 1 \in 0..n /\ F[i] = SUBSET G[i] /\ F[i - 1] = SUBSET G[i - 1]
             /\ \A V \in F[i - 1] :
                  /\ h[i][V] = UNION {ExtensionSystem!Rebased(v, s[i], isOn) : v \in V}
                  /\ h[i][V] \in F[i]
  <2>1. i \in 0..n /\ i - 1 \in 0..n
    BY SMT
  <2> QED
    BY <2>1
<1> HIDE DEF F, h
<1>3. PICK f : Steps(f, n, U, h) /\ \A i \in 0..n : f[i] \in F[i]
  <2>1. Family(F, n, U, h)
    BY <1>1, <1>2 DEF Family
  <2> HIDE DEF n
  <2> QED
    BY <1>1, <2>1, StepsExist
<1>4. ASSUME NEW i \in 0..n
      PROVE  f[i] = IF i = 0 THEN U
                    ELSE UNION {ExtensionSystem!Rebased(v, s[i], isOn) : v \in f[i - 1]}
  <2>1. f[i] = IF i = 0 THEN U ELSE h[i][f[i - 1]]
    BY <1>3, Zenon DEF Steps
  <2>2. i # 0 => i \in 1..n /\ i - 1 \in 0..n
    BY SMT
  <2> QED
    BY <2>1, <2>2, <1>2, <1>3
<1>5. Is(f)
  <2>1. f = [i \in 0..n |-> f[i]]
    BY <1>3, Zenon DEF Steps
  <2> HIDE DEF n
  <2> QED
    BY <2>1, <1>4, Zenon
<1> DEFINE g == CHOOSE g : Is(g)
<1>6. Is(g)
  BY <1>5
<1>7. ExtensionSystem!RebaseEach(U, s, isOn) = g[n]
  BY DEF ExtensionSystem!RebaseEach, ExtensionSystem!Each
<1> HIDE DEF g, n
<1>8. \A i \in 0..n : g[i] = f[i]
  <2> DEFINE T == {i \in 0..n : g[i] = f[i]}
  <2>1. 0 \in T
    <3>1. 0 \in 0..n
      BY <1>1, SMT
    <3>2. g[0] = U
      BY <3>1, <1>6, Zenon
    <3> QED
      BY <3>1, <3>2, <1>4
  <2>2. ASSUME NEW i \in 0..(n - 1), i \in T PROVE i + 1 \in T
    <3>1. i + 1 \in 0..n /\ i + 1 # 0 /\ (i + 1) - 1 = i
      BY <1>1, SMT
    <3>2. g[i + 1] = UNION {ExtensionSystem!Rebased(v, s[i + 1], isOn) : v \in g[i]}
      BY <3>1, <1>6, Zenon
    <3>3. f[i + 1] = UNION {ExtensionSystem!Rebased(v, s[i + 1], isOn) : v \in f[i]}
      BY <3>1, <1>4, Zenon
    <3> QED
      BY <3>1, <3>2, <3>3, <2>2
  <2> HIDE DEF T
  <2>3. \A i \in 0..n : i \in T
    BY <1>1, <2>1, <2>2, UpTo
  <2> QED
    BY <2>3 DEF T
<1> QED
  <2>1. n \in 0..n
    BY <1>1, SMT
  <2>2. f[n] \in F[n] /\ F[n] = SUBSET G[n]
    BY <2>1, <1>3 DEF F
  <2> QED
    BY <2>1, <2>2, <1>7, <1>8 DEF n

LEMMA EnableFold ==
  ASSUME NEW S, NEW s \in Seq(S), NEW U, NEW G, U \subseteq G[0],
         \A i \in 1..Len(s) : \A v \in G[i - 1] :
           ExtensionSystem!CallEnable(v, s[i]) \subseteq G[i]
  PROVE  ExtensionSystem!EnableEach(U, s) \subseteq G[Len(s)]
<1> DEFINE n == Len(s)
           Is(f) == f = [i \in 0..n |->
                           IF i = 0 THEN U
                           ELSE UNION {ExtensionSystem!CallEnable(v, s[i]) : v \in f[i - 1]}]
           F == [i \in 0..n |-> SUBSET G[i]]
           h == [i \in 1..n |-> [V \in F[i - 1] |->
                  UNION {ExtensionSystem!CallEnable(v, s[i]) : v \in V}]]
<1>1. n \in Nat /\ U \in F[0]
  OBVIOUS
<1>2. ASSUME NEW i \in 1..n
      PROVE  /\ i \in 0..n /\ i - 1 \in 0..n /\ F[i] = SUBSET G[i] /\ F[i - 1] = SUBSET G[i - 1]
             /\ \A V \in F[i - 1] :
                  /\ h[i][V] = UNION {ExtensionSystem!CallEnable(v, s[i]) : v \in V}
                  /\ h[i][V] \in F[i]
  <2>1. i \in 0..n /\ i - 1 \in 0..n
    BY SMT
  <2> QED
    BY <2>1
<1> HIDE DEF F, h
<1>3. PICK f : Steps(f, n, U, h) /\ \A i \in 0..n : f[i] \in F[i]
  <2>1. Family(F, n, U, h)
    BY <1>1, <1>2 DEF Family
  <2> HIDE DEF n
  <2> QED
    BY <1>1, <2>1, StepsExist
<1>4. ASSUME NEW i \in 0..n
      PROVE  f[i] = IF i = 0 THEN U
                    ELSE UNION {ExtensionSystem!CallEnable(v, s[i]) : v \in f[i - 1]}
  <2>1. f[i] = IF i = 0 THEN U ELSE h[i][f[i - 1]]
    BY <1>3, Zenon DEF Steps
  <2>2. i # 0 => i \in 1..n /\ i - 1 \in 0..n
    BY SMT
  <2> QED
    BY <2>1, <2>2, <1>2, <1>3
<1>5. Is(f)
  <2>1. f = [i \in 0..n |-> f[i]]
    BY <1>3, Zenon DEF Steps
  <2> HIDE DEF n
  <2> QED
    BY <2>1, <1>4, Zenon
<1> DEFINE g == CHOOSE g : Is(g)
<1>6. Is(g)
  BY <1>5
<1>7. ExtensionSystem!EnableEach(U, s) = g[n]
  BY DEF ExtensionSystem!EnableEach, ExtensionSystem!Each
<1> HIDE DEF g, n
<1>8. \A i \in 0..n : g[i] = f[i]
  <2> DEFINE T == {i \in 0..n : g[i] = f[i]}
  <2>1. 0 \in T
    <3>1. 0 \in 0..n
      BY <1>1, SMT
    <3>2. g[0] = U
      BY <3>1, <1>6, Zenon
    <3> QED
      BY <3>1, <3>2, <1>4
  <2>2. ASSUME NEW i \in 0..(n - 1), i \in T PROVE i + 1 \in T
    <3>1. i + 1 \in 0..n /\ i + 1 # 0 /\ (i + 1) - 1 = i
      BY <1>1, SMT
    <3>2. g[i + 1] = UNION {ExtensionSystem!CallEnable(v, s[i + 1]) : v \in g[i]}
      BY <3>1, <1>6, Zenon
    <3>3. f[i + 1] = UNION {ExtensionSystem!CallEnable(v, s[i + 1]) : v \in f[i]}
      BY <3>1, <1>4, Zenon
    <3> QED
      BY <3>1, <3>2, <3>3, <2>2
  <2> HIDE DEF T
  <2>3. \A i \in 0..n : i \in T
    BY <1>1, <2>1, <2>2, UpTo
  <2> QED
    BY <2>3 DEF T
<1> QED
  <2>1. n \in 0..n
    BY <1>1, SMT
  <2>2. f[n] \in F[n] /\ F[n] = SUBSET G[n]
    BY <2>1, <1>3 DEF F
  <2> QED
    BY <2>1, <2>2, <1>7, <1>8 DEF n

LEMMA DisableFold ==
  ASSUME NEW S, NEW s \in Seq(S), NEW U, NEW G, U \subseteq G[0],
         \A i \in 1..Len(s) : \A v \in G[i - 1] :
           ExtensionSystem!CallDisable(v, s[i]) \subseteq G[i]
  PROVE  ExtensionSystem!DisableEach(U, s) \subseteq G[Len(s)]
<1> DEFINE n == Len(s)
           Is(f) == f = [i \in 0..n |->
                           IF i = 0 THEN U
                           ELSE UNION {ExtensionSystem!CallDisable(v, s[i]) : v \in f[i - 1]}]
           F == [i \in 0..n |-> SUBSET G[i]]
           h == [i \in 1..n |-> [V \in F[i - 1] |->
                  UNION {ExtensionSystem!CallDisable(v, s[i]) : v \in V}]]
<1>1. n \in Nat /\ U \in F[0]
  OBVIOUS
<1>2. ASSUME NEW i \in 1..n
      PROVE  /\ i \in 0..n /\ i - 1 \in 0..n /\ F[i] = SUBSET G[i] /\ F[i - 1] = SUBSET G[i - 1]
             /\ \A V \in F[i - 1] :
                  /\ h[i][V] = UNION {ExtensionSystem!CallDisable(v, s[i]) : v \in V}
                  /\ h[i][V] \in F[i]
  <2>1. i \in 0..n /\ i - 1 \in 0..n
    BY SMT
  <2> QED
    BY <2>1
<1> HIDE DEF F, h
<1>3. PICK f : Steps(f, n, U, h) /\ \A i \in 0..n : f[i] \in F[i]
  <2>1. Family(F, n, U, h)
    BY <1>1, <1>2 DEF Family
  <2> HIDE DEF n
  <2> QED
    BY <1>1, <2>1, StepsExist
<1>4. ASSUME NEW i \in 0..n
      PROVE  f[i] = IF i = 0 THEN U
                    ELSE UNION {ExtensionSystem!CallDisable(v, s[i]) : v \in f[i - 1]}
  <2>1. f[i] = IF i = 0 THEN U ELSE h[i][f[i - 1]]
    BY <1>3, Zenon DEF Steps
  <2>2. i # 0 => i \in 1..n /\ i - 1 \in 0..n
    BY SMT
  <2> QED
    BY <2>1, <2>2, <1>2, <1>3
<1>5. Is(f)
  <2>1. f = [i \in 0..n |-> f[i]]
    BY <1>3, Zenon DEF Steps
  <2> HIDE DEF n
  <2> QED
    BY <2>1, <1>4, Zenon
<1> DEFINE g == CHOOSE g : Is(g)
<1>6. Is(g)
  BY <1>5
<1>7. ExtensionSystem!DisableEach(U, s) = g[n]
  BY DEF ExtensionSystem!DisableEach, ExtensionSystem!Each
<1> HIDE DEF g, n
<1>8. \A i \in 0..n : g[i] = f[i]
  <2> DEFINE T == {i \in 0..n : g[i] = f[i]}
  <2>1. 0 \in T
    <3>1. 0 \in 0..n
      BY <1>1, SMT
    <3>2. g[0] = U
      BY <3>1, <1>6, Zenon
    <3> QED
      BY <3>1, <3>2, <1>4
  <2>2. ASSUME NEW i \in 0..(n - 1), i \in T PROVE i + 1 \in T
    <3>1. i + 1 \in 0..n /\ i + 1 # 0 /\ (i + 1) - 1 = i
      BY <1>1, SMT
    <3>2. g[i + 1] = UNION {ExtensionSystem!CallDisable(v, s[i + 1]) : v \in g[i]}
      BY <3>1, <1>6, Zenon
    <3>3. f[i + 1] = UNION {ExtensionSystem!CallDisable(v, s[i + 1]) : v \in f[i]}
      BY <3>1, <1>4, Zenon
    <3> QED
      BY <3>1, <3>2, <3>3, <2>2
  <2> HIDE DEF T
  <2>3. \A i \in 0..n : i \in T
    BY <1>1, <2>1, <2>2, UpTo
  <2> QED
    BY <2>3 DEF T
<1> QED
  <2>1. n \in 0..n
    BY <1>1, SMT
  <2>2. f[n] \in F[n] /\ F[n] = SUBSET G[n]
    BY <2>1, <1>3 DEF F
  <2> QED
    BY <2>1, <2>2, <1>7, <1>8 DEF n

LEMMA ReloadFold ==
  ASSUME NEW S, NEW s \in Seq(S), NEW U, NEW G, U \subseteq G[0],
         \A i \in 1..Len(s) : \A v \in G[i - 1] :
           ExtensionSystem!Reload(v, s[i]) \subseteq G[i]
  PROVE  ExtensionSystem!ReloadEach(U, s) \subseteq G[Len(s)]
<1> DEFINE n == Len(s)
           Is(f) == f = [i \in 0..n |->
                           IF i = 0 THEN U
                           ELSE UNION {ExtensionSystem!Reload(v, s[i]) : v \in f[i - 1]}]
           F == [i \in 0..n |-> SUBSET G[i]]
           h == [i \in 1..n |-> [V \in F[i - 1] |->
                  UNION {ExtensionSystem!Reload(v, s[i]) : v \in V}]]
<1>1. n \in Nat /\ U \in F[0]
  OBVIOUS
<1>2. ASSUME NEW i \in 1..n
      PROVE  /\ i \in 0..n /\ i - 1 \in 0..n /\ F[i] = SUBSET G[i] /\ F[i - 1] = SUBSET G[i - 1]
             /\ \A V \in F[i - 1] :
                  /\ h[i][V] = UNION {ExtensionSystem!Reload(v, s[i]) : v \in V}
                  /\ h[i][V] \in F[i]
  <2>1. i \in 0..n /\ i - 1 \in 0..n
    BY SMT
  <2> QED
    BY <2>1
<1> HIDE DEF F, h
<1>3. PICK f : Steps(f, n, U, h) /\ \A i \in 0..n : f[i] \in F[i]
  <2>1. Family(F, n, U, h)
    BY <1>1, <1>2 DEF Family
  <2> HIDE DEF n
  <2> QED
    BY <1>1, <2>1, StepsExist
<1>4. ASSUME NEW i \in 0..n
      PROVE  f[i] = IF i = 0 THEN U
                    ELSE UNION {ExtensionSystem!Reload(v, s[i]) : v \in f[i - 1]}
  <2>1. f[i] = IF i = 0 THEN U ELSE h[i][f[i - 1]]
    BY <1>3, Zenon DEF Steps
  <2>2. i # 0 => i \in 1..n /\ i - 1 \in 0..n
    BY SMT
  <2> QED
    BY <2>1, <2>2, <1>2, <1>3
<1>5. Is(f)
  <2>1. f = [i \in 0..n |-> f[i]]
    BY <1>3, Zenon DEF Steps
  <2> HIDE DEF n
  <2> QED
    BY <2>1, <1>4, Zenon
<1> DEFINE g == CHOOSE g : Is(g)
<1>6. Is(g)
  BY <1>5
<1>7. ExtensionSystem!ReloadEach(U, s) = g[n]
  BY DEF ExtensionSystem!ReloadEach, ExtensionSystem!Each
<1> HIDE DEF g, n
<1>8. \A i \in 0..n : g[i] = f[i]
  <2> DEFINE T == {i \in 0..n : g[i] = f[i]}
  <2>1. 0 \in T
    <3>1. 0 \in 0..n
      BY <1>1, SMT
    <3>2. g[0] = U
      BY <3>1, <1>6, Zenon
    <3> QED
      BY <3>1, <3>2, <1>4
  <2>2. ASSUME NEW i \in 0..(n - 1), i \in T PROVE i + 1 \in T
    <3>1. i + 1 \in 0..n /\ i + 1 # 0 /\ (i + 1) - 1 = i
      BY <1>1, SMT
    <3>2. g[i + 1] = UNION {ExtensionSystem!Reload(v, s[i + 1]) : v \in g[i]}
      BY <3>1, <1>6, Zenon
    <3>3. f[i + 1] = UNION {ExtensionSystem!Reload(v, s[i + 1]) : v \in f[i]}
      BY <3>1, <1>4, Zenon
    <3> QED
      BY <3>1, <3>2, <3>3, <2>2
  <2> HIDE DEF T
  <2>3. \A i \in 0..n : i \in T
    BY <1>1, <2>1, <2>2, UpTo
  <2> QED
    BY <2>3 DEF T
<1> QED
  <2>1. n \in 0..n
    BY <1>1, SMT
  <2>2. f[n] \in F[n] /\ F[n] = SUBSET G[n]
    BY <2>1, <1>3 DEF F
  <2> QED
    BY <2>1, <2>2, <1>7, <1>8 DEF n
-----------------------------------------------------------------------------
(* Lists. *)

In(s, x) == \E i \in 1..Len(s) : s[i] = x
Once(s, x) == \A i, j \in 1..Len(s) : s[i] = x /\ s[j] = x => i = j
Precedes(s, x, y) == \E i, j \in 1..Len(s) : s[i] = x /\ s[j] = y /\ i < j
AllBefore(s, x, y) == \A i, j \in 1..Len(s) : s[i] = x /\ s[j] = y => i < j

\* What the first n steps of a filter keep.
KeptOf(t, s, A, n) ==
  /\ \A k \in 1..Len(t) : t[k] \in A /\ \E m \in 1..n : s[m] = t[k]
  /\ \A m \in 1..n : s[m] \in A => In(t, s[m])
  /\ \A j, k \in 1..Len(t) : AllBefore(s, t[j], t[k]) => j < k

LEMMA KeptNext ==
  ASSUME NEW S, NEW s \in Seq(S), NEW A, NEW n \in Nat, n + 1 \in 1..Len(s),
         NEW t \in Seq(S), KeptOf(t, s, A, n), s[n + 1] \in A
  PROVE  Append(t, s[n + 1]) \in Seq(S) /\ KeptOf(Append(t, s[n + 1]), s, A, n + 1)
<1> DEFINE x == s[n + 1]
           r == Append(t, x)
<1>1. x \in S
  OBVIOUS
<1>2. r \in Seq(S) /\ Len(r) = Len(t) + 1 /\ r[Len(t) + 1] = x
  BY <1>1
<1>3. \A k \in 1..Len(t) : r[k] = t[k] /\ k \in 1..Len(r)
  BY <1>1
<1>4. \A k \in 1..Len(r) : k \in 1..Len(t) \/ k = Len(t) + 1
  BY <1>2, SMT
<1> HIDE DEF r
<1>5. \A k \in 1..Len(r) : r[k] \in A /\ \E m \in 1..(n + 1) : s[m] = r[k]
  <2>1. \A m \in 1..n : m \in 1..(n + 1)
    BY SMT
  <2>2. n + 1 \in 1..(n + 1)
    BY SMT
  <2> QED
    BY <1>2, <1>3, <1>4, <2>1, <2>2 DEF KeptOf
<1>6. \A m \in 1..(n + 1) : s[m] \in A => In(r, s[m])
  <2>1. \A m \in 1..(n + 1) : m \in 1..n \/ m = n + 1
    BY SMT
  <2>2. In(r, x)
    <3>1. Len(t) + 1 \in 1..Len(r)
      BY <1>2, SMT
    <3> QED
      BY <3>1, <1>2 DEF In
  <2>3. \A y : In(t, y) => In(r, y)
    BY <1>3 DEF In
  <2> QED
    BY <2>1, <2>2, <2>3 DEF KeptOf
<1>7. ASSUME NEW j \in 1..Len(r), NEW k \in 1..Len(r), AllBefore(s, r[j], r[k])
      PROVE  j < k
  <2>1. CASE j \in 1..Len(t) /\ k \in 1..Len(t)
    BY <2>1, <1>3, <1>7 DEF KeptOf
  <2>2. CASE j \in 1..Len(t) /\ k = Len(t) + 1
    BY <2>2, SMT
  <2>3. CASE j = Len(t) + 1
    <3>1. \E m \in 1..(n + 1) : s[m] = r[k]
      BY <1>5
    <3>2. PICK m \in 1..(n + 1) : s[m] = r[k]
      BY <3>1
    <3>3. m \in 1..Len(s) /\ n + 1 \in 1..Len(s) /\ ~(n + 1 < m)
      BY SMT
    <3> QED
      BY <3>2, <3>3, <2>3, <1>2, <1>7 DEF AllBefore
  <2> QED
    BY <2>1, <2>2, <2>3, <1>4
<1> QED
  BY <1>2, <1>5, <1>6, <1>7 DEF KeptOf, r

LEMMA KeptSkips ==
  ASSUME NEW S, NEW s \in Seq(S), NEW A, NEW n \in Nat, n + 1 \in 1..Len(s),
         NEW t \in Seq(S), KeptOf(t, s, A, n), s[n + 1] \notin A
  PROVE  KeptOf(t, s, A, n + 1)
<1>1. \A m \in 1..n : m \in 1..(n + 1)
  BY SMT
<1>2. \A m \in 1..(n + 1) : m \in 1..n \/ m = n + 1
  BY SMT
<1> QED
  BY <1>1, <1>2 DEF KeptOf

LEMMA OnlyKeeps ==
  ASSUME NEW S, NEW s \in Seq(S), NEW A
  PROVE  /\ ExtensionSystem!Only(s, A) \in Seq(S)
         /\ KeptOf(ExtensionSystem!Only(s, A), s, A, Len(s))
<1> DEFINE n == Len(s)
           Is(f) == f = [i \in 0..n |-> IF i = 0 THEN <<>>
                                       ELSE IF s[i] \in A THEN Append(f[i - 1], s[i])
                                       ELSE f[i - 1]]
           F == [i \in 0..n |-> {t \in Seq(S) : KeptOf(t, s, A, i)}]
           h == [i \in 1..n |-> [t \in F[i - 1] |-> IF s[i] \in A THEN Append(t, s[i]) ELSE t]]
<1>1. n \in Nat
  OBVIOUS
<1>2. <<>> \in F[0]
  <2>1. <<>> \in Seq(S) /\ Len(<<>>) = 0 /\ 1..0 = {} /\ 0 \in 0..n
    BY <1>1, SMT
  <2> QED
    BY <2>1 DEF KeptOf
<1>3. ASSUME NEW i \in 1..n
      PROVE  /\ i \in 0..n /\ i - 1 \in 0..n
             /\ \A t \in F[i - 1] : /\ h[i][t] = IF s[i] \in A THEN Append(t, s[i]) ELSE t
                                    /\ h[i][t] \in F[i]
  <2>1. i \in 0..n /\ i - 1 \in 0..n /\ i - 1 \in Nat /\ (i - 1) + 1 = i /\ i \in 1..Len(s)
    BY SMT
  <2>2. ASSUME NEW t \in F[i - 1]
        PROVE  /\ h[i][t] = IF s[i] \in A THEN Append(t, s[i]) ELSE t
               /\ h[i][t] \in F[i]
    <3> HIDE DEF F
    <3>1. t \in Seq(S) /\ KeptOf(t, s, A, i - 1)
      BY <2>1 DEF F
    <3>2. h[i][t] = IF s[i] \in A THEN Append(t, s[i]) ELSE t
      OBVIOUS
    <3>3. s[i] \in A => Append(t, s[i]) \in Seq(S) /\ KeptOf(Append(t, s[i]), s, A, i)
      BY <2>1, <3>1, KeptNext
    <3>4. s[i] \notin A => KeptOf(t, s, A, i)
      BY <2>1, <3>1, KeptSkips
    <3>5. F[i] = {x \in Seq(S) : KeptOf(x, s, A, i)}
      BY <2>1 DEF F
    <3> HIDE DEF h
    <3> QED
      BY <3>1, <3>2, <3>3, <3>4, <3>5
  <2> QED
    BY <2>1, <2>2
<1> HIDE DEF F, h
<1>4. PICK f : Steps(f, n, <<>>, h) /\ \A i \in 0..n : f[i] \in F[i]
  <2>1. Family(F, n, <<>>, h)
    BY <1>2, <1>3 DEF Family
  <2> HIDE DEF n
  <2> QED
    BY <1>1, <2>1, StepsExist
<1>5. ASSUME NEW i \in 0..n
      PROVE  f[i] = IF i = 0 THEN <<>>
                    ELSE IF s[i] \in A THEN Append(f[i - 1], s[i]) ELSE f[i - 1]
  <2>1. f[i] = IF i = 0 THEN <<>> ELSE h[i][f[i - 1]]
    BY <1>4, Zenon DEF Steps
  <2>2. i # 0 => i \in 1..n /\ i - 1 \in 0..n
    BY SMT
  <2> HIDE DEF n
  <2> QED
    BY <2>1, <2>2, <1>3, <1>4
<1>6. Is(f)
  <2>1. f = [i \in 0..n |-> f[i]]
    BY <1>4, Zenon DEF Steps
  <2> HIDE DEF n
  <2> QED
    BY <2>1, <1>5, Zenon
<1> DEFINE g == CHOOSE g : Is(g)
<1>7. Is(g)
  BY <1>6
<1>8. ExtensionSystem!Only(s, A) = g[n]
  BY DEF ExtensionSystem!Only
<1> HIDE DEF g, n
<1>9. \A i \in 0..n : g[i] = f[i]
  <2> DEFINE T == {i \in 0..n : g[i] = f[i]}
  <2>1. 0 \in T
    <3>1. 0 \in 0..n
      BY <1>1, SMT
    <3>2. g[0] = <<>>
      BY <3>1, <1>7, Zenon
    <3> QED
      BY <3>1, <3>2, <1>5
  <2>2. ASSUME NEW i \in 0..(n - 1), i \in T PROVE i + 1 \in T
    <3>1. i + 1 \in 0..n /\ i + 1 # 0 /\ (i + 1) - 1 = i
      BY <1>1, SMT
    <3>2. g[i + 1] = IF s[i + 1] \in A THEN Append(g[i], s[i + 1]) ELSE g[i]
      BY <3>1, <1>7, Zenon
    <3>3. f[i + 1] = IF s[i + 1] \in A THEN Append(f[i], s[i + 1]) ELSE f[i]
      BY <3>1, <1>5, Zenon
    <3> QED
      BY <3>1, <3>2, <3>3, <2>2
  <2> HIDE DEF T
  <2>3. \A i \in 0..n : i \in T
    BY <1>1, <2>1, <2>2, UpTo
  <2> QED
    BY <2>3 DEF T
<1> QED
  <2>1. n \in 0..n
    BY <1>1, SMT
  <2>2. f[n] \in F[n] /\ F[n] = {t \in Seq(S) : KeptOf(t, s, A, n)}
    BY <2>1, <1>4 DEF F
  <2> QED
    BY <2>1, <2>2, <1>8, <1>9 DEF n

LEMMA OnlyHas ==
  ASSUME NEW S, NEW s \in Seq(S), NEW A
  PROVE  LET t == ExtensionSystem!Only(s, A)
         IN /\ t \in Seq(S)
            /\ \A x : In(t, x) <=> x \in A /\ In(s, x)
            /\ \A x, y : AllBefore(s, x, y) => AllBefore(t, x, y)
<1> DEFINE t == ExtensionSystem!Only(s, A)
<1>1. t \in Seq(S) /\ KeptOf(t, s, A, Len(s))
  BY OnlyKeeps
<1> HIDE DEF t
<1>2. \A x : In(t, x) <=> x \in A /\ In(s, x)
  BY <1>1 DEF KeptOf, In
<1>3. \A x, y : AllBefore(s, x, y) => AllBefore(t, x, y)
  <2> SUFFICES ASSUME NEW x, NEW y, AllBefore(s, x, y),
                      NEW j \in 1..Len(t), NEW k \in 1..Len(t), t[j] = x, t[k] = y
               PROVE  j < k
    BY DEF AllBefore
  <2>1. AllBefore(s, t[j], t[k])
    OBVIOUS
  <2> QED
    BY <1>1, <2>1 DEF KeptOf
<1> QED
  BY <1>1, <1>2, <1>3 DEF t

LEMMA FirstIndex ==
  ASSUME NEW S, NEW s \in Seq(S), NEW x, In(s, x)
  PROVE  ExtensionSystem!IndexOf(s, x) \in 1..Len(s) /\ s[ExtensionSystem!IndexOf(s, x)] = x
<1>1. \E k \in 1..Len(s) : s[k] = x /\ \A j \in 1..(k - 1) : s[j] # x
  <2> SUFFICES ASSUME \A k \in 1..Len(s) : s[k] = x => \E j \in 1..(k - 1) : s[j] = x
               PROVE  FALSE
    OBVIOUS
  <2> DEFINE T == {n \in 0..Len(s) : \A j \in 1..n : s[j] # x}
  <2>1. Len(s) \in Nat
    OBVIOUS
  <2>2. 0 \in T
    BY <2>1, SMT
  <2>3. ASSUME NEW n \in 0..(Len(s) - 1), n \in T PROVE n + 1 \in T
    <3>1. n + 1 \in 1..Len(s) /\ (n + 1) - 1 = n
      BY <2>1, SMT
    <3>2. s[n + 1] # x
      BY <3>1, <2>3
    <3>3. \A j \in 1..(n + 1) : j \in 1..n \/ j = n + 1
      BY <2>1, SMT
    <3> QED
      BY <3>1, <3>2, <3>3, <2>3, SMT
  <2> HIDE DEF T
  <2>4. \A n \in 0..Len(s) : n \in T
    BY <2>1, <2>2, <2>3, UpTo
  <2>5. Len(s) \in T
    BY <2>1, <2>4, SMT
  <2> QED
    BY <2>5 DEF T, In
<1>2. DOMAIN s = 1..Len(s)
  OBVIOUS
<1> QED
  BY <1>1, <1>2 DEF ExtensionSystem!IndexOf

\* A list without its ith element.
LEMMA Removed ==
  ASSUME NEW S, NEW s \in Seq(S), NEW i \in 1..Len(s)
  PROVE  LET r == ExtensionSystem!RemoveAt(s, i)
         IN /\ r \in Seq(S)
            /\ \A x : In(r, x) => In(s, x)
            /\ \A x : x # s[i] /\ In(s, x) => In(r, x)
            /\ \A x : Once(s, x) => Once(r, x)
            /\ Once(s, s[i]) => ~In(r, s[i])
            /\ \A x, y : x # s[i] /\ y # s[i] /\ Precedes(s, x, y) => Precedes(r, x, y)
<1> DEFINE r == ExtensionSystem!RemoveAt(s, i)
           up(k) == IF k < i THEN k ELSE k + 1
           down(k) == IF k < i THEN k ELSE k - 1
<1>1. r \in Seq(S) /\ Len(r) = Len(s) - 1
      /\ \A k \in 1..Len(r) : r[k] = s[up(k)]
  <2> DEFINE a == SubSeq(s, 1, i - 1)
             b == SubSeq(s, i + 1, Len(s))
  <2>1. a \in Seq(S) /\ Len(a) = i - 1 /\ \A k \in 1..(i - 1) : a[k] = s[k]
    BY SMT
  <2>2. b \in Seq(S) /\ Len(b) = Len(s) - i /\ \A k \in 1..(Len(s) - i) : b[k] = s[k + i]
    BY SMT
  <2>3. r = a \o b
    BY DEF ExtensionSystem!RemoveAt
  <2> HIDE DEF a, b, r
  <2>4. r \in Seq(S) /\ Len(r) = Len(s) - 1
    BY <2>1, <2>2, <2>3, SMT
  <2>5. ASSUME NEW k \in 1..Len(r) PROVE r[k] = s[up(k)]
    <3>1. CASE k < i
      BY <3>1, <2>1, <2>2, <2>3, <2>4, SMT
    <3>2. CASE ~(k < i)
      <4>1. k - (i - 1) \in 1..(Len(s) - i) /\ (k - (i - 1)) + i = k + 1
        BY <3>2, <2>4, SMT
      <4>2. r[k] = b[k - (i - 1)]
        <5>1. r[k] = (a \o b)[k] /\ k \in 1..(Len(a) + Len(b)) /\ k > Len(a)
          BY <3>2, <2>1, <2>2, <2>3, <2>4, SMT
        <5>2. \A j \in 1..(Len(a) + Len(b)) : j > Len(a) => (a \o b)[j] = b[j - Len(a)]
          BY <2>1, <2>2, SMT
        <5> QED
          BY <5>1, <5>2, <2>1
      <4> QED
        BY <4>1, <4>2, <3>2, <2>2
    <3> QED
      BY <3>1, <3>2
  <2> QED
    BY <2>4, <2>5
<1> HIDE DEF r
<1>2. \A k \in 1..Len(r) : up(k) \in 1..Len(s) /\ up(k) # i
  BY <1>1, SMT
<1>3. \A j, k \in 1..Len(r) : up(j) = up(k) => j = k
  BY <1>1, SMT
<1>4. \A k \in 1..Len(s) : k # i => down(k) \in 1..Len(r) /\ up(down(k)) = k
  BY <1>1, SMT
<1>5. \A j, k \in 1..Len(s) : j # i /\ k # i /\ j < k => down(j) < down(k)
  BY SMT
<1> HIDE DEF up, down
<1>6. \A x : In(r, x) => In(s, x)
  BY <1>1, <1>2 DEF In
<1>7. \A k \in 1..Len(s) : k # i => r[down(k)] = s[k] /\ down(k) \in 1..Len(r)
  BY <1>1, <1>4
<1>8. \A x : x # s[i] /\ In(s, x) => In(r, x)
  BY <1>7 DEF In
<1>9. \A x : Once(s, x) => Once(r, x)
  BY <1>1, <1>2, <1>3 DEF Once
<1>10. Once(s, s[i]) => ~In(r, s[i])
  BY <1>1, <1>2 DEF Once, In
<1>11. \A x, y : x # s[i] /\ y # s[i] /\ Precedes(s, x, y) => Precedes(r, x, y)
  <2> SUFFICES ASSUME NEW x, NEW y, x # s[i], y # s[i],
                      NEW j \in 1..Len(s), NEW k \in 1..Len(s), s[j] = x, s[k] = y, j < k
               PROVE  Precedes(r, x, y)
    BY DEF Precedes
  <2>1. j # i /\ k # i
    OBVIOUS
  <2>2. down(j) < down(k)
    BY <2>1, <1>5
  <2> QED
    BY <2>1, <2>2, <1>7 DEF Precedes
<1> QED
  BY <1>1, <1>6, <1>8, <1>9, <1>10, <1>11 DEF r

LEMMA Appended ==
  ASSUME NEW S, NEW s \in Seq(S), NEW z \in S
  PROVE  LET r == Append(s, z)
         IN /\ r \in Seq(S)
            /\ \A x : In(r, x) <=> In(s, x) \/ x = z
            /\ \A x : x # z /\ Once(s, x) => Once(r, x)
            /\ ~In(s, z) => Once(r, z)
            /\ \A x, y : Precedes(s, x, y) => Precedes(r, x, y)
            /\ \A x : In(s, x) => Precedes(r, x, z)
<1> DEFINE r == Append(s, z)
<1>1. r \in Seq(S) /\ Len(r) = Len(s) + 1 /\ Len(s) \in Nat /\ r[Len(s) + 1] = z
      /\ \A k \in 1..Len(s) : r[k] = s[k]
  OBVIOUS
<1> HIDE DEF r
<1>2. \A k \in 1..Len(s) : k \in 1..Len(r) /\ k < Len(s) + 1
  BY <1>1, SMT
<1>3. Len(s) + 1 \in 1..Len(r) /\ \A k \in 1..Len(r) : k \in 1..Len(s) \/ k = Len(s) + 1
  BY <1>1, SMT
<1>4. \A x : In(r, x) <=> In(s, x) \/ x = z
  BY <1>1, <1>2, <1>3 DEF In
<1>5. \A x : x # z /\ Once(s, x) => Once(r, x)
  BY <1>1, <1>3 DEF Once
<1>6. ~In(s, z) => Once(r, z)
  BY <1>1, <1>3 DEF Once, In
<1>7. \A x, y : Precedes(s, x, y) => Precedes(r, x, y)
  BY <1>1, <1>2 DEF Precedes
<1>8. \A x : In(s, x) => Precedes(r, x, z)
  BY <1>1, <1>2, <1>3 DEF In, Precedes
<1> QED
  BY <1>1, <1>4, <1>5, <1>6, <1>7, <1>8 DEF r

LEMMA Reversed ==
  ASSUME NEW S, NEW s \in Seq(S)
  PROVE  LET r == ExtensionSystem!Reverse(s)
         IN r \in Seq(S) /\ \A x : In(r, x) <=> In(s, x)
<1> DEFINE r == ExtensionSystem!Reverse(s)
<1>1. r = [i \in 1..Len(s) |-> s[(Len(s) - i) + 1]] /\ Len(s) \in Nat
  BY DEF ExtensionSystem!Reverse
<1> HIDE DEF r
<1>2. \A i \in 1..Len(s) : (Len(s) - i) + 1 \in 1..Len(s) /\ (Len(s) - ((Len(s) - i) + 1)) + 1 = i
  BY <1>1, SMT
<1>3. \A i \in 1..Len(s) : r[i] = s[(Len(s) - i) + 1] /\ r[i] \in S
  BY <1>1, <1>2
<1>4. r \in Seq(S) /\ Len(r) = Len(s)
  <2>1. r \in [1..Len(s) -> S]
    BY <1>1, <1>3
  <2> QED
    BY <2>1, <1>1, SMT
<1>5. \A x : In(r, x) => In(s, x)
  BY <1>2, <1>3, <1>4 DEF In
<1>6. \A x : In(s, x) => In(r, x)
  <2> SUFFICES ASSUME NEW i \in 1..Len(s) PROVE In(r, s[i])
    BY DEF In
  <2>1. r[(Len(s) - i) + 1] = s[i]
    BY <1>2, <1>3
  <2> QED
    BY <2>1, <1>2, <1>4 DEF In
<1> QED
  BY <1>4, <1>5, <1>6 DEF r

LEMMA Later ==
  ASSUME NEW S, NEW s \in Seq(S), NEW i \in 1..Len(s)
  PROVE  LET r == SubSeq(s, i + 1, Len(s))
         IN /\ r \in Seq(S)
            /\ \A x : In(r, x) => In(s, x)
            /\ Once(s, s[i]) => ~In(r, s[i])
<1> DEFINE r == SubSeq(s, i + 1, Len(s))
<1>1. r \in Seq(S) /\ Len(r) = Len(s) - i /\ \A k \in 1..Len(r) : r[k] = s[k + i]
  BY SMT
<1> HIDE DEF r
<1>2. \A k \in 1..Len(r) : k + i \in 1..Len(s) /\ k + i # i
  BY <1>1, SMT
<1> QED
  BY <1>1, <1>2 DEF r, In, Once
-----------------------------------------------------------------------------
(* The state of the manager. *)

\* What is so of an extension whose code has never thrown, at any time: its code runs when
\* it is enabled, it has one place in the order then and none otherwise.
Coherent(u, e) ==
  /\ e \in u.on <=> u.state[e] = "ENABLED"
  /\ Once(u.order, e)
  /\ In(u.order, e) => u.state[e] = "ENABLED"
  /\ u.state[e] # "ERROR"
  /\ u.state[e] \in {"ENABLED", "DISABLED"} => e \in u.loaded

GoodFor(u, e) ==
  /\ u.state[e] = "ENABLED" => In(u.order, e)
  /\ e \notin u.installed <=> u.state[e] = "none"
  /\ e \notin u.faulty => Coherent(u, e)
Good(u) == u \in ExtensionSystem!State /\ \A e \in ExtensionIds : GoodFor(u, e)

\* What is so between two events: it is enabled exactly when it should be.
Due(u, e) ==
  u.allowed /\ In(u.wanted, e) /\ e \in u.installed /\ u.state[e] # "OUT_OF_DATE"
SettledFor(u, e) == Due(u, e) <=> u.state[e] = "ENABLED"
Settled(u) == \A e \in ExtensionIds : e \notin u.faulty => SettledFor(u, e)

\* What every operation leaves alone, and what one of x leaves alone of the others.
Same(u, w) ==
  /\ w.allowed = u.allowed /\ w.wanted = u.wanted /\ w.checked = u.checked
  /\ u.faulty \subseteq w.faulty
Spared(u, w, x) ==
  /\ Same(u, w)
  /\ \A e \in ExtensionIds : e # x =>
       /\ e \in w.installed <=> e \in u.installed
       /\ e \notin w.faulty => w.state[e] = u.state[e]
  /\ \A d, e \in ExtensionIds :
       d # x /\ e # x /\ Precedes(u.order, d, e) => Precedes(w.order, d, e)

\* What rebasing leaves alone: all but which code runs, and what throws meanwhile.
Calm(u, w) ==
  /\ w \in ExtensionSystem!State /\ Same(u, w)
  /\ w.installed = u.installed /\ w.loaded = u.loaded /\ w.order = u.order
  /\ \A e \in ExtensionIds :
       /\ e \notin w.faulty => w.state[e] = u.state[e]
       /\ w.state[e] = u.state[e] \/ (w.state[e] = "ERROR" /\ e \in u.installed)
OnIs(u, B) == \A e \in ExtensionIds : e \notin u.faulty => (e \in u.on <=> e \in B)
Put(s, isOn, B) == {e \in ExtensionIds : IF In(s, e) THEN isOn ELSE e \in B}

LEMMA CalmThrough ==
  ASSUME NEW u, NEW v, NEW w, Calm(u, v), Calm(v, w)
  PROVE  Calm(u, w)
BY DEF Calm, Same

\* A call that throws.
LEMMA ThrownStep ==
  ASSUME NEW u \in ExtensionSystem!State, NEW x \in ExtensionIds,
         NEW w \in ExtensionSystem!Thrown(u, x)
  PROVE  /\ w \in ExtensionSystem!State
         /\ w = [u EXCEPT !.faults = u.faults + 1, !.faulty = u.faulty \cup {x},
                          !.state[x] = "ERROR"]
<1>1. u.faults # ExtensionFaults
  BY DEF ExtensionSystem!Thrown
<1>2. w = [u EXCEPT !.faults = u.faults + 1, !.faulty = u.faulty \cup {x},
                    !.state[x] = "ERROR"]
  BY <1>1 DEF ExtensionSystem!Thrown
<1>3. u.faults + 1 \in 0..ExtensionFaults
  BY <1>1, AgentsAssumption DEF ExtensionSystem!State
<1>4. u.faulty \cup {x} \subseteq ExtensionIds
  BY DEF ExtensionSystem!State
<1> QED
  BY <1>2, <1>3, <1>4 DEF ExtensionSystem!State

LEMMA RebasedStep ==
  ASSUME NEW u \in ExtensionSystem!State, NEW x \in ExtensionIds, NEW isOn \in BOOLEAN,
         NEW w \in ExtensionSystem!Rebased(u, x, isOn)
  PROVE  /\ Calm(u, w)
         /\ \A e \in ExtensionIds : e # x => (e \in w.on <=> e \in u.on)
         /\ x \in u.installed /\ x \in u.loaded /\ x \notin w.faulty => (x \in w.on <=> isOn)
<1>1. CASE x \notin u.installed
  <2>1. w = u
    BY <1>1 DEF ExtensionSystem!Rebased
  <2> QED
    BY <2>1, <1>1 DEF Calm, Same
<1>2. CASE x \in u.installed /\ x \notin u.loaded
  <2>1. w = [u EXCEPT !.state[x] = "ERROR", !.faulty = u.faulty \cup {x}]
    BY <1>2 DEF ExtensionSystem!Rebased
  <2>2. w \in ExtensionSystem!State
    BY <2>1 DEF ExtensionSystem!State
  <2> QED
    BY <2>1, <2>2, <1>2 DEF Calm, Same, ExtensionSystem!State
<1>3. CASE x \in u.installed /\ x \in u.loaded
  <2>1. CASE w \in ExtensionSystem!Thrown(u, x)
    <3>1. /\ w \in ExtensionSystem!State
          /\ w = [u EXCEPT !.faults = u.faults + 1, !.faulty = u.faulty \cup {x},
                           !.state[x] = "ERROR"]
      BY <2>1, ThrownStep
    <3> QED
      BY <3>1, <1>3 DEF Calm, Same, ExtensionSystem!State
  <2>2. CASE w = [u EXCEPT !.on = IF isOn THEN u.on \cup {x} ELSE u.on \ {x}]
    <3>1. w \in ExtensionSystem!State
      BY <2>2 DEF ExtensionSystem!State
    <3> QED
      BY <3>1, <2>2, <1>3 DEF Calm, Same, ExtensionSystem!State
  <2> QED
    BY <1>3, <2>1, <2>2 DEF ExtensionSystem!Rebased
<1> QED
  BY <1>1, <1>2, <1>3

\* Rebasing a list: it runs, or does not run, the code of those on the list.
LEMMA RebasedAll ==
  ASSUME NEW u, NEW s \in Seq(ExtensionIds), NEW isOn \in BOOLEAN, NEW B,
         \A e \in ExtensionIds : e \notin u.faulty /\ In(s, e) => e \in u.installed /\ e \in u.loaded,
         NEW U, \A v \in U : Calm(u, v) /\ OnIs(v, B),
         NEW w \in ExtensionSystem!RebaseEach(U, s, isOn)
  PROVE  Calm(u, w) /\ OnIs(w, Put(s, isOn, B))
<1> DEFINE n == Len(s)
           C(i) == {e \in ExtensionIds : IF \E k \in 1..i : s[k] = e THEN isOn ELSE e \in B}
           G == [i \in 0..n |-> {v \in ExtensionSystem!State : Calm(u, v) /\ OnIs(v, C(i))}]
<1>1. n \in Nat /\ 0 \in 0..n /\ n \in 0..n
  BY SMT
<1>2. U \subseteq G[0]
  <2>1. \A e \in ExtensionIds : e \in C(0) <=> e \in B
    BY SMT
  <2> QED
    BY <2>1, <1>1 DEF OnIs, Calm
<1>3. ASSUME NEW i \in 1..n, NEW v \in G[i - 1]
      PROVE  ExtensionSystem!Rebased(v, s[i], isOn) \subseteq G[i]
  <2> DEFINE x == s[i]
  <2> SUFFICES ASSUME NEW y \in ExtensionSystem!Rebased(v, x, isOn) PROVE y \in G[i]
    OBVIOUS
  <2>1. i - 1 \in 0..n /\ i \in 0..n /\ i \in 1..Len(s)
    BY SMT
  <2>2. v \in ExtensionSystem!State /\ Calm(u, v) /\ OnIs(v, C(i - 1))
    BY <2>1
  <2>3. x \in ExtensionIds
    BY <2>1
  <2> HIDE DEF x
  <2>4. /\ Calm(v, y)
        /\ \A e \in ExtensionIds : e # x => (e \in y.on <=> e \in v.on)
        /\ x \in v.installed /\ x \in v.loaded /\ x \notin y.faulty => (x \in y.on <=> isOn)
    BY <2>2, <2>3, RebasedStep
  <2>5. Calm(u, y) /\ y \in ExtensionSystem!State
    BY <2>2, <2>4, CalmThrough DEF Calm
  <2>6. \A e \in ExtensionIds : e # x => (e \in C(i) <=> e \in C(i - 1))
    <3>1. \A k \in 1..i : k \in 1..(i - 1) \/ k = i
      BY SMT
    <3>2. \A k \in 1..(i - 1) : k \in 1..i
      BY SMT
    <3> QED
      BY <3>1, <3>2 DEF x
  <2>7. x \in C(i) <=> isOn
    <3>1. i \in 1..i
      BY SMT
    <3> QED
      BY <3>1, <2>3 DEF x
  <2>8. In(s, x)
    BY <2>1 DEF In, x
  <2>9. x \notin y.faulty => x \in v.installed /\ x \in v.loaded
    BY <2>2, <2>3, <2>5, <2>8 DEF Calm, Same
  <2> HIDE DEF C
  <2>10. OnIs(y, C(i))
    BY <2>2, <2>4, <2>6, <2>7, <2>9 DEF OnIs, Calm, Same
  <2> QED
    BY <2>1, <2>5, <2>10
<1> HIDE DEF G
<1>4. ExtensionSystem!RebaseEach(U, s, isOn) \subseteq G[n]
  BY <1>2, <1>3, RebaseFold
<1>5. w \in ExtensionSystem!State /\ Calm(u, w) /\ OnIs(w, C(n))
  BY <1>1, <1>4 DEF G
<1>6. C(n) = Put(s, isOn, B)
  BY DEF In, Put
<1> QED
  BY <1>5, <1>6
-----------------------------------------------------------------------------
(* The operations on one extension. *)

\* _callExtensionDisable() disables one, and leaves the others as they were although it
\* disables and enables some of them on the way: v is the state after the last of these.
Disabled(u, x, i, v, w) ==
  /\ u.order[i] = x
  /\ Calm(u, v)
  /\ OnIs(v, u.on \ {x})
  /\ w = [v EXCEPT !.order = ExtensionSystem!RemoveAt(u.order, i),
                   !.state[x] = IF v.state[x] = "ERROR" THEN v.state[x] ELSE "DISABLED"]

LEMMA DisableRebases ==
  ASSUME NEW u, Good(u), NEW x \in ExtensionIds, x \in u.installed, u.state[x] = "ENABLED",
         NEW w \in ExtensionSystem!CallDisable(u, x)
  PROVE  \E i \in 1..Len(u.order), v \in ExtensionSystem!State : Disabled(u, x, i, v, w)
<1> DEFINE i == ExtensionSystem!IndexOf(u.order, x)
           later == SubSeq(u.order, i + 1, Len(u.order))
           reversed == ExtensionSystem!Reverse(later)
           down == ExtensionSystem!RebaseEach({u}, reversed, FALSE)
           alone == UNION {ExtensionSystem!Rebased(v, x, FALSE) : v \in down}
           B == Put(reversed, FALSE, u.on)
           C == {e \in ExtensionIds : e \in B /\ e # x}
           D == Put(later, TRUE, C)
<1>1. u \in ExtensionSystem!State /\ u.order \in Seq(ExtensionIds) /\ In(u.order, x)
  BY DEF Good, GoodFor, ExtensionSystem!State
<1>2. i \in 1..Len(u.order) /\ u.order[i] = x
  BY <1>1, FirstIndex
<1>3. PICK v \in ExtensionSystem!RebaseEach(alone, later, TRUE) :
        w = [v EXCEPT !.order = ExtensionSystem!RemoveAt(v.order, i),
                      !.state[x] = IF v.state[x] = "ERROR" THEN v.state[x] ELSE "DISABLED"]
  BY DEF ExtensionSystem!CallDisable
<1> HIDE DEF i
<1>4. later \in Seq(ExtensionIds) /\ (\A e : In(later, e) => In(u.order, e))
      /\ (Once(u.order, x) => ~In(later, x))
  BY <1>1, <1>2, Later
<1> HIDE DEF later
<1>5. reversed \in Seq(ExtensionIds) /\ \A e : In(reversed, e) <=> In(later, e)
  BY <1>4, Reversed
<1> HIDE DEF reversed
<1>6. \A e \in ExtensionIds : e \notin u.faulty /\ In(later, e) => e \in u.installed /\ e \in u.loaded
  BY <1>4 DEF Good, GoodFor, Coherent
<1>7. ASSUME NEW y \in down PROVE Calm(u, y) /\ OnIs(y, B)
  <2>1. \A y2 \in {u} : Calm(u, y2) /\ OnIs(y2, u.on)
    BY <1>1 DEF Calm, Same, OnIs
  <2>2. \A e \in ExtensionIds : e \notin u.faulty /\ In(reversed, e) => e \in u.installed /\ e \in u.loaded
    BY <1>5, <1>6
  <2> QED
    BY <1>5, <2>1, <2>2, RebasedAll
<1> HIDE DEF down
<1>8. ASSUME NEW z \in alone PROVE Calm(u, z) /\ OnIs(z, C)
  <2>1. PICK y \in down : z \in ExtensionSystem!Rebased(y, x, FALSE)
    OBVIOUS
  <2>2. y \in ExtensionSystem!State /\ Calm(u, y) /\ OnIs(y, B)
    BY <1>7 DEF Calm
  <2> HIDE DEF alone, B
  <2>3. /\ Calm(y, z)
        /\ \A e \in ExtensionIds : e # x => (e \in z.on <=> e \in y.on)
        /\ x \in y.installed /\ x \in y.loaded /\ x \notin z.faulty => (x \in z.on <=> FALSE)
    BY <2>1, <2>2, RebasedStep
  <2>4. Calm(u, z)
    BY <2>2, <2>3, CalmThrough
  <2>5. x \notin z.faulty => x \in y.installed /\ x \in y.loaded
    BY <2>2, <2>4 DEF Good, GoodFor, Coherent, Calm, Same
  <2> QED
    BY <2>2, <2>3, <2>4, <2>5 DEF OnIs, Calm, Same
<1> HIDE DEF alone, C
<1>9. Calm(u, v) /\ OnIs(v, D)
  BY <1>3, <1>4, <1>6, <1>8, RebasedAll
<1>10. \A e \in ExtensionIds : e \notin u.faulty => (e \in D <=> e \in u.on \ {x})
  <2> SUFFICES ASSUME NEW e \in ExtensionIds, e \notin u.faulty
               PROVE  e \in D <=> e \in u.on \ {x}
    OBVIOUS
  <2>1. In(later, e) => e \in u.on /\ e # x
    BY <1>4 DEF Good, GoodFor, Coherent
  <2> QED
    BY <2>1, <1>5 DEF C, B, D, Put
<1>11. OnIs(v, u.on \ {x})
  BY <1>9, <1>10 DEF OnIs, Calm, Same
<1>12. v \in ExtensionSystem!State /\ v.order = u.order
  BY <1>9 DEF Calm
<1>13. Disabled(u, x, i, v, w)
  BY <1>2, <1>3, <1>9, <1>11, <1>12 DEF Disabled
<1> QED
  BY <1>2, <1>12, <1>13

LEMMA DisableStep ==
  ASSUME NEW u, Good(u), NEW x \in ExtensionIds, NEW w \in ExtensionSystem!CallDisable(u, x)
  PROVE  /\ Good(w) /\ Spared(u, w, x) /\ w.installed = u.installed
         /\ w.state[x] # "ENABLED"
         /\ x \notin w.faulty =>
              w.state[x] = IF u.state[x] = "ENABLED" THEN "DISABLED" ELSE u.state[x]
<1>1. CASE x \notin u.installed \/ u.state[x] # "ENABLED"
  <2>1. w = u
    BY <1>1 DEF ExtensionSystem!CallDisable
  <2>2. u.state[x] # "ENABLED"
    BY <1>1 DEF Good, GoodFor
  <2> QED
    BY <2>1, <2>2 DEF Spared, Same
<1>2. CASE x \in u.installed /\ u.state[x] = "ENABLED"
  <2>0. PICK i \in 1..Len(u.order), v \in ExtensionSystem!State : Disabled(u, x, i, v, w)
    BY <1>2, DisableRebases
  <2>1. /\ u.order[i] = x
        /\ Calm(u, v)
        /\ OnIs(v, u.on \ {x})
        /\ w = [v EXCEPT !.order = ExtensionSystem!RemoveAt(u.order, i),
                         !.state[x] = IF v.state[x] = "ERROR" THEN v.state[x] ELSE "DISABLED"]
    BY <2>0 DEF Disabled
  <2> DEFINE r == ExtensionSystem!RemoveAt(u.order, i)
             st == IF v.state[x] = "ERROR" THEN v.state[x] ELSE "DISABLED"
  <2>2. u \in ExtensionSystem!State /\ u.order \in Seq(ExtensionIds)
    BY DEF Good, GoodFor, ExtensionSystem!State
  <2>3. /\ r \in Seq(ExtensionIds)
        /\ \A e : In(r, e) => In(u.order, e)
        /\ \A e : e # x /\ In(u.order, e) => In(r, e)
        /\ \A e : Once(u.order, e) => Once(r, e)
        /\ Once(u.order, x) => ~In(r, x)
        /\ \A d, e : d # x /\ e # x /\ Precedes(u.order, d, e) => Precedes(r, d, e)
    BY <2>1, <2>2, Removed
  <2>4. w = [v EXCEPT !.order = r, !.state[x] = st] /\ st \in {"ERROR", "DISABLED"}
    BY <2>1
  <2>5. x \notin v.faulty => st = "DISABLED"
    BY <2>1, <1>2 DEF Calm
  <2> HIDE DEF r, st
  <2>6. /\ w \in ExtensionSystem!State
        /\ w.order = r /\ w.on = v.on /\ w.faulty = v.faulty /\ w.installed = u.installed
        /\ w.loaded = u.loaded /\ w.state[x] = st
        /\ w.allowed = u.allowed /\ w.wanted = u.wanted /\ w.checked = u.checked
        /\ \A e \in ExtensionIds : e # x => w.state[e] = v.state[e]
    <3>1. /\ w.order = r /\ w.on = v.on /\ w.faulty = v.faulty /\ w.installed = v.installed
          /\ w.loaded = v.loaded /\ w.state[x] = st
          /\ w.allowed = v.allowed /\ w.wanted = v.wanted /\ w.checked = v.checked
          /\ \A e \in ExtensionIds : e # x => w.state[e] = v.state[e]
      BY <2>4 DEF ExtensionSystem!State
    <3>2. w \in ExtensionSystem!State
      BY <2>3, <2>4 DEF ExtensionSystem!State
    <3> QED
      BY <3>1, <3>2, <2>1 DEF Calm, Same
  <2>7. ASSUME NEW e \in ExtensionIds
        PROVE  GoodFor(w, e)
    <3>1. CASE e = x
      <4>1. w.state[e] # "ENABLED" /\ w.state[e] # "none" /\ e \in w.installed
        BY <3>1, <2>4, <2>6, <1>2
      <4>2. ASSUME e \notin w.faulty PROVE Coherent(w, e)
        <5>1. e \notin u.faulty /\ Coherent(u, e)
          BY <4>2, <2>1, <2>6 DEF Good, GoodFor, Calm, Same
        <5>2. e \notin w.on /\ ~In(w.order, e) /\ Once(w.order, e)
          BY <3>1, <4>2, <5>1, <2>1, <2>3, <2>6 DEF Coherent, OnIs
        <5>3. w.state[e] = "DISABLED" /\ e \in w.loaded
          BY <3>1, <4>2, <5>1, <1>2, <2>5, <2>6 DEF Coherent
        <5> QED
          BY <5>2, <5>3 DEF Coherent
      <4> QED
        BY <4>1, <4>2 DEF GoodFor
    <3>2. CASE e # x
      <4>1. w.state[e] = u.state[e] \/ (w.state[e] = "ERROR" /\ e \in u.installed)
        BY <3>2, <2>1, <2>6 DEF Calm
      <4>2. ASSUME e \notin w.faulty PROVE Coherent(w, e)
        <5>1. e \notin u.faulty /\ Coherent(u, e) /\ w.state[e] = u.state[e]
          BY <3>2, <4>2, <2>1, <2>6 DEF Good, GoodFor, Calm, Same
        <5>2. e \in w.on <=> e \in u.on
          BY <3>2, <4>2, <2>1, <2>6 DEF OnIs
        <5> QED
          BY <5>1, <5>2, <2>3, <2>6 DEF Coherent
      <4> QED
        BY <3>2, <4>1, <4>2, <2>3, <2>6 DEF Good, GoodFor
    <3> QED
      BY <3>1, <3>2
  <2>8. Good(w)
    BY <2>6, <2>7 DEF Good, GoodFor
  <2>9. Spared(u, w, x)
    BY <2>1, <2>3, <2>6 DEF Spared, Same, Calm
  <2> QED
    BY <1>2, <2>4, <2>5, <2>6, <2>8, <2>9
<1> QED
  BY <1>1, <1>2

\* Whatever is so of the order is so of a longer one.
Extended(u, w, x) ==
  /\ \A d, e \in ExtensionIds : Precedes(u.order, d, e) => Precedes(w.order, d, e)
  /\ u.state[x] # "ENABLED" /\ w.state[x] = "ENABLED" =>
       \A d \in ExtensionIds : In(u.order, d) => Precedes(w.order, d, x)

\* One that may be initialized: its code does not run.
Idle(u, x) ==
  /\ u \in ExtensionSystem!State
  /\ \A e \in ExtensionIds : e # x => GoodFor(u, e)
  /\ x \in u.installed /\ u.state[x] \notin {"ENABLED", "none"}
  /\ x \notin u.faulty => x \notin u.on /\ ~In(u.order, x)

LEMMA GoodIsIdle ==
  ASSUME NEW u, Good(u), NEW x \in ExtensionIds, x \in u.installed, u.state[x] # "ENABLED"
  PROVE  Idle(u, x)
BY DEF Good, GoodFor, Coherent, Idle

LEMMA SparedThrough ==
  ASSUME NEW u, NEW v, NEW w, NEW x, Spared(u, v, x), Spared(v, w, x)
  PROVE  Spared(u, w, x)
BY DEF Spared, Same

LEMMA SettledSpared ==
  ASSUME NEW u, NEW w, NEW x \in ExtensionIds, Settled(u), Spared(u, w, x),
         x \notin w.faulty => SettledFor(w, x)
  PROVE  Settled(w)
BY DEF Settled, SettledFor, Due, Spared, Same

\* What one throws: it is not sound any more.
LEMMA ThrownIsGood ==
  ASSUME NEW u, NEW x \in ExtensionIds, Idle(u, x), NEW w \in ExtensionSystem!Thrown(u, x)
  PROVE  /\ Good(w) /\ Spared(u, w, x) /\ w.installed = u.installed /\ w.order = u.order
         /\ x \in w.faulty /\ w.state[x] = "ERROR"
<1>1. u \in ExtensionSystem!State
  BY DEF Idle
<1>2. /\ w \in ExtensionSystem!State
      /\ w = [u EXCEPT !.faults = u.faults + 1, !.faulty = u.faulty \cup {x},
                       !.state[x] = "ERROR"]
  BY <1>1, ThrownStep
<1>3. /\ w.faulty = u.faulty \cup {x} /\ w.state[x] = "ERROR"
      /\ w.on = u.on /\ w.order = u.order /\ w.installed = u.installed /\ w.loaded = u.loaded
      /\ w.allowed = u.allowed /\ w.wanted = u.wanted /\ w.checked = u.checked
      /\ \A e \in ExtensionIds : e # x => w.state[e] = u.state[e]
  BY <1>1, <1>2 DEF ExtensionSystem!State
<1> QED
  BY <1>2, <1>3 DEF Good, GoodFor, Coherent, Idle, Spared, Same

LEMMA InitStep ==
  ASSUME NEW u, NEW x \in ExtensionIds, Idle(u, x), NEW w \in ExtensionSystem!CallInit(u, x)
  PROVE  /\ Good(w) /\ Spared(u, w, x) /\ w.installed = u.installed /\ w.order = u.order
         /\ w.state[x] # "ENABLED" /\ (x \notin w.faulty => w.state[x] = "DISABLED")
<1>1. CASE w \in ExtensionSystem!Thrown(u, x)
  BY <1>1, ThrownIsGood
<1>2. CASE w = [u EXCEPT !.state[x] = "DISABLED", !.loaded = u.loaded \cup {x}]
  <2>1. u \in ExtensionSystem!State
    BY DEF Idle
  <2>2. /\ w.faulty = u.faulty /\ w.state[x] = "DISABLED"
        /\ w.on = u.on /\ w.order = u.order /\ w.installed = u.installed
        /\ w.loaded = u.loaded \cup {x}
        /\ w.allowed = u.allowed /\ w.wanted = u.wanted /\ w.checked = u.checked
        /\ \A e \in ExtensionIds : e # x => w.state[e] = u.state[e]
    BY <2>1, <1>2 DEF ExtensionSystem!State
  <2>3. w \in ExtensionSystem!State
    BY <2>1, <1>2 DEF ExtensionSystem!State
  <2> QED
    BY <2>2, <2>3 DEF Good, GoodFor, Coherent, Once, In, Idle, Spared, Same
<1> QED
  BY <1>1, <1>2 DEF ExtensionSystem!CallInit

LEMMA EnableDisabledStep ==
  ASSUME NEW u, Good(u), NEW x \in ExtensionIds,
         NEW w \in ExtensionSystem!EnableDisabled(u, x)
  PROVE  /\ Good(w) /\ Spared(u, w, x) /\ Extended(u, w, x) /\ w.installed = u.installed
         /\ x \notin w.faulty =>
              w.state[x] = IF u.state[x] = "DISABLED" THEN "ENABLED" ELSE u.state[x]
<1>1. CASE u.state[x] # "DISABLED"
  <2>1. w = u
    BY <1>1 DEF ExtensionSystem!EnableDisabled
  <2> QED
    BY <2>1, <1>1 DEF Spared, Same, Extended
<1>2. CASE u.state[x] = "DISABLED"
  <2>1. u \in ExtensionSystem!State /\ x \in u.installed
    BY <1>2 DEF Good, GoodFor
  <2>2. CASE w \in ExtensionSystem!Thrown(u, x)
    <3>1. Idle(u, x)
      BY <1>2, <2>1, GoodIsIdle
    <3>2. /\ Good(w) /\ Spared(u, w, x) /\ w.installed = u.installed /\ w.order = u.order
          /\ x \in w.faulty /\ w.state[x] = "ERROR"
      BY <2>2, <3>1, ThrownIsGood
    <3> QED
      BY <3>2 DEF Extended
  <2>3. CASE w = [u EXCEPT !.state[x] = "ENABLED", !.on = u.on \cup {x},
                           !.order = Append(u.order, x)]
    <3> DEFINE r == Append(u.order, x)
    <3>1. u.order \in Seq(ExtensionIds)
      BY <2>1 DEF ExtensionSystem!State
    <3>2. /\ r \in Seq(ExtensionIds)
          /\ \A e : In(r, e) <=> In(u.order, e) \/ e = x
          /\ \A e : e # x /\ Once(u.order, e) => Once(r, e)
          /\ ~In(u.order, x) => Once(r, x)
          /\ \A d, e : Precedes(u.order, d, e) => Precedes(r, d, e)
          /\ \A d : In(u.order, d) => Precedes(r, d, x)
      BY <3>1, Appended
    <3>3. w = [u EXCEPT !.state[x] = "ENABLED", !.on = u.on \cup {x}, !.order = r]
      BY <2>3
    <3> HIDE DEF r
    <3>4. /\ w.faulty = u.faulty /\ w.state[x] = "ENABLED"
          /\ w.on = u.on \cup {x} /\ w.order = r /\ w.installed = u.installed
          /\ w.loaded = u.loaded
          /\ w.allowed = u.allowed /\ w.wanted = u.wanted /\ w.checked = u.checked
          /\ \A e \in ExtensionIds : e # x => w.state[e] = u.state[e]
      BY <2>1, <3>3 DEF ExtensionSystem!State
    <3>5. w \in ExtensionSystem!State
      BY <2>1, <3>2, <3>3 DEF ExtensionSystem!State
    <3>6. ASSUME NEW e \in ExtensionIds PROVE GoodFor(w, e)
      <4>1. CASE e = x
        BY <4>1, <1>2, <2>1, <3>2, <3>4 DEF Good, GoodFor, Coherent
      <4>2. CASE e # x
        BY <4>2, <3>2, <3>4 DEF Good, GoodFor, Coherent
      <4> QED
        BY <4>1, <4>2
    <3> QED
      BY <1>2, <3>2, <3>4, <3>5, <3>6 DEF Good, Spared, Same, Extended
  <2> QED
    BY <1>2, <2>2, <2>3 DEF ExtensionSystem!EnableDisabled
<1> QED
  BY <1>1, <1>2

\* _callExtensionEnable()
LEMMA EnableStep ==
  ASSUME NEW u, Good(u), NEW x \in ExtensionIds, NEW w \in ExtensionSystem!CallEnable(u, x)
  PROVE  /\ Good(w) /\ Spared(u, w, x) /\ Extended(u, w, x) /\ w.installed = u.installed
         /\ x \notin w.faulty =>
              w.state[x] = IF u.allowed /\ u.state[x] \in {"INITIALIZED", "DISABLED"}
                           THEN "ENABLED" ELSE u.state[x]
<1>1. CASE ~u.allowed \/ x \notin u.installed
  <2>1. w = u
    BY <1>1 DEF ExtensionSystem!CallEnable
  <2>2. x \notin u.installed => u.state[x] = "none"
    BY DEF Good, GoodFor
  <2> QED
    BY <2>1, <2>2, <1>1 DEF Spared, Same, Extended
<1>2. CASE u.allowed /\ x \in u.installed /\ u.state[x] = "INITIALIZED"
  <2>1. PICK v \in ExtensionSystem!CallInit(u, x) : w \in ExtensionSystem!EnableDisabled(v, x)
    BY <1>2 DEF ExtensionSystem!CallEnable
  <2>2. Idle(u, x)
    BY <1>2, GoodIsIdle
  <2>3. /\ Good(v) /\ Spared(u, v, x) /\ v.installed = u.installed /\ v.order = u.order
        /\ v.state[x] # "ENABLED" /\ (x \notin v.faulty => v.state[x] = "DISABLED")
    BY <2>2, InitStep
  <2>4. /\ Good(w) /\ Spared(v, w, x) /\ Extended(v, w, x) /\ w.installed = v.installed
        /\ x \notin w.faulty =>
             w.state[x] = IF v.state[x] = "DISABLED" THEN "ENABLED" ELSE v.state[x]
    BY <2>1, <2>3, EnableDisabledStep
  <2>5. Spared(u, w, x)
    BY <2>3, <2>4, SparedThrough
  <2>6. Extended(u, w, x)
    BY <2>3, <2>4 DEF Extended
  <2>7. x \notin w.faulty => x \notin v.faulty
    BY <2>4 DEF Spared, Same
  <2> QED
    BY <1>2, <2>3, <2>4, <2>5, <2>6, <2>7
<1>3. CASE u.allowed /\ x \in u.installed /\ u.state[x] # "INITIALIZED"
  <2>1. w \in ExtensionSystem!EnableDisabled(u, x)
    BY <1>3 DEF ExtensionSystem!CallEnable
  <2> QED
    BY <1>3, <2>1, EnableDisabledStep
<1> QED
  BY <1>1, <1>2, <1>3

\* createExtensionObject() and loadExtension(), for one that is not there.
LEMMA LoadStep ==
  ASSUME NEW u, Good(u), NEW x \in ExtensionIds, x \notin u.installed,
         NEW w \in ExtensionSystem!LoadExtension(u, x)
  PROVE  /\ Good(w) /\ Spared(u, w, x) /\ Extended(u, w, x)
         /\ x \in w.installed /\ (x \notin w.faulty => SettledFor(w, x))
<1> DEFINE v == [u EXCEPT !.installed = u.installed \cup {x}, !.state[x] = "ERROR",
                          !.loaded = u.loaded \ {x}]
           out == v.checked /\ x \in OutdatedIds
           wanted == In(v.wanted, x)
<1>1. u \in ExtensionSystem!State /\ u.state[x] = "none" /\ x \in ExtensionIds
  BY DEF Good, GoodFor
<1>2. x \notin u.faulty => x \notin u.on /\ ~In(u.order, x) /\ Once(u.order, x)
  BY <1>1 DEF Good, GoodFor, Coherent
<1>3. v \in ExtensionSystem!State
  BY <1>1 DEF ExtensionSystem!State
<1>4. /\ v.faulty = u.faulty /\ v.on = u.on /\ v.order = u.order
      /\ v.installed = u.installed \cup {x} /\ v.loaded = u.loaded \ {x}
      /\ v.allowed = u.allowed /\ v.wanted = u.wanted /\ v.checked = u.checked
      /\ v.state[x] = "ERROR" /\ \A e \in ExtensionIds : e # x => v.state[e] = u.state[e]
  BY <1>1 DEF ExtensionSystem!State
<1>5. CASE out
  <2>1. w = [v EXCEPT !.state[x] = "OUT_OF_DATE"]
    BY <1>5 DEF ExtensionSystem!LoadExtension
  <2> HIDE DEF v
  <2>2. w \in ExtensionSystem!State
    BY <2>1, <1>3 DEF ExtensionSystem!State
  <2>3. /\ w.faulty = u.faulty /\ w.on = u.on /\ w.order = u.order
        /\ w.installed = u.installed \cup {x} /\ w.loaded = u.loaded \ {x}
        /\ w.allowed = u.allowed /\ w.wanted = u.wanted /\ w.checked = u.checked
        /\ w.state[x] = "OUT_OF_DATE"
        /\ \A e \in ExtensionIds : e # x => w.state[e] = u.state[e]
    BY <2>1, <1>3, <1>4 DEF ExtensionSystem!State
  <2> QED
    BY <2>2, <2>3, <1>1, <1>2
       DEF Good, GoodFor, Coherent, Spared, Same, Extended, SettledFor, Due
<1>6. CASE ~out /\ ~wanted
  <2>1. w = [v EXCEPT !.state[x] = "INITIALIZED"]
    BY <1>6 DEF ExtensionSystem!LoadExtension, ExtensionSystem!Contains, In
  <2> HIDE DEF v
  <2>2. w \in ExtensionSystem!State
    BY <2>1, <1>3 DEF ExtensionSystem!State
  <2>3. /\ w.faulty = u.faulty /\ w.on = u.on /\ w.order = u.order
        /\ w.installed = u.installed \cup {x} /\ w.loaded = u.loaded \ {x}
        /\ w.allowed = u.allowed /\ w.wanted = u.wanted /\ w.checked = u.checked
        /\ w.state[x] = "INITIALIZED"
        /\ \A e \in ExtensionIds : e # x => w.state[e] = u.state[e]
    BY <2>1, <1>3, <1>4 DEF ExtensionSystem!State
  <2>4. ~In(w.wanted, x)
    BY <1>6, <2>3, <1>4
  <2> QED
    BY <2>2, <2>3, <2>4, <1>1, <1>2
       DEF Good, GoodFor, Coherent, Spared, Same, Extended, SettledFor, Due
<1>7. CASE ~out /\ wanted /\ ~v.allowed
  <2>1. w = [v EXCEPT !.faulty = v.faulty \cup {x}]
    BY <1>7 DEF ExtensionSystem!LoadExtension, ExtensionSystem!Contains, In
  <2> HIDE DEF v
  <2>2. w \in ExtensionSystem!State
    BY <2>1, <1>3 DEF ExtensionSystem!State
  <2>3. /\ w.faulty = u.faulty \cup {x} /\ w.on = u.on /\ w.order = u.order
        /\ w.installed = u.installed \cup {x} /\ w.loaded = u.loaded \ {x}
        /\ w.allowed = u.allowed /\ w.wanted = u.wanted /\ w.checked = u.checked
        /\ w.state[x] = "ERROR"
        /\ \A e \in ExtensionIds : e # x => w.state[e] = u.state[e]
    BY <2>1, <1>3, <1>4 DEF ExtensionSystem!State
  <2> QED
    BY <2>2, <2>3, <1>1, <1>2 DEF Good, GoodFor, Coherent, Spared, Same, Extended
<1>8. CASE ~out /\ wanted /\ v.allowed
  <2>1. PICK y \in ExtensionSystem!CallInit(v, x) : w \in ExtensionSystem!EnableDisabled(y, x)
    BY <1>8 DEF ExtensionSystem!LoadExtension, ExtensionSystem!Contains, In
  <2> HIDE DEF v
  <2>2. Idle(v, x)
    BY <1>1, <1>2, <1>3, <1>4 DEF Good, GoodFor, Coherent, Idle
  <2>3. Spared(u, v, x)
    BY <1>4 DEF Spared, Same
  <2>4. /\ Good(y) /\ Spared(v, y, x) /\ y.installed = v.installed /\ y.order = v.order
        /\ y.state[x] # "ENABLED" /\ (x \notin y.faulty => y.state[x] = "DISABLED")
    BY <2>2, InitStep
  <2>5. /\ Good(w) /\ Spared(y, w, x) /\ Extended(y, w, x) /\ w.installed = y.installed
        /\ x \notin w.faulty =>
             w.state[x] = IF y.state[x] = "DISABLED" THEN "ENABLED" ELSE y.state[x]
    BY <2>1, <2>4, EnableDisabledStep
  <2>6. Spared(u, w, x)
    BY <2>3, <2>4, <2>5, SparedThrough
  <2>7. Extended(u, w, x)
    BY <2>4, <2>5, <1>4 DEF Extended
  <2>8. x \in w.installed
    BY <2>4, <2>5, <1>4
  <2>9. x \notin w.faulty => w.state[x] = "ENABLED"
    BY <2>4, <2>5 DEF Spared, Same
  <2>10. w.allowed /\ In(w.wanted, x)
    BY <1>8, <2>4, <2>5 DEF Spared, Same
  <2> QED
    BY <2>5, <2>6, <2>7, <2>8, <2>9, <2>10 DEF SettledFor, Due
<1> QED
  BY <1>5, <1>6, <1>7, <1>8

\* unloadExtension()
LEMMA UnloadStep ==
  ASSUME NEW u, Good(u), NEW x \in ExtensionIds, NEW w \in ExtensionSystem!UnloadExtension(u, x)
  PROVE  /\ Good(w) /\ Spared(u, w, x) /\ x \notin w.installed /\ w.state[x] = "none"
<1>1. PICK v \in ExtensionSystem!CallDisable(u, x) :
        w = [v EXCEPT !.installed = v.installed \ {x}, !.state[x] = "none",
                      !.loaded = v.loaded \ {x}]
  BY DEF ExtensionSystem!UnloadExtension
<1>2. Good(v) /\ Spared(u, v, x) /\ v.state[x] # "ENABLED"
  BY DisableStep
<1>3. v \in ExtensionSystem!State
  BY <1>2 DEF Good
<1>4. w \in ExtensionSystem!State
  BY <1>1, <1>3 DEF ExtensionSystem!State
<1>5. /\ w.faulty = v.faulty /\ w.on = v.on /\ w.order = v.order
      /\ w.installed = v.installed \ {x} /\ w.loaded = v.loaded \ {x}
      /\ w.allowed = v.allowed /\ w.wanted = v.wanted /\ w.checked = v.checked
      /\ w.state[x] = "none" /\ \A e \in ExtensionIds : e # x => w.state[e] = v.state[e]
  BY <1>1, <1>3 DEF ExtensionSystem!State
<1>6. Good(w)
  BY <1>2, <1>4, <1>5 DEF Good, GoodFor, Coherent
<1>7. Spared(v, w, x)
  BY <1>5 DEF Spared, Same
<1> QED
  BY <1>2, <1>5, <1>6, <1>7, SparedThrough

\* reloadExtension(): it has the last place in the order then, if it is enabled.
LEMMA ReloadStep ==
  ASSUME NEW u, Good(u), NEW x \in ExtensionIds, NEW w \in ExtensionSystem!Reload(u, x)
  PROVE  /\ Good(w) /\ Spared(u, w, x) /\ x \in w.installed
         /\ x \notin w.faulty => SettledFor(w, x)
         /\ w.state[x] = "ENABLED" =>
              \A d \in ExtensionIds :
                d # x /\ d \notin w.faulty /\ In(u.order, d) => Precedes(w.order, d, x)
<1>1. PICK v \in ExtensionSystem!UnloadExtension(u, x) : w \in ExtensionSystem!LoadExtension(v, x)
  BY DEF ExtensionSystem!Reload
<1>2. Good(v) /\ Spared(u, v, x) /\ x \notin v.installed /\ v.state[x] = "none"
  BY UnloadStep
<1>3. /\ Good(w) /\ Spared(v, w, x) /\ Extended(v, w, x)
      /\ x \in w.installed /\ (x \notin w.faulty => SettledFor(w, x))
  BY <1>1, <1>2, LoadStep
<1>4. Spared(u, w, x)
  BY <1>2, <1>3, SparedThrough
<1>5. ASSUME w.state[x] = "ENABLED", NEW d \in ExtensionIds,
             d # x, d \notin w.faulty, In(u.order, d)
      PROVE  Precedes(w.order, d, x)
  <2>1. d \notin v.faulty /\ d \notin u.faulty
    BY <1>2, <1>3, <1>5 DEF Spared, Same
  <2>2. u.state[d] = "ENABLED"
    BY <2>1, <1>5 DEF Good, GoodFor, Coherent
  <2>3. v.state[d] = "ENABLED"
    BY <2>1, <2>2, <1>2, <1>5 DEF Spared
  <2>4. In(v.order, d)
    BY <2>3, <1>2 DEF Good, GoodFor
  <2> QED
    BY <2>4, <1>2, <1>3, <1>5 DEF Extended
<1> QED
  BY <1>3, <1>4, <1>5
-----------------------------------------------------------------------------
(* The operations on a list of extensions. *)

InFirst(s, n, e) == \E k \in 1..n : s[k] = e

LEMMA FirstOnes ==
  ASSUME NEW S, NEW s \in Seq(S)
  PROVE  /\ \A e : ~InFirst(s, 0, e)
         /\ \A e : InFirst(s, Len(s), e) <=> In(s, e)
         /\ \A i \in 1..Len(s) : \A e : InFirst(s, i, e) <=> InFirst(s, i - 1, e) \/ e = s[i]
         /\ \A i \in 1..Len(s) : In(s, s[i]) /\ s[i] \in S
<1>1. Len(s) \in Nat
  OBVIOUS
<1>2. \A i \in 1..Len(s) : /\ \A k \in 1..i : k \in 1..(i - 1) \/ k = i
                           /\ \A k \in 1..(i - 1) : k \in 1..i
                           /\ i \in 1..i
  BY SMT
<1> QED
  BY <1>1, <1>2 DEF InFirst, In

LEMMA EnableAll ==
  ASSUME NEW u, Good(u), NEW s \in Seq(ExtensionIds), NEW w \in ExtensionSystem!EnableEach({u}, s)
  PROVE  /\ Good(w) /\ Same(u, w) /\ w.installed = u.installed
         /\ \A d, e \in ExtensionIds : Precedes(u.order, d, e) => Precedes(w.order, d, e)
         /\ \A e \in ExtensionIds : e \notin w.faulty =>
              w.state[e] = IF In(s, e) /\ u.allowed /\ u.state[e] \in {"INITIALIZED", "DISABLED"}
                           THEN "ENABLED" ELSE u.state[e]
<1> DEFINE n == Len(s)
           To(i, e) == IF InFirst(s, i, e) /\ u.allowed /\ u.state[e] \in {"INITIALIZED", "DISABLED"}
                       THEN "ENABLED" ELSE u.state[e]
           P(i, v) ==
             /\ Good(v) /\ Same(u, v) /\ v.installed = u.installed
             /\ \A d, e \in ExtensionIds : Precedes(u.order, d, e) => Precedes(v.order, d, e)
             /\ \A e \in ExtensionIds : e \notin v.faulty => v.state[e] = To(i, e)
           G == [i \in 0..n |-> {v \in ExtensionSystem!State : P(i, v)}]
<1>1. n \in Nat /\ 0 \in 0..n /\ n \in 0..n
  BY SMT
<1>2. u \in G[0]
  <2>1. \A e : To(0, e) = u.state[e]
    BY FirstOnes
  <2>2. P(0, u)
    BY <2>1 DEF Same
  <2> QED
    BY <1>1, <2>2 DEF Good
<1>3. ASSUME NEW i \in 1..n, NEW v \in G[i - 1]
      PROVE  ExtensionSystem!CallEnable(v, s[i]) \subseteq G[i]
  <2> SUFFICES ASSUME NEW y \in ExtensionSystem!CallEnable(v, s[i]) PROVE y \in G[i]
    OBVIOUS
  <2>1. i - 1 \in 0..n /\ i \in 0..n /\ i \in 1..Len(s)
    BY SMT
  <2>2. P(i - 1, v)
    BY <2>1
  <2> DEFINE x == s[i]
  <2>3. x \in ExtensionIds /\ \A e : InFirst(s, i, e) <=> InFirst(s, i - 1, e) \/ e = x
    BY FirstOnes
  <2> HIDE DEF x
  <2>4. /\ Good(y) /\ Spared(v, y, x) /\ Extended(v, y, x) /\ y.installed = v.installed
        /\ x \notin y.faulty =>
             y.state[x] = IF v.allowed /\ v.state[x] \in {"INITIALIZED", "DISABLED"}
                          THEN "ENABLED" ELSE v.state[x]
    BY <2>2, <2>3, EnableStep DEF x
  <2>5. Same(u, y) /\ Same(v, y) /\ Same(u, v)
    BY <2>2, <2>4 DEF Spared, Same
  <2>6. ASSUME NEW e \in ExtensionIds, e \notin y.faulty PROVE y.state[e] = To(i, e)
    <3>1. e \notin v.faulty /\ v.state[e] = To(i - 1, e) /\ v.allowed = u.allowed
      BY <2>2, <2>5, <2>6 DEF Same
    <3>2. CASE e = x
      BY <3>1, <3>2, <2>3, <2>4, <2>6
    <3>3. CASE e # x
      BY <3>1, <3>3, <2>3, <2>4, <2>6 DEF Spared
    <3> QED
      BY <3>2, <3>3
  <2>7. \A d, e \in ExtensionIds : Precedes(u.order, d, e) => Precedes(y.order, d, e)
    BY <2>2, <2>4 DEF Extended
  <2> HIDE DEF To
  <2>8. P(i, y)
    BY <2>2, <2>4, <2>5, <2>6, <2>7
  <2> QED
    BY <2>1, <2>8 DEF Good
<1> HIDE DEF G
<1>4. ExtensionSystem!EnableEach({u}, s) \subseteq G[n]
  <2>1. {u} \subseteq G[0]
    BY <1>2
  <2> QED
    BY <2>1, <1>3, EnableFold
<1>5. P(n, w)
  BY <1>1, <1>4 DEF G
<1>6. \A e : InFirst(s, n, e) <=> In(s, e)
  BY FirstOnes
<1> QED
  BY <1>5, <1>6

LEMMA DisableAll ==
  ASSUME NEW u, Good(u), NEW s \in Seq(ExtensionIds),
         NEW w \in ExtensionSystem!DisableEach({u}, s)
  PROVE  /\ Good(w) /\ Same(u, w) /\ w.installed = u.installed
         /\ \A d, e \in ExtensionIds :
              ~In(s, d) /\ ~In(s, e) /\ Precedes(u.order, d, e) => Precedes(w.order, d, e)
         /\ \A e \in ExtensionIds : e \notin w.faulty =>
              w.state[e] = IF In(s, e) /\ u.state[e] = "ENABLED" THEN "DISABLED" ELSE u.state[e]
<1> DEFINE n == Len(s)
           To(i, e) == IF InFirst(s, i, e) /\ u.state[e] = "ENABLED" THEN "DISABLED"
                       ELSE u.state[e]
           P(i, v) ==
             /\ Good(v) /\ Same(u, v) /\ v.installed = u.installed
             /\ \A d, e \in ExtensionIds :
                  ~In(s, d) /\ ~In(s, e) /\ Precedes(u.order, d, e) => Precedes(v.order, d, e)
             /\ \A e \in ExtensionIds : e \notin v.faulty => v.state[e] = To(i, e)
           G == [i \in 0..n |-> {v \in ExtensionSystem!State : P(i, v)}]
<1>1. n \in Nat /\ 0 \in 0..n /\ n \in 0..n
  BY SMT
<1>2. u \in G[0]
  <2>1. \A e : To(0, e) = u.state[e]
    BY FirstOnes
  <2>2. P(0, u)
    BY <2>1 DEF Same
  <2> QED
    BY <1>1, <2>2 DEF Good
<1>3. ASSUME NEW i \in 1..n, NEW v \in G[i - 1]
      PROVE  ExtensionSystem!CallDisable(v, s[i]) \subseteq G[i]
  <2> SUFFICES ASSUME NEW y \in ExtensionSystem!CallDisable(v, s[i]) PROVE y \in G[i]
    OBVIOUS
  <2>1. i - 1 \in 0..n /\ i \in 0..n /\ i \in 1..Len(s)
    BY SMT
  <2>2. P(i - 1, v)
    BY <2>1
  <2> DEFINE x == s[i]
  <2>3. x \in ExtensionIds /\ In(s, x)
        /\ \A e : InFirst(s, i, e) <=> InFirst(s, i - 1, e) \/ e = x
    BY FirstOnes
  <2> HIDE DEF x
  <2>4. /\ Good(y) /\ Spared(v, y, x) /\ y.installed = v.installed
        /\ x \notin y.faulty =>
             y.state[x] = IF v.state[x] = "ENABLED" THEN "DISABLED" ELSE v.state[x]
    BY <2>2, <2>3, DisableStep DEF x
  <2>5. Same(u, y) /\ Same(v, y)
    BY <2>2, <2>4 DEF Spared, Same
  <2>6. ASSUME NEW e \in ExtensionIds, e \notin y.faulty PROVE y.state[e] = To(i, e)
    <3>1. e \notin v.faulty /\ v.state[e] = To(i - 1, e)
      BY <2>2, <2>5, <2>6 DEF Same
    <3>2. CASE e = x
      BY <3>1, <3>2, <2>3, <2>4, <2>6
    <3>3. CASE e # x
      BY <3>1, <3>3, <2>3, <2>4, <2>6 DEF Spared
    <3> QED
      BY <3>2, <3>3
  <2>7. \A d, e \in ExtensionIds :
          ~In(s, d) /\ ~In(s, e) /\ Precedes(u.order, d, e) => Precedes(y.order, d, e)
    BY <2>2, <2>3, <2>4 DEF Spared
  <2> HIDE DEF To
  <2>8. P(i, y)
    BY <2>2, <2>4, <2>5, <2>6, <2>7
  <2> QED
    BY <2>1, <2>8 DEF Good
<1> HIDE DEF G
<1>4. ExtensionSystem!DisableEach({u}, s) \subseteq G[n]
  <2>1. {u} \subseteq G[0]
    BY <1>2
  <2> QED
    BY <2>1, <1>3, DisableFold
<1>5. P(n, w)
  BY <1>1, <1>4 DEF G
<1>6. \A e : InFirst(s, n, e) <=> In(s, e)
  BY FirstOnes
<1> QED
  BY <1>5, <1>6

\* Reloading a list when none is enabled: each is as it should be then, and in its place.
LEMMA ReloadAll ==
  ASSUME NEW u, NEW s \in Seq(ExtensionIds), NEW U,
         \A v \in U : /\ Good(v) /\ Same(u, v)
                      /\ \A e \in ExtensionIds : e \notin v.faulty =>
                           v.state[e] # "ENABLED" /\ (~In(s, e) => SettledFor(v, e)),
         NEW w \in ExtensionSystem!ReloadEach(U, s)
  PROVE  /\ Good(w) /\ Same(u, w) /\ Settled(w)
         /\ \A d, e \in ExtensionIds :
              /\ d \notin w.faulty /\ e \notin w.faulty /\ AllBefore(s, d, e)
              /\ w.state[d] = "ENABLED" /\ w.state[e] = "ENABLED"
              => Precedes(w.order, d, e)
<1> DEFINE n == Len(s)
           InPlace(v) == \A d, e \in ExtensionIds :
              /\ d \notin v.faulty /\ e \notin v.faulty /\ AllBefore(s, d, e)
              /\ v.state[d] = "ENABLED" /\ v.state[e] = "ENABLED"
              => Precedes(v.order, d, e)
           P(i, v) ==
             /\ Good(v) /\ Same(u, v) /\ InPlace(v)
             /\ \A e \in ExtensionIds : e \notin v.faulty =>
                  /\ ~In(s, e) \/ InFirst(s, i, e) => SettledFor(v, e)
                  /\ ~InFirst(s, i, e) => v.state[e] # "ENABLED"
           G == [i \in 0..n |-> {v \in ExtensionSystem!State : P(i, v)}]
<1>1. n \in Nat /\ 0 \in 0..n /\ n \in 0..n
  BY SMT
<1>2. U \subseteq G[0]
  <2> SUFFICES ASSUME NEW v \in U PROVE v \in G[0]
    OBVIOUS
  <2>1. \A e : ~InFirst(s, 0, e)
    BY FirstOnes
  <2>2. P(0, v)
    BY <2>1
  <2> QED
    BY <1>1, <2>2 DEF Good
<1>3. ASSUME NEW i \in 1..n, NEW v \in G[i - 1]
      PROVE  ExtensionSystem!Reload(v, s[i]) \subseteq G[i]
  <2> SUFFICES ASSUME NEW y \in ExtensionSystem!Reload(v, s[i]) PROVE y \in G[i]
    OBVIOUS
  <2>1. i - 1 \in 0..n /\ i \in 0..n /\ i \in 1..Len(s)
    BY SMT
  <2>2. P(i - 1, v)
    BY <2>1
  <2> DEFINE x == s[i]
  <2>3. x \in ExtensionIds /\ In(s, x)
        /\ \A e : InFirst(s, i, e) <=> InFirst(s, i - 1, e) \/ e = x
    BY FirstOnes
  <2> HIDE DEF x
  <2>4. /\ Good(y) /\ Spared(v, y, x) /\ x \in y.installed
        /\ x \notin y.faulty => SettledFor(y, x)
        /\ y.state[x] = "ENABLED" =>
             \A d \in ExtensionIds :
               d # x /\ d \notin y.faulty /\ In(v.order, d) => Precedes(y.order, d, x)
    BY <2>2, <2>3, ReloadStep DEF x
  <2>5. Same(u, y) /\ Same(v, y)
    BY <2>2, <2>4 DEF Spared, Same
  <2>6. ASSUME NEW e \in ExtensionIds, e \notin y.faulty, e # x
        PROVE  /\ e \notin v.faulty /\ y.state[e] = v.state[e]
               /\ SettledFor(v, e) => SettledFor(y, e)
    BY <2>4, <2>6 DEF Spared, Same, SettledFor, Due
  <2>7. ASSUME NEW e \in ExtensionIds, e \notin y.faulty
        PROVE  /\ ~In(s, e) \/ InFirst(s, i, e) => SettledFor(y, e)
               /\ ~InFirst(s, i, e) => y.state[e] # "ENABLED"
    <3>1. CASE e = x
      BY <3>1, <2>3, <2>4, <2>7
    <3>2. CASE e # x
      BY <3>2, <2>2, <2>3, <2>6, <2>7
    <3> QED
      BY <3>1, <3>2
  <2>8. InPlace(y)
    <3> SUFFICES ASSUME NEW d \in ExtensionIds, NEW e \in ExtensionIds,
                        d \notin y.faulty, e \notin y.faulty, AllBefore(s, d, e),
                        y.state[d] = "ENABLED", y.state[e] = "ENABLED"
                 PROVE  Precedes(y.order, d, e)
      OBVIOUS
    <3>1. CASE d # x /\ e # x
      <4>1. Precedes(v.order, d, e)
        BY <3>1, <2>2, <2>6
      <4> QED
        BY <3>1, <4>1, <2>4 DEF Spared
    <3>2. CASE e = x
      <4>1. d # x
        BY <3>2, <2>1, <1>1, SMT DEF AllBefore, x
      <4>2. v.state[d] = "ENABLED"
        BY <4>1, <2>6
      <4>3. In(v.order, d)
        BY <4>2, <2>2 DEF Good, GoodFor
      <4> QED
        BY <3>2, <4>1, <4>3, <2>4
    <3>3. CASE d = x /\ e # x
      <4>1. InFirst(s, i - 1, e)
        BY <3>3, <2>2, <2>6
      <4>2. PICK k \in 1..(i - 1) : s[k] = e
        BY <4>1 DEF InFirst
      <4>3. k \in 1..Len(s) /\ ~(i < k)
        BY SMT
      <4> QED
        BY <3>3, <4>2, <4>3, <2>1 DEF AllBefore, x
    <3> QED
      BY <3>1, <3>2, <3>3
  <2> HIDE DEF InPlace
  <2>9. P(i, y)
    BY <2>4, <2>5, <2>7, <2>8
  <2> QED
    BY <2>1, <2>9 DEF Good
<1> HIDE DEF G
<1>4. ExtensionSystem!ReloadEach(U, s) \subseteq G[n]
  BY <1>2, <1>3, ReloadFold
<1>5. P(n, w)
  BY <1>1, <1>4 DEF G
<1>6. \A e : InFirst(s, n, e) <=> In(s, e)
  BY FirstOnes
<1> QED
  BY <1>5, <1>6 DEF Settled
-----------------------------------------------------------------------------
(* The events. *)

LEMMA SameCardinality ==
  ASSUME NEW S
  PROVE  ExtensionSystem!Cardinality(S) = Cardinality(S)
BY DEF ExtensionSystem!Cardinality, Cardinality

LEMMA RangeIsIn ==
  ASSUME NEW S, NEW s \in Seq(S)
  PROVE  \A e : e \in ExtensionSystem!Range(s) <=> In(s, e)
<1>1. DOMAIN s = 1..Len(s)
  OBVIOUS
<1> QED
  BY <1>1 DEF ExtensionSystem!Range, In

LEMMA SetAsList ==
  ASSUME NEW S \in SUBSET ExtensionIds
  PROVE  /\ ExtensionSystem!SetToSeq(S) \in Seq(ExtensionIds)
         /\ \A e : In(ExtensionSystem!SetToSeq(S), e) => e \in S
<1> DEFINE n == Cardinality(S)
           s == ExtensionSystem!SetToSeq(S)
<1>1. IsFiniteSet(S)
  BY AgentsAssumption, FS_Subset
<1>2. n \in Nat /\ \E f \in [1..n -> S] : ExtensionSystem!IsInjective(f)
  BY <1>1, FS_CardinalityType
     DEF ExistsBijection, Bijection, Injection, IsInjective, ExtensionSystem!IsInjective
<1>3. s \in [1..n -> S]
  BY <1>2, SameCardinality DEF ExtensionSystem!SetToSeq
<1> HIDE DEF n, s
<1>4. s \in Seq(S) /\ Len(s) = n
  BY <1>2, <1>3, SMT
<1> QED
  BY <1>2, <1>3, <1>4 DEF In, s

\* Those whose code runs before and after keep their order.
KeepsPlaces(u, w) == \A d, e \in ExtensionIds :
  /\ d \notin u.faulty /\ d \notin w.faulty /\ e \notin u.faulty /\ e \notin w.faulty
  /\ Precedes(u.order, d, e) /\ d \in w.on /\ e \in w.on
  => Precedes(w.order, d, e)

\* _onEnabledExtensionsChanged()
LEMMA ListChanges ==
  ASSUME NEW u, Good(u), Settled(u), NEW s \in Seq(ExtensionIds),
         NEW w \in ExtensionSystem!EnabledExtensionsChanged(u, s)
  PROVE  Good(w) /\ Settled(w) /\ KeepsPlaces(u, w) /\ u.faulty \subseteq w.faulty
<1> DEFINE new == ExtensionSystem!Only(s, ExtensionIds \ ExtensionSystem!Range(u.wanted))
           gone(v) == ExtensionSystem!Only(v.order, ExtensionIds \ ExtensionSystem!Range(s))
<1>0. PICK v \in ExtensionSystem!EnableEach({u}, new) :
        \E y \in ExtensionSystem!DisableEach({v}, ExtensionSystem!Reverse(gone(v))) :
          w = [y EXCEPT !.wanted = s]
  BY DEF ExtensionSystem!EnabledExtensionsChanged
<1>1. PICK y \in ExtensionSystem!DisableEach({v}, ExtensionSystem!Reverse(gone(v))) :
        w = [y EXCEPT !.wanted = s]
  BY <1>0
<1>2. u \in ExtensionSystem!State /\ u.wanted \in Seq(ExtensionIds)
  BY DEF Good, ExtensionSystem!State
<1>3. new \in Seq(ExtensionIds)
      /\ \A e \in ExtensionIds : In(new, e) <=> ~In(u.wanted, e) /\ In(s, e)
  BY <1>2, OnlyHas, RangeIsIn
<1> HIDE DEF new
<1>4. /\ Good(v) /\ Same(u, v) /\ v.installed = u.installed
      /\ \A d, e \in ExtensionIds : Precedes(u.order, d, e) => Precedes(v.order, d, e)
      /\ \A e \in ExtensionIds : e \notin v.faulty =>
           v.state[e] = IF In(new, e) /\ u.allowed /\ u.state[e] \in {"INITIALIZED", "DISABLED"}
                        THEN "ENABLED" ELSE u.state[e]
  BY <1>1, <1>3, EnableAll
<1>5. v.order \in Seq(ExtensionIds)
  BY <1>4 DEF Good, ExtensionSystem!State
<1> DEFINE g == gone(v)
           r == ExtensionSystem!Reverse(g)
<1>6. g \in Seq(ExtensionIds)
      /\ \A e \in ExtensionIds : In(g, e) <=> In(v.order, e) /\ ~In(s, e)
  BY <1>5, OnlyHas, RangeIsIn
<1>7. y \in ExtensionSystem!DisableEach({v}, r)
  BY <1>1
<1> HIDE DEF g
<1>8. r \in Seq(ExtensionIds) /\ \A e : In(r, e) <=> In(g, e)
  BY <1>6, Reversed
<1> HIDE DEF r
<1>9. /\ Good(y) /\ Same(v, y) /\ y.installed = v.installed
      /\ \A d, e \in ExtensionIds :
           ~In(r, d) /\ ~In(r, e) /\ Precedes(v.order, d, e) => Precedes(y.order, d, e)
      /\ \A e \in ExtensionIds : e \notin y.faulty =>
           y.state[e] = IF In(r, e) /\ v.state[e] = "ENABLED" THEN "DISABLED" ELSE v.state[e]
  BY <1>4, <1>7, <1>8, DisableAll
<1>10. y \in ExtensionSystem!State
  BY <1>9 DEF Good
<1>11. /\ w \in ExtensionSystem!State /\ w.wanted = s
       /\ w.allowed = y.allowed /\ w.installed = y.installed /\ w.state = y.state
       /\ w.loaded = y.loaded /\ w.order = y.order /\ w.on = y.on /\ w.faulty = y.faulty
  BY <1>1, <1>10 DEF ExtensionSystem!State
<1>12. Good(w)
  BY <1>9, <1>11 DEF Good, GoodFor, Coherent
<1>13. ASSUME NEW e \in ExtensionIds, e \notin w.faulty
       PROVE  /\ e \notin u.faulty
              /\ y.state[e] = IF ~In(s, e) /\ v.state[e] = "ENABLED" THEN "DISABLED"
                              ELSE v.state[e]
              /\ v.state[e] = IF ~In(u.wanted, e) /\ In(s, e) /\ u.allowed
                                 /\ u.state[e] \in {"INITIALIZED", "DISABLED"}
                              THEN "ENABLED" ELSE u.state[e]
  <2>1. e \notin y.faulty /\ e \notin v.faulty /\ e \notin u.faulty
    BY <1>4, <1>9, <1>11, <1>13 DEF Same
  <2>2. v.state[e] = "ENABLED" => In(v.order, e)
    BY <1>4 DEF Good, GoodFor
  <2> QED
    BY <2>1, <2>2, <1>3, <1>4, <1>6, <1>8, <1>9
<1>14. ASSUME NEW e \in ExtensionIds, e \notin w.faulty PROVE SettledFor(w, e)
  <2>1. Coherent(u, e) /\ SettledFor(u, e)
    BY <1>13, <1>14 DEF Good, GoodFor, Settled
  <2>2. u.state[e] \in {"none", "INITIALIZED", "DISABLED", "ENABLED", "OUT_OF_DATE"}
        /\ (e \in u.installed <=> u.state[e] # "none")
    BY <1>2, <2>1 DEF Good, GoodFor, Coherent, ExtensionSystem!State
  <2>3. w.allowed = u.allowed /\ w.installed = u.installed /\ w.state[e] = y.state[e]
    BY <1>4, <1>9, <1>11 DEF Same
  <2> QED
    BY <1>11, <1>13, <1>14, <2>1, <2>2, <2>3 DEF SettledFor, Due
<1>15. KeepsPlaces(u, w)
  <2> SUFFICES ASSUME NEW d \in ExtensionIds, NEW e \in ExtensionIds,
                      d \notin w.faulty, e \notin w.faulty,
                      Precedes(u.order, d, e), d \in w.on, e \in w.on
               PROVE  Precedes(w.order, d, e)
    BY DEF KeepsPlaces
  <2>1. w.state[d] = "ENABLED" /\ w.state[e] = "ENABLED"
    BY <1>12 DEF Good, GoodFor, Coherent
  <2>2. In(s, d) /\ In(s, e)
    BY <2>1, <1>11, <1>14 DEF SettledFor, Due
  <2> QED
    BY <2>2, <1>4, <1>6, <1>8, <1>9, <1>11
<1>16. u.faulty \subseteq w.faulty
  BY <1>4, <1>9, <1>11 DEF Same
<1> QED
  BY <1>12, <1>14, <1>15, <1>16 DEF Settled

\* _onVersionValidationChanged()
LEMMA ValidationChanges ==
  ASSUME NEW u, Good(u), Settled(u), NEW w \in ExtensionSystem!VersionValidationChanged(u)
  PROVE  Good(w) /\ Settled(w) /\ KeepsPlaces(u, w)
<1> DEFINE others == ExtensionSystem!SetToSeq(u.installed \ ExtensionSystem!Range(u.order))
           known == ExtensionSystem!Only(u.order, u.installed)
           c == [u EXCEPT !.checked = ~u.checked]
           r == ExtensionSystem!Reverse(u.order)
           off == ExtensionSystem!DisableEach({c}, r)
           s == others \o known
<1>1. w \in ExtensionSystem!ReloadEach(off, s)
  BY DEF ExtensionSystem!VersionValidationChanged
<1>2. u \in ExtensionSystem!State /\ u.order \in Seq(ExtensionIds)
      /\ u.installed \in SUBSET ExtensionIds
  BY DEF Good, ExtensionSystem!State
<1>3. others \in Seq(ExtensionIds) /\ \A e : In(others, e) => ~In(u.order, e)
  <2>1. u.installed \ ExtensionSystem!Range(u.order) \in SUBSET ExtensionIds
    BY <1>2
  <2>2. \A e : e \in ExtensionSystem!Range(u.order) <=> In(u.order, e)
    BY <1>2, RangeIsIn
  <2> QED
    BY <2>1, <2>2, SetAsList
<1>4. /\ known \in Seq(ExtensionIds)
      /\ \A e : In(known, e) <=> e \in u.installed /\ In(u.order, e)
      /\ \A d, e : AllBefore(u.order, d, e) => AllBefore(known, d, e)
  BY <1>2, OnlyHas
<1>5. r \in Seq(ExtensionIds) /\ \A e : In(r, e) <=> In(u.order, e)
  BY <1>2, Reversed
<1>6. /\ c \in ExtensionSystem!State /\ c.allowed = u.allowed /\ c.wanted = u.wanted
      /\ c.installed = u.installed /\ c.state = u.state /\ c.loaded = u.loaded
      /\ c.order = u.order /\ c.on = u.on /\ c.faulty = u.faulty
  BY <1>2 DEF ExtensionSystem!State
<1> HIDE DEF others, known, c, r
<1>7. Good(c)
  BY <1>6 DEF Good, GoodFor, Coherent
<1>8. s \in Seq(ExtensionIds) /\ Len(s) = Len(others) + Len(known)
      /\ (\A k \in 1..Len(others) : s[k] = others[k])
      /\ (\A k \in 1..Len(known) : s[Len(others) + k] = known[k])
      /\ Len(others) \in Nat /\ Len(known) \in Nat
  BY <1>3, <1>4
<1> HIDE DEF s
<1>9. \A k \in 1..Len(s) : k \in 1..Len(others)
        \/ (k - Len(others) \in 1..Len(known) /\ Len(others) + (k - Len(others)) = k)
  BY <1>8, SMT
<1>10. \A e : In(known, e) => In(s, e)
  <2>1. \A k \in 1..Len(known) : Len(others) + k \in 1..Len(s)
    BY <1>8, SMT
  <2> QED
    BY <2>1, <1>8 DEF In
<1>11. ASSUME NEW d, NEW e, In(u.order, d), In(u.order, e), AllBefore(u.order, d, e)
       PROVE  AllBefore(s, d, e)
  <2>1. ~In(others, d) /\ ~In(others, e) /\ AllBefore(known, d, e)
    BY <1>3, <1>4, <1>11
  <2> SUFFICES ASSUME NEW j \in 1..Len(s), NEW k \in 1..Len(s), s[j] = d, s[k] = e
               PROVE  j < k
    BY DEF AllBefore
  <2>2. j \notin 1..Len(others) /\ k \notin 1..Len(others)
    BY <2>1, <1>8 DEF In
  <2>3. /\ j - Len(others) \in 1..Len(known) /\ known[j - Len(others)] = d
        /\ k - Len(others) \in 1..Len(known) /\ known[k - Len(others)] = e
    BY <2>2, <1>8, <1>9
  <2>4. j - Len(others) < k - Len(others)
    BY <2>1, <2>3 DEF AllBefore
  <2> QED
    BY <2>4, <1>8, SMT
<1>12. ASSUME NEW v \in off
       PROVE  /\ Good(v) /\ Same(c, v)
              /\ \A e \in ExtensionIds : e \notin v.faulty =>
                   v.state[e] # "ENABLED" /\ (~In(s, e) => SettledFor(v, e))
  <2>1. /\ Good(v) /\ Same(c, v) /\ v.installed = c.installed
        /\ \A e \in ExtensionIds : e \notin v.faulty =>
             v.state[e] = IF In(r, e) /\ c.state[e] = "ENABLED" THEN "DISABLED" ELSE c.state[e]
    BY <1>5, <1>7, <1>12, DisableAll
  <2>2. ASSUME NEW e \in ExtensionIds, e \notin v.faulty
        PROVE  v.state[e] # "ENABLED" /\ (~In(s, e) => SettledFor(v, e))
    <3>1. e \notin u.faulty /\ Coherent(u, e) /\ SettledFor(u, e)
      BY <2>1, <2>2, <1>6 DEF Same, Good, GoodFor, Settled
    <3>2. /\ u.state[e] = "ENABLED" => In(u.order, e)
          /\ e \in u.installed <=> u.state[e] # "none"
      BY DEF Good, GoodFor
    <3>3. v.state[e] # "ENABLED"
      BY <2>1, <2>2, <3>2, <1>5, <1>6
    <3>4. ASSUME ~In(s, e) PROVE SettledFor(v, e)
      <4>1. ~(e \in u.installed /\ In(u.order, e))
        BY <3>4, <1>4, <1>10
      <4>2. u.state[e] # "ENABLED" /\ v.state[e] = u.state[e]
        BY <4>1, <3>2, <2>1, <2>2, <1>6
      <4> QED
        BY <4>2, <3>1, <2>1, <1>6 DEF SettledFor, Due, Same
    <3> QED
      BY <3>3, <3>4
  <2> QED
    BY <2>1, <2>2
<1> HIDE DEF off
<1>13. /\ Good(w) /\ Same(c, w) /\ Settled(w)
       /\ \A d, e \in ExtensionIds :
            /\ d \notin w.faulty /\ e \notin w.faulty /\ AllBefore(s, d, e)
            /\ w.state[d] = "ENABLED" /\ w.state[e] = "ENABLED"
            => Precedes(w.order, d, e)
  BY <1>1, <1>8, <1>12, ReloadAll
<1>14. KeepsPlaces(u, w)
  <2> SUFFICES ASSUME NEW d \in ExtensionIds, NEW e \in ExtensionIds,
                      d \notin u.faulty, d \notin w.faulty, e \notin u.faulty, e \notin w.faulty,
                      Precedes(u.order, d, e), d \in w.on, e \in w.on
               PROVE  Precedes(w.order, d, e)
    BY DEF KeepsPlaces
  <2>1. In(u.order, d) /\ In(u.order, e) /\ Once(u.order, d) /\ Once(u.order, e)
    BY DEF Precedes, In, Good, GoodFor, Coherent
  <2>2. AllBefore(u.order, d, e)
    BY <2>1 DEF Precedes, Once, AllBefore
  <2>3. w.state[d] = "ENABLED" /\ w.state[e] = "ENABLED"
    BY <1>13 DEF Good, GoodFor, Coherent
  <2> QED
    BY <2>1, <2>2, <2>3, <1>11, <1>13
<1> QED
  BY <1>13, <1>14

\* sessionMode 'updated': extensions are allowed from now on, or are not any more.
LEMMA SessionAllows ==
  ASSUME NEW u, Good(u), Settled(u), NEW c, Good(c), c.allowed, ~u.allowed,
         c.wanted = u.wanted, c.installed = u.installed, c.state = u.state,
         c.order = u.order, c.faulty = u.faulty,
         NEW s \in Seq(ExtensionIds), s = u.wanted, NEW w \in ExtensionSystem!EnableEach({c}, s)
  PROVE  Good(w) /\ Settled(w) /\ KeepsPlaces(u, w)
<1>1. /\ Good(w) /\ Same(c, w) /\ w.installed = c.installed
      /\ \A d, e \in ExtensionIds : Precedes(c.order, d, e) => Precedes(w.order, d, e)
      /\ \A e \in ExtensionIds : e \notin w.faulty =>
           w.state[e] = IF In(s, e) /\ c.allowed /\ c.state[e] \in {"INITIALIZED", "DISABLED"}
                        THEN "ENABLED" ELSE c.state[e]
  BY EnableAll
<1>2. ASSUME NEW e \in ExtensionIds, e \notin w.faulty PROVE SettledFor(w, e)
  <2>1. e \notin u.faulty /\ Coherent(u, e) /\ SettledFor(u, e)
    BY <1>1, <1>2 DEF Same, Good, GoodFor, Settled
  <2>2. u.state[e] \in {"none", "INITIALIZED", "DISABLED", "OUT_OF_DATE"}
        /\ (e \in u.installed <=> u.state[e] # "none")
    BY <2>1 DEF Good, GoodFor, Coherent, SettledFor, Due, ExtensionSystem!State
  <2>3. /\ w.allowed /\ w.wanted = s /\ w.installed = u.installed
        /\ w.state[e] = IF In(s, e) /\ u.state[e] \in {"INITIALIZED", "DISABLED"}
                        THEN "ENABLED" ELSE u.state[e]
    BY <1>1, <1>2 DEF Same
  <2> QED
    BY <2>2, <2>3 DEF SettledFor, Due
<1> QED
  BY <1>1, <1>2 DEF Settled, KeepsPlaces

LEMMA SessionForbids ==
  ASSUME NEW u, NEW c, Good(c), ~c.allowed,
         NEW s \in Seq(ExtensionIds), \A e : In(s, e) <=> In(c.order, e),
         NEW w \in ExtensionSystem!DisableEach({c}, s)
  PROVE  Good(w) /\ Settled(w) /\ KeepsPlaces(u, w)
<1>1. /\ Good(w) /\ Same(c, w)
      /\ \A e \in ExtensionIds : e \notin w.faulty =>
           w.state[e] = IF In(s, e) /\ c.state[e] = "ENABLED" THEN "DISABLED" ELSE c.state[e]
  BY DisableAll
<1>2. ASSUME NEW e \in ExtensionIds, e \notin w.faulty PROVE w.state[e] # "ENABLED"
  <2>1. c.state[e] = "ENABLED" => In(s, e)
    BY DEF Good, GoodFor
  <2> QED
    BY <2>1, <1>1, <1>2
<1>3. Settled(w)
  BY <1>1, <1>2 DEF Settled, SettledFor, Due, Same
<1>4. KeepsPlaces(u, w)
  BY <1>1, <1>2 DEF KeepsPlaces, Good, GoodFor, Coherent
<1> QED
  BY <1>1, <1>3, <1>4

LEMMA SessionChanges ==
  ASSUME NEW u, Good(u), Settled(u), NEW c, c = [u EXCEPT !.allowed = ~u.allowed],
         NEW w, w \in IF c.allowed THEN ExtensionSystem!EnableEach({c}, c.wanted)
                      ELSE ExtensionSystem!DisableEach({c}, ExtensionSystem!Reverse(c.order))
  PROVE  Good(w) /\ Settled(w) /\ KeepsPlaces(u, w)
<1>1. u \in ExtensionSystem!State
  BY DEF Good
<1>2. /\ c \in ExtensionSystem!State /\ c.allowed = ~u.allowed /\ c.wanted = u.wanted
      /\ c.installed = u.installed /\ c.state = u.state /\ c.loaded = u.loaded
      /\ c.order = u.order /\ c.on = u.on /\ c.faulty = u.faulty
      /\ c.wanted \in Seq(ExtensionIds) /\ c.order \in Seq(ExtensionIds)
      /\ u.allowed \in BOOLEAN
  BY <1>1 DEF ExtensionSystem!State
<1>3. Good(c)
  BY <1>2 DEF Good, GoodFor, Coherent
<1>4. CASE c.allowed
  <2> DEFINE s == c.wanted
  <2>1. w \in ExtensionSystem!EnableEach({c}, s) /\ s \in Seq(ExtensionIds) /\ s = u.wanted
    BY <1>2, <1>4
  <2> HIDE DEF s
  <2> QED
    BY <2>1, <1>2, <1>3, <1>4, SessionAllows
<1>5. CASE ~c.allowed
  <2> DEFINE r == ExtensionSystem!Reverse(c.order)
  <2>1. w \in ExtensionSystem!DisableEach({c}, r)
    BY <1>5
  <2>2. r \in Seq(ExtensionIds) /\ \A e : In(r, e) <=> In(c.order, e)
    BY <1>2, Reversed
  <2> HIDE DEF r
  <2> QED
    BY <2>1, <2>2, <1>3, <1>5, SessionForbids
<1> QED
  BY <1>4, <1>5

\* uninstallExtension(), the installation and the update of one.
LEMMA Uninstalls ==
  ASSUME NEW u, Good(u), Settled(u), NEW x \in ExtensionIds,
         NEW w \in ExtensionSystem!UnloadExtension(u, x)
  PROVE  Good(w) /\ Settled(w) /\ KeepsPlaces(u, w)
<1>1. Good(w) /\ Spared(u, w, x) /\ x \notin w.installed /\ w.state[x] = "none"
  BY UnloadStep
<1>2. SettledFor(w, x)
  BY <1>1 DEF SettledFor, Due
<1>3. Settled(w)
  BY <1>1, <1>2, SettledSpared
<1>4. x \notin w.faulty => x \notin w.on
  BY <1>1 DEF Good, GoodFor, Coherent
<1> QED
  BY <1>1, <1>3, <1>4 DEF KeepsPlaces, Spared

LEMMA Installs ==
  ASSUME NEW u, Good(u), Settled(u), NEW x \in ExtensionIds, x \notin u.installed,
         NEW s \in Seq(ExtensionIds), NEW v \in ExtensionSystem!LoadExtension(u, x),
         NEW w \in ExtensionSystem!EnabledExtensionsChanged(v, s)
  PROVE  Good(w) /\ Settled(w) /\ KeepsPlaces(u, w)
<1>1. /\ Good(v) /\ Spared(u, v, x) /\ Extended(u, v, x)
      /\ x \in v.installed /\ (x \notin v.faulty => SettledFor(v, x))
  BY LoadStep
<1>2. Settled(v)
  BY <1>1, SettledSpared
<1>3. Good(w) /\ Settled(w) /\ KeepsPlaces(v, w) /\ v.faulty \subseteq w.faulty
  BY <1>1, <1>2, ListChanges
<1>4. KeepsPlaces(u, w)
  <2> SUFFICES ASSUME NEW d \in ExtensionIds, NEW e \in ExtensionIds,
                      d \notin u.faulty, d \notin w.faulty, e \notin u.faulty, e \notin w.faulty,
                      Precedes(u.order, d, e), d \in w.on, e \in w.on
               PROVE  Precedes(w.order, d, e)
    BY DEF KeepsPlaces
  <2>1. d # x /\ e # x
    <3>1. In(u.order, d) /\ In(u.order, e)
      BY DEF Precedes, In
    <3>2. u.state[d] = "ENABLED" /\ u.state[e] = "ENABLED"
      BY <3>1 DEF Good, GoodFor, Coherent
    <3> QED
      BY <3>2 DEF Good, GoodFor
  <2>2. Precedes(v.order, d, e)
    BY <1>1 DEF Extended
  <2> QED
    BY <2>2, <1>3 DEF KeepsPlaces
<1> QED
  BY <1>3, <1>4

LEMMA Updates ==
  ASSUME NEW u, Good(u), Settled(u), NEW x \in ExtensionIds,
         NEW w \in ExtensionSystem!Reload(u, x)
  PROVE  /\ Good(w) /\ Settled(w)
         /\ \A d, e \in ExtensionIds :
              d # x /\ e # x /\ Precedes(u.order, d, e) => Precedes(w.order, d, e)
<1>1. /\ Good(w) /\ Spared(u, w, x) /\ x \in w.installed
      /\ x \notin w.faulty => SettledFor(w, x)
  BY ReloadStep
<1> QED
  BY <1>1, SettledSpared DEF Spared
-----------------------------------------------------------------------------
(* The actions of the component. *)

ExtensionGood == Good(state) /\ Settled(state)

LEMMA ExtensionInit == ExtensionSystem!Init => ExtensionGood
<1> SUFFICES ASSUME ExtensionSystem!Init PROVE ExtensionGood
  OBVIOUS
<1>1. /\ state \in ExtensionSystem!State /\ state.wanted = <<>> /\ state.order = <<>>
      /\ state.installed = ExtensionIds /\ state.on = {}
      /\ \A e \in ExtensionIds : state.state[e] \in {"OUT_OF_DATE", "INITIALIZED"}
  BY AgentsAssumption DEF ExtensionSystem!Init, ExtensionSystem!State
<1>2. \A e : ~In(state.wanted, e) /\ ~In(state.order, e) /\ Once(state.order, e)
  BY <1>1 DEF In, Once
<1>3. ASSUME NEW e \in ExtensionIds PROVE GoodFor(state, e) /\ SettledFor(state, e)
  <2>1. state.state[e] \in {"OUT_OF_DATE", "INITIALIZED"}
    BY <1>1
  <2> QED
    BY <2>1, <1>1, <1>2 DEF GoodFor, Coherent, SettledFor, Due
<1> QED
  BY <1>1, <1>3 DEF ExtensionGood, Good, Settled

\* What a step has to show: the invariant, and that the places are kept.
After == ExtensionGood' /\ KeepsPlaces(state, state')

\* The lists that the user or a client makes of the one there is.
LEMMA ListsAreLists ==
  ASSUME ExtensionGood, NEW s \in ExtensionSystem!Lists
  PROVE  s \in Seq(ExtensionIds)
<1>1. state.wanted \in Seq(ExtensionIds)
  BY DEF ExtensionGood, Good, ExtensionSystem!State
<1>2. ASSUME NEW e \in ExtensionIds
      PROVE  /\ ExtensionSystem!Only(state.wanted, ExtensionIds \ {e}) \in Seq(ExtensionIds)
             /\ Append(state.wanted, e) \in Seq(ExtensionIds)
  BY <1>1, OnlyHas, Appended
<1>3. <<>> \in Seq(ExtensionIds)
  OBVIOUS
<1>4. \/ s = <<>>
      \/ \E e \in ExtensionIds : s = ExtensionSystem!Only(state.wanted, ExtensionIds \ {e})
      \/ \E e \in ExtensionIds : s = Append(state.wanted, e)
  BY DEF ExtensionSystem!Lists
<1> QED
  BY <1>2, <1>3, <1>4

LEMMA SetWantedGood ==
  ASSUME ExtensionGood, NEW s \in ExtensionSystem!Lists, ExtensionSystem!SetWanted(s)
  PROVE  After
<1>1. s \in Seq(ExtensionIds)
  BY ListsAreLists
<1>2. state' \in ExtensionSystem!EnabledExtensionsChanged(state, s)
  BY DEF ExtensionSystem!SetWanted
<1> QED
  BY <1>1, <1>2, ListChanges DEF ExtensionGood, After

LEMMA SetCheckedGood ==
  ASSUME ExtensionGood, ExtensionSystem!SetChecked PROVE After
BY ValidationChanges DEF ExtensionGood, After, ExtensionSystem!SetChecked

LEMMA SessionUpdatedGood ==
  ASSUME ExtensionGood, ExtensionSystem!SessionUpdated PROVE After
<1> DEFINE c == [state EXCEPT !.allowed = ~state.allowed]
<1>1. state' \in IF c.allowed THEN ExtensionSystem!EnableEach({c}, c.wanted)
                 ELSE ExtensionSystem!DisableEach({c}, ExtensionSystem!Reverse(c.order))
  BY DEF ExtensionSystem!SessionUpdated
<1>2. c = [state EXCEPT !.allowed = ~state.allowed]
  OBVIOUS
<1> HIDE DEF c
<1> QED
  BY <1>1, <1>2, SessionChanges DEF ExtensionGood, After

LEMMA UninstallGood ==
  ASSUME ExtensionGood, NEW e \in ExtensionIds, ExtensionSystem!Uninstall(e)
  PROVE  After
BY Uninstalls DEF ExtensionGood, After, ExtensionSystem!Uninstall

LEMMA InstallGood ==
  ASSUME ExtensionGood, NEW e \in ExtensionIds, ExtensionSystem!Install(e)
  PROVE  After
<1> DEFINE s == IF ExtensionSystem!Contains(state.wanted, e) THEN state.wanted
                ELSE Append(state.wanted, e)
<1>1. state.wanted \in Seq(ExtensionIds)
  BY DEF ExtensionGood, Good, ExtensionSystem!State
<1>2. s \in Seq(ExtensionIds)
  BY <1>1, Appended
<1>3. e \notin state.installed /\
      \E v \in ExtensionSystem!LoadExtension(state, e) :
        state' \in ExtensionSystem!EnabledExtensionsChanged(v, s)
  BY DEF ExtensionSystem!Install
<1> HIDE DEF s
<1>4. PICK v \in ExtensionSystem!LoadExtension(state, e) :
             state' \in ExtensionSystem!EnabledExtensionsChanged(v, s)
  BY <1>3
<1> QED
  BY <1>2, <1>3, <1>4, Installs DEF ExtensionGood, After

LEMMA UpdateGood ==
  ASSUME ExtensionGood, NEW x \in ExtensionIds, ExtensionSystem!Update(x)
  PROVE  /\ ExtensionGood'
         /\ \A d, e \in ExtensionIds :
              d # x /\ e # x /\ Precedes(state.order, d, e) => Precedes(state'.order, d, e)
BY Updates DEF ExtensionGood, ExtensionSystem!Update

\* What KeepsOrder says, in the terms of the invariant.
LEMMA PlacesAreOrder ==
  ASSUME ExtensionGood, ExtensionGood',
         \A d, e \in ExtensionIds :
           /\ d \notin state.faulty /\ d \notin state'.faulty
           /\ e \notin state.faulty /\ e \notin state'.faulty
           /\ Precedes(state.order, d, e) /\ d \in state'.on /\ e \in state'.on
           => \/ Precedes(state'.order, d, e)
              \/ ExtensionSystem!Update(d) \/ ExtensionSystem!Update(e)
  PROVE  ExtensionSystem!KeepsOrder
<1>1. state.order \in Seq(ExtensionIds) /\ state'.order \in Seq(ExtensionIds)
  BY DEF ExtensionGood, Good, ExtensionSystem!State
<1>2. DOMAIN state.order = 1..Len(state.order) /\ DOMAIN state'.order = 1..Len(state'.order)
  BY <1>1
<1> SUFFICES ASSUME NEW d \in ExtensionIds, NEW e \in ExtensionIds,
                    d \notin state.faulty, d \notin state'.faulty,
                    e \notin state.faulty, e \notin state'.faulty,
                    \E i, j \in DOMAIN state.order :
                      state.order[i] = d /\ state.order[j] = e /\ i < j,
                    {d, e} \subseteq state'.on
             PROVE  \/ \E i, j \in DOMAIN state'.order :
                         state'.order[i] = d /\ state'.order[j] = e /\ i < j
                    \/ ExtensionSystem!Update(d) \/ ExtensionSystem!Update(e)
  BY DEF ExtensionSystem!KeepsOrder, ExtensionSystem!Sound
<1>3. Precedes(state.order, d, e)
  BY <1>2 DEF Precedes
<1>4. \/ Precedes(state'.order, d, e)
      \/ ExtensionSystem!Update(d) \/ ExtensionSystem!Update(e)
  BY <1>3
<1> QED
  BY <1>4, <1>2 DEF Precedes

\* Every step keeps the invariant, and the order of what it does not replace.
LEMMA ExtensionStep ==
  ASSUME ExtensionGood, ExtensionSystem!Next
  PROVE  ExtensionGood' /\ ExtensionSystem!KeepsOrder
<1>1. ASSUME After PROVE ExtensionGood' /\ ExtensionSystem!KeepsOrder
  BY <1>1, PlacesAreOrder DEF After, KeepsPlaces
<1>2. CASE \E s \in ExtensionSystem!Lists : ExtensionSystem!SetWanted(s)
  BY <1>1, <1>2, SetWantedGood
<1>3. CASE ExtensionSystem!SetChecked
  BY <1>1, <1>3, SetCheckedGood
<1>4. CASE ExtensionSystem!SessionUpdated
  BY <1>1, <1>4, SessionUpdatedGood
<1>5. CASE \E e \in ExtensionIds : ExtensionSystem!Uninstall(e)
  BY <1>1, <1>5, UninstallGood
<1>6. CASE \E e \in ExtensionIds : ExtensionSystem!Install(e)
  BY <1>1, <1>6, InstallGood
<1>7. ASSUME NEW x \in ExtensionIds, ExtensionSystem!Update(x)
      PROVE  ExtensionGood' /\ ExtensionSystem!KeepsOrder
  <2>1. /\ ExtensionGood'
        /\ \A d, e \in ExtensionIds :
             d # x /\ e # x /\ Precedes(state.order, d, e) => Precedes(state'.order, d, e)
    BY <1>7, UpdateGood
  <2>2. \A d, e \in ExtensionIds : Precedes(state.order, d, e) =>
          \/ Precedes(state'.order, d, e)
          \/ ExtensionSystem!Update(d) \/ ExtensionSystem!Update(e)
    BY <2>1, <1>7
  <2> QED
    BY <2>1, <2>2, PlacesAreOrder
<1> QED
  BY <1>2, <1>3, <1>4, <1>5, <1>6, <1>7 DEF ExtensionSystem!Next

\* What the invariant says of an extension that has never thrown.
LEMMA ExtensionAnswers ==
  ExtensionGood => ExtensionSystem!TypeOK /\ ExtensionSystem!EnabledAsWanted
<1> SUFFICES ASSUME ExtensionGood
             PROVE  ExtensionSystem!TypeOK /\ ExtensionSystem!EnabledAsWanted
  OBVIOUS
<1>1. /\ state \in ExtensionSystem!State
      /\ state.order \in Seq(ExtensionIds) /\ state.wanted \in Seq(ExtensionIds)
  BY DEF ExtensionGood, Good, ExtensionSystem!State
<1>2. ASSUME NEW e \in ExtensionIds, e \notin state.faulty
      PROVE  LET due == /\ state.allowed /\ ExtensionSystem!Contains(state.wanted, e)
                        /\ e \in state.installed /\ state.state[e] # "OUT_OF_DATE"
             IN /\ due <=> state.state[e] = "ENABLED"
                /\ due <=> e \in state.on
                /\ ExtensionSystem!Cardinality({i \in DOMAIN state.order : state.order[i] = e})
                     = IF due THEN 1 ELSE 0
  <2> DEFINE places == {i \in DOMAIN state.order : state.order[i] = e}
  <2>1. Coherent(state, e) /\ SettledFor(state, e)
        /\ (state.state[e] = "ENABLED" => In(state.order, e))
    BY <1>2 DEF ExtensionGood, Good, GoodFor, Settled
  <2>2. ExtensionSystem!Contains(state.wanted, e) <=> In(state.wanted, e)
    BY <1>1 DEF ExtensionSystem!Contains, In
  <2>3. DOMAIN state.order = 1..Len(state.order)
    BY <1>1
  <2>4. ExtensionSystem!Cardinality(places) = Cardinality(places)
    BY SameCardinality
  <2>5. ASSUME In(state.order, e) PROVE Cardinality(places) = 1
    <3>1. PICK k \in 1..Len(state.order) : state.order[k] = e
      BY <2>5 DEF In
    <3>2. places = {k}
      BY <3>1, <2>1, <2>3 DEF Coherent, Once
    <3> QED
      BY <3>2, FS_Singleton
  <2>6. ASSUME ~In(state.order, e) PROVE Cardinality(places) = 0
    <3>1. places = {}
      BY <2>3, <2>6 DEF In
    <3> QED
      BY <3>1, FS_EmptySet
  <2> HIDE DEF places
  <2>7. In(state.order, e) <=> state.state[e] = "ENABLED"
    BY <2>1 DEF Coherent
  <2>8. /\ Due(state, e) <=> state.state[e] = "ENABLED"
        /\ Due(state, e) <=> e \in state.on
        /\ Cardinality(places) = IF Due(state, e) THEN 1 ELSE 0
    BY <2>1, <2>5, <2>6, <2>7 DEF SettledFor, Coherent
  <2> QED
    BY <2>2, <2>4, <2>8 DEF Due, places
<1> QED
  BY <1>1, <1>2 DEF ExtensionSystem!TypeOK, ExtensionSystem!EnabledAsWanted,
                    ExtensionSystem!Sound

\* For every finite set of extensions and any number of calls of theirs that throw: one that
\* has never thrown is enabled, runs and has its one place in the order exactly when it is
\* wanted, installed, fits and the session allows extensions; and those that stay enabled
\* stay in their order (extensionSystem.js).
THEOREM ExtensionsRunAsWanted ==
  ExtensionSystem!Spec => /\ [](ExtensionSystem!TypeOK /\ ExtensionSystem!EnabledAsWanted)
                          /\ [][ExtensionSystem!KeepsOrder]_state
<1>1. ExtensionGood /\ [ExtensionSystem!Next]_(ExtensionSystem!extVars)
        => ExtensionGood' /\ [ExtensionSystem!KeepsOrder]_state
  <2>1. CASE ExtensionSystem!Next
    BY <2>1, ExtensionStep
  <2>2. CASE UNCHANGED ExtensionSystem!extVars
    BY <2>2 DEF ExtensionSystem!extVars, ExtensionGood
  <2> QED BY <2>1, <2>2
<1> QED
  BY <1>1, ExtensionInit, ExtensionAnswers, PTL DEF ExtensionSystem!Spec
=============================================================================
