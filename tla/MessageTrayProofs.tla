--------------------------- MODULE MessageTrayProofs ---------------------------
(***************************************************************************)
(* What MessageTray.tla promises, for any notifications, sources and limits.*)
(***************************************************************************)
EXTENDS MessageTray, FiniteSetTheorems, TLAPS

\* Induction over the naturals, for a set: FS_Injection on 0 .. k, where the
\* successor would be a bijection onto what has no 0.
LEMMA SetInduction ==
  ASSUME NEW T, 0 \in T, \A n \in Nat : n \in T => n + 1 \in T
  PROVE  Nat \subseteq T
<1> SUFFICES ASSUME NEW k \in Nat, k \notin T PROVE FALSE
  OBVIOUS
<1> DEFINE S == 0 .. k
           f == [n \in S |-> IF n \in T THEN n + 1 ELSE n]
<1>1. f \in Injection(S, S)
  <2>1. ASSUME NEW n \in S PROVE f[n] \in S
    BY SMT
  <2>2. ASSUME NEW m \in S, NEW n \in S, f[m] = f[n] PROVE m = n
    BY <2>2, SMT
  <2> QED
    BY <2>1, <2>2 DEF Injection, IsInjective
<1>2. IsFiniteSet(S)
  BY FS_Interval
<1>3. f \in Surjection(S, S)
  BY <1>1, <1>2, FS_Injection
<1>4. 0 \in S
  BY SMT
<1>5. PICK n \in S : f[n] = 0
  BY <1>3, <1>4 DEF Surjection
<1> QED
  BY <1>5, SMT

\* What the first i steps of a filter have kept.
Kept(q, A, f, n) ==
  f = [i \in 0 .. n |-> IF i = 0 THEN <<>>
                        ELSE IF q[i] \in A THEN Append(f[i - 1], q[i]) ELSE f[i - 1]]

LEMMA KeptExists ==
  ASSUME NEW S, NEW A, NEW q \in Seq(S)
  PROVE  \E f : Kept(q, A, f, Len(q))
<1> DEFINE T == {n \in Nat : \E f : Kept(q, A, f, n)}
<1>1. 0 \in T
  <2>1. Kept(q, A, [i \in 0 .. 0 |-> <<>>], 0)
    BY SMT DEF Kept
  <2> QED
    BY <2>1
<1>2. ASSUME NEW n \in Nat, n \in T PROVE n + 1 \in T
  <2>1. PICK f : Kept(q, A, f, n)
    BY <1>2
  <2> DEFINE g == [i \in 0 .. n + 1 |->
                     IF i <= n THEN f[i]
                     ELSE IF q[i] \in A THEN Append(f[n], q[i]) ELSE f[n]]
  <2>2. ASSUME NEW i \in 0 .. n + 1
        PROVE  g[i] = IF i = 0 THEN <<>>
                      ELSE IF q[i] \in A THEN Append(g[i - 1], q[i]) ELSE g[i - 1]
    <3>1. CASE i = n + 1
      BY <3>1, SMT
    <3>2. CASE i \in 0 .. n
      <4>1. f[i] = IF i = 0 THEN <<>>
                   ELSE IF q[i] \in A THEN Append(f[i - 1], q[i]) ELSE f[i - 1]
        BY <2>1, <3>2, Zenon DEF Kept
      <4>2. g[i] = f[i] /\ (i # 0 => g[i - 1] = f[i - 1])
        BY <3>2, SMT
      <4> QED
        BY <4>1, <4>2
    <3> QED
      BY <3>1, <3>2, SMT
  <2>3. g = [i \in 0 .. n + 1 |-> g[i]]
    OBVIOUS
  <2> HIDE DEF g
  <2>4. Kept(q, A, g, n + 1)
    BY <2>2, <2>3, Zenon DEF Kept
  <2>5. n + 1 \in Nat
    BY SMT
  <2> QED
    BY <2>4, <2>5
<1>3. Nat \subseteq T
  <2> HIDE DEF T
  <2> QED
    BY <1>1, <1>2, SetInduction
<1>4. Len(q) \in Nat
  BY SMT
<1> QED
  BY <1>3, <1>4

\* The places of q that the first i steps of a filter have kept: an increasing
\* list of all the places that hold an element of A.
Chosen(q, A, n, r, e) ==
  /\ e \in [1 .. Len(r) -> 1 .. n]
  /\ \A j, k \in 1 .. Len(r) : j < k => e[j] < e[k]
  /\ \A k \in 1 .. Len(r) : r[k] = q[e[k]] /\ q[e[k]] \in A
  /\ \A i \in 1 .. n : q[i] \in A => \E k \in 1 .. Len(r) : e[k] = i
  /\ Len(r) <= n
  /\ Len(r) = n => \A k \in 1 .. n : e[k] = k
  /\ (\A i \in 1 .. n : q[i] \in A) => Len(r) = n

LEMMA OnlyIsKept ==
  ASSUME NEW S, NEW A, NEW q \in Seq(S)
  PROVE  \E f : Kept(q, A, f, Len(q)) /\ Only(q, A) = f[Len(q)]
<1> DEFINE f == CHOOSE g : Kept(q, A, g, Len(q))
<1>1. Kept(q, A, f, Len(q))
  BY KeptExists
<1>2. Only(q, A) = f[Len(q)]
  BY DEF Only, Kept
<1> QED
  BY <1>1, <1>2

LEMMA ChosenNext ==
  ASSUME NEW S, NEW A, NEW q \in Seq(S), NEW n \in Nat, n + 1 <= Len(q),
         NEW r \in Seq(S), NEW e, Chosen(q, A, n, r, e), q[n + 1] \in A
  PROVE  LET r2 == Append(r, q[n + 1])
             e2 == [k \in 1 .. Len(r) + 1 |-> IF k <= Len(r) THEN e[k] ELSE n + 1]
         IN  r2 \in Seq(S) /\ Chosen(q, A, n + 1, r2, e2)
<1> DEFINE r2 == Append(r, q[n + 1])
           e2 == [k \in 1 .. Len(r) + 1 |-> IF k <= Len(r) THEN e[k] ELSE n + 1]
<1>0. n + 1 \in 1 .. Len(q) /\ Len(r) \in Nat /\ Len(q) \in Nat
  BY SMT
<1>1. q[n + 1] \in S
  BY <1>0
<1>2. r2 \in Seq(S) /\ Len(r2) = Len(r) + 1
  BY <1>1
<1>3. \A k \in 1 .. Len(r) : r2[k] = r[k] /\ e2[k] = e[k] /\ e[k] \in 1 .. n
  <2>1. \A k \in 1 .. Len(r) : r2[k] = r[k]
    BY <1>1
  <2>2. \A k \in 1 .. Len(r) : e2[k] = e[k]
    BY <1>0, SMT
  <2>3. \A k \in 1 .. Len(r) : e[k] \in 1 .. n
    BY DEF Chosen
  <2> QED
    BY <2>1, <2>2, <2>3
<1>4. r2[Len(r) + 1] = q[n + 1] /\ e2[Len(r) + 1] = n + 1
  <2>1. r2[Len(r) + 1] = q[n + 1]
    BY <1>1
  <2>2. e2[Len(r) + 1] = n + 1
    BY <1>0, SMT
  <2> QED
    BY <2>1, <2>2
<1>5. \A k \in 1 .. Len(r2) : k \in 1 .. Len(r) \/ k = Len(r) + 1
  BY <1>0, <1>2, SMT
<1>6. e2 \in [1 .. Len(r2) -> 1 .. n + 1]
  <2>1. \A k \in 1 .. Len(r2) : e2[k] \in 1 .. n + 1
    <3>1. \A k \in 1 .. Len(r) : e2[k] \in 1 .. n + 1
      <4>1. 1 .. n \subseteq 1 .. n + 1
        BY SMT
      <4> QED
        BY <1>3, <4>1
    <3>2. n + 1 \in 1 .. n + 1
      BY SMT
    <3> HIDE DEF e2
    <3> QED
      BY <3>1, <3>2, <1>4, <1>5
  <2> QED
    BY <1>2, <2>1
<1> HIDE DEF r2, e2
<1>7. \A j, k \in 1 .. Len(r2) : j < k => e2[j] < e2[k]
  <2> SUFFICES ASSUME NEW j \in 1 .. Len(r2), NEW k \in 1 .. Len(r2), j < k
               PROVE  e2[j] < e2[k]
    OBVIOUS
  <2>1. j \in 1 .. Len(r)
    BY <1>0, <1>2, SMT
  <2>2. CASE k \in 1 .. Len(r)
    <3>1. e[j] < e[k]
      BY <2>1, <2>2 DEF Chosen
    <3> QED
      BY <3>1, <2>1, <2>2, <1>3
  <2>3. CASE k = Len(r) + 1
    BY <2>1, <2>3, <1>0, <1>3, <1>4, SMT
  <2> QED
    BY <2>2, <2>3, <1>5
<1>8. \A k \in 1 .. Len(r2) : r2[k] = q[e2[k]] /\ q[e2[k]] \in A
  <2> SUFFICES ASSUME NEW k \in 1 .. Len(r2)
               PROVE  r2[k] = q[e2[k]] /\ q[e2[k]] \in A
    OBVIOUS
  <2>1. CASE k \in 1 .. Len(r)
    <3>1. r[k] = q[e[k]] /\ q[e[k]] \in A
      BY <2>1 DEF Chosen
    <3> QED
      BY <2>1, <3>1, <1>3
  <2>2. CASE k = Len(r) + 1
    BY <2>2, <1>4
  <2> QED
    BY <2>1, <2>2, <1>5
<1>9. \A i \in 1 .. n + 1 : q[i] \in A => \E k \in 1 .. Len(r2) : e2[k] = i
  <2> SUFFICES ASSUME NEW i \in 1 .. n + 1, q[i] \in A
               PROVE  \E k \in 1 .. Len(r2) : e2[k] = i
    OBVIOUS
  <2>1. CASE i \in 1 .. n
    <3>1. PICK k \in 1 .. Len(r) : e[k] = i
      BY <2>1 DEF Chosen
    <3>2. k \in 1 .. Len(r2)
      BY <1>0, <1>2, SMT
    <3> QED
      BY <3>1, <3>2, <1>3
  <2>2. CASE i = n + 1
    <3>1. Len(r) + 1 \in 1 .. Len(r2)
      BY <1>0, <1>2, SMT
    <3> QED
      BY <2>2, <3>1, <1>4
  <2> QED
    BY <2>1, <2>2, SMT
<1>10. Len(r2) <= n + 1
  <2>1. Len(r) <= n
    BY DEF Chosen
  <2> QED
    BY <2>1, <1>0, <1>2, SMT
<1>11. Len(r2) = n + 1 => \A k \in 1 .. n + 1 : e2[k] = k
  <2> SUFFICES ASSUME Len(r2) = n + 1, NEW k \in 1 .. n + 1 PROVE e2[k] = k
    OBVIOUS
  <2>1. Len(r) = n
    BY <1>0, <1>2, SMT
  <2>2. \A j \in 1 .. n : e[j] = j
    BY <2>1 DEF Chosen
  <2>3. CASE k \in 1 .. n
    BY <2>1, <2>2, <2>3, <1>3
  <2>4. CASE k = n + 1
    BY <2>1, <2>4, <1>4
  <2> QED
    BY <2>3, <2>4, SMT
<1>12. (\A i \in 1 .. n + 1 : q[i] \in A) => Len(r2) = n + 1
  <2> SUFFICES ASSUME \A i \in 1 .. n + 1 : q[i] \in A PROVE Len(r2) = n + 1
    OBVIOUS
  <2>1. \A i \in 1 .. n : q[i] \in A
    <3>1. \A i \in 1 .. n : i \in 1 .. n + 1
      BY SMT
    <3> QED
      BY <3>1
  <2>2. Len(r) = n
    BY <2>1 DEF Chosen
  <2> QED
    BY <2>2, <1>2
<1>13. Chosen(q, A, n + 1, r2, e2)
  BY <1>6, <1>7, <1>8, <1>9, <1>10, <1>11, <1>12 DEF Chosen
<1> QED
  BY <1>2, <1>13 DEF r2, e2

LEMMA ChosenSame ==
  ASSUME NEW S, NEW A, NEW q \in Seq(S), NEW n \in Nat, n + 1 <= Len(q),
         NEW r \in Seq(S), NEW e, Chosen(q, A, n, r, e), q[n + 1] \notin A
  PROVE  Chosen(q, A, n + 1, r, e)
<1>0. Len(r) \in Nat /\ Len(r) <= n
  BY DEF Chosen
<1>1. e \in [1 .. Len(r) -> 1 .. n + 1]
  <2>1. 1 .. n \subseteq 1 .. n + 1
    BY SMT
  <2> QED
    BY <2>1 DEF Chosen
<1>2. \A i \in 1 .. n + 1 : i \in 1 .. n \/ i = n + 1
  BY SMT
<1>3. \A i \in 1 .. n + 1 : q[i] \in A => \E k \in 1 .. Len(r) : e[k] = i
  BY <1>2 DEF Chosen
<1>4. Len(r) <= n + 1 /\ Len(r) # n + 1
  BY <1>0, SMT
<1>5. ~ \A i \in 1 .. n + 1 : q[i] \in A
  <2>1. n + 1 \in 1 .. n + 1
    BY SMT
  <2> QED
    BY <2>1
<1> QED
  BY <1>1, <1>3, <1>4, <1>5 DEF Chosen

\* What Array.filter() returns, in terms of the places it keeps.
LEMMA OnlyChooses ==
  ASSUME NEW S, NEW A, NEW q \in Seq(S)
  PROVE  /\ Only(q, A) \in Seq(S)
         /\ \E e : Chosen(q, A, Len(q), Only(q, A), e)
<1>1. PICK f : Kept(q, A, f, Len(q)) /\ Only(q, A) = f[Len(q)]
  BY OnlyIsKept
<1>2. Len(q) \in Nat
  BY SMT
<1> DEFINE P(n) == f[n] \in Seq(S) /\ \E e : Chosen(q, A, n, f[n], e)
           T == {n \in Nat : n <= Len(q) => P(n)}
<1>3. \A i \in 0 .. Len(q) :
        f[i] = IF i = 0 THEN <<>>
               ELSE IF q[i] \in A THEN Append(f[i - 1], q[i]) ELSE f[i - 1]
  BY <1>1, Zenon DEF Kept
<1>4. 0 \in T
  <2>1. 0 \in 0 .. Len(q)
    BY <1>2, SMT
  <2>2. f[0] = <<>>
    BY <1>3, <2>1
  <2> DEFINE e == [k \in 1 .. 0 |-> 1]
  <2>3. Chosen(q, A, 0, <<>>, e)
    <3>1. Len(<<>>) = 0 /\ (\A k \in 1 .. 0 : FALSE)
      BY SMT
    <3>2. e \in [1 .. 0 -> 1 .. 0]
      BY <3>1
    <3> HIDE DEF e
    <3> QED
      BY <3>1, <3>2, SMT DEF Chosen
  <2>4. P(0)
    BY <2>2, <2>3
  <2> QED
    BY <2>4
<1>5. ASSUME NEW n \in Nat, n \in T PROVE n + 1 \in T
  <2>1. n + 1 \in Nat
    BY SMT
  <2> SUFFICES ASSUME n + 1 <= Len(q) PROVE P(n + 1)
    BY <2>1
  <2>2. n <= Len(q) /\ n + 1 \in 0 .. Len(q) /\ n + 1 # 0 /\ (n + 1) - 1 = n
    BY <1>2, SMT
  <2>3. P(n)
    BY <1>5, <2>2
  <2>4. PICK e : Chosen(q, A, n, f[n], e)
    BY <2>3
  <2>5. f[n + 1] = IF q[n + 1] \in A THEN Append(f[n], q[n + 1]) ELSE f[n]
    BY <1>3, <2>2
  <2>6. CASE q[n + 1] \in A
    <3>1. \E e2 : Append(f[n], q[n + 1]) \in Seq(S)
                  /\ Chosen(q, A, n + 1, Append(f[n], q[n + 1]), e2)
      BY <2>3, <2>4, <2>6, ChosenNext
    <3> QED
      BY <2>5, <2>6, <3>1
  <2>7. CASE q[n + 1] \notin A
    <3>1. Chosen(q, A, n + 1, f[n], e)
      BY <2>3, <2>4, <2>7, ChosenSame
    <3> QED
      BY <2>3, <2>5, <2>7, <3>1
  <2> QED
    BY <2>6, <2>7
<1>6. Nat \subseteq T
  <2> HIDE DEF T
  <2> QED
    BY <1>4, <1>5, SetInduction
<1>7. P(Len(q))
  <2>1. Len(q) <= Len(q)
    BY <1>2, SMT
  <2> QED
    BY <1>2, <1>6, <2>1
<1> QED
  BY <1>1, <1>7

-----------------------------------------------------------------------------
(* What the handlers need to know of the queue and of the lists.            *)

Once(q) == \A i, j \in DOMAIN q : q[i] = q[j] => i = j

CriticalFirst(q, c) == \A i, j \in DOMAIN q : (i < j /\ q[j] \in c) => q[i] \in c

LEMMA InToSet ==
  ASSUME NEW S, NEW q \in Seq(S)
  PROVE  /\ \A x : x \in ToSet(q) <=> \E i \in 1 .. Len(q) : x = q[i]
         /\ ToSet(q) \subseteq S
         /\ DOMAIN q = 1 .. Len(q)
<1>1. DOMAIN q = 1 .. Len(q)
  OBVIOUS
<1>2. \A x : x \in ToSet(q) <=> \E i \in DOMAIN q : x = q[i]
  BY Zenon DEF ToSet
<1>3. \A i \in 1 .. Len(q) : q[i] \in S
  OBVIOUS
<1> QED
  BY <1>1, <1>2, <1>3

LEMMA OnlyElements ==
  ASSUME NEW S, NEW A, NEW q \in Seq(S)
  PROVE  ToSet(Only(q, A)) = ToSet(q) \cap A
<1> DEFINE r == Only(q, A)
<1>1. r \in Seq(S)
  BY OnlyChooses
<1>2. PICK e : Chosen(q, A, Len(q), r, e)
  BY OnlyChooses
<1> HIDE DEF r
<1>3. ASSUME NEW x \in ToSet(r) PROVE x \in ToSet(q) /\ x \in A
  <2>1. PICK k \in 1 .. Len(r) : x = r[k]
    BY <1>1, <1>3, InToSet
  <2>2. e[k] \in 1 .. Len(q) /\ r[k] = q[e[k]] /\ q[e[k]] \in A
    BY <1>2 DEF Chosen
  <2> QED
    BY <2>1, <2>2, InToSet
<1>4. ASSUME NEW x \in ToSet(q), x \in A PROVE x \in ToSet(r)
  <2>1. PICK i \in 1 .. Len(q) : x = q[i]
    BY <1>4, InToSet
  <2>2. PICK k \in 1 .. Len(r) : e[k] = i
    BY <1>2, <1>4, <2>1 DEF Chosen
  <2>3. r[k] = q[i]
    BY <1>2, <2>2 DEF Chosen
  <2> QED
    BY <1>1, <2>1, <2>3, InToSet
<1>5. ToSet(r) = ToSet(q) \cap A
  BY <1>3, <1>4
<1> QED
  BY <1>5 DEF r

LEMMA OnlyOnce ==
  ASSUME NEW S, NEW A, NEW q \in Seq(S), Once(q)
  PROVE  Once(Only(q, A))
<1> DEFINE r == Only(q, A)
<1>1. r \in Seq(S)
  BY OnlyChooses
<1>2. PICK e : Chosen(q, A, Len(q), r, e)
  BY OnlyChooses
<1> HIDE DEF r
<1>3. ASSUME NEW i \in 1 .. Len(r), NEW j \in 1 .. Len(r), r[i] = r[j] PROVE i = j
  <2>0. e[i] \in 1 .. Len(q) /\ e[j] \in 1 .. Len(q)
    <3>1. e \in [1 .. Len(r) -> 1 .. Len(q)]
      BY <1>2 DEF Chosen
    <3> QED
      BY <1>3, <3>1
  <2>1. e[i] = e[j]
    <3>1. r[i] = q[e[i]] /\ r[j] = q[e[j]]
      BY <1>2, <1>3 DEF Chosen
    <3>2. q[e[i]] = q[e[j]]
      BY <1>3, <3>1
    <3>3. DOMAIN q = 1 .. Len(q)
      OBVIOUS
    <3> QED
      BY <2>0, <3>2, <3>3 DEF Once
  <2>2. e[i] \in Int /\ e[j] \in Int
    BY <2>0
  <2>3. ~(i < j) /\ ~(j < i)
    <3>1. ~(e[i] < e[j]) /\ ~(e[j] < e[i])
      BY <2>1, <2>2, SMT
    <3> QED
      BY <1>2, <3>1 DEF Chosen
  <2> QED
    BY <1>1, <2>3, SMT
<1>4. Once(r)
  BY <1>1, <1>3 DEF Once
<1> QED
  BY <1>4 DEF r

LEMMA OnlyOrdered ==
  ASSUME NEW S, NEW A, NEW c, NEW q \in Seq(S), CriticalFirst(q, c)
  PROVE  CriticalFirst(Only(q, A), c)
<1> DEFINE r == Only(q, A)
<1>1. r \in Seq(S)
  BY OnlyChooses
<1>2. PICK e : Chosen(q, A, Len(q), r, e)
  BY OnlyChooses
<1> HIDE DEF r
<1>3. ASSUME NEW i \in 1 .. Len(r), NEW j \in 1 .. Len(r), i < j, r[j] \in c
      PROVE  r[i] \in c
  <2>1. e[i] < e[j] /\ e[i] \in DOMAIN q /\ e[j] \in DOMAIN q
    <3>1. e \in [1 .. Len(r) -> 1 .. Len(q)]
      BY <1>2 DEF Chosen
    <3>2. e[i] \in 1 .. Len(q) /\ e[j] \in 1 .. Len(q)
      BY <1>3, <3>1
    <3>3. e[i] < e[j]
      BY <1>2, <1>3 DEF Chosen
    <3>4. DOMAIN q = 1 .. Len(q)
      OBVIOUS
    <3> QED
      BY <3>2, <3>3, <3>4
  <2>2. r[i] = q[e[i]] /\ r[j] = q[e[j]]
    BY <1>2 DEF Chosen
  <2> QED
    BY <1>3, <2>1, <2>2 DEF CriticalFirst
<1>4. CriticalFirst(r, c)
  BY <1>1, <1>3 DEF CriticalFirst
<1> QED
  BY <1>4 DEF r

LEMMA OnlyAll ==
  ASSUME NEW S, NEW A, NEW q \in Seq(S), ToSet(q) \subseteq A
  PROVE  Only(q, A) = q
<1> DEFINE r == Only(q, A)
<1>1. r \in Seq(S)
  BY OnlyChooses
<1>2. PICK e : Chosen(q, A, Len(q), r, e)
  BY OnlyChooses
<1> HIDE DEF r
<1>3. \A i \in 1 .. Len(q) : q[i] \in A
  BY InToSet
<1>4. Len(r) = Len(q)
  BY <1>2, <1>3 DEF Chosen
<1>5. \A k \in 1 .. Len(q) : r[k] = q[k]
  BY <1>2, <1>4 DEF Chosen
<1>6. r = q
  BY <1>1, <1>4, <1>5
<1> QED
  BY <1>6 DEF r

LEMMA OnlyShorter ==
  ASSUME NEW S, NEW A, NEW q \in Seq(S)
  PROVE  /\ Len(Only(q, A)) <= Len(q)
         /\ \A x \in ToSet(q) : x \notin A => Len(Only(q, A)) < Len(q)
<1> DEFINE r == Only(q, A)
<1>1. r \in Seq(S)
  BY OnlyChooses
<1>2. PICK e : Chosen(q, A, Len(q), r, e)
  BY OnlyChooses
<1> HIDE DEF r
<1>3. Len(r) <= Len(q)
  BY <1>2 DEF Chosen
<1>4. ASSUME NEW x \in ToSet(q), x \notin A PROVE Len(r) # Len(q)
  <2> SUFFICES ASSUME Len(r) = Len(q) PROVE FALSE
    OBVIOUS
  <2>1. PICK i \in 1 .. Len(q) : x = q[i]
    BY <1>4, InToSet
  <2>2. e[i] = i
    BY <1>2 DEF Chosen
  <2>3. q[i] \in A
    BY <1>2, <2>2 DEF Chosen
  <2> QED
    BY <1>4, <2>1, <2>3
<1>5. Len(r) <= Len(q) /\ \A x \in ToSet(q) : x \notin A => Len(r) < Len(q)
  BY <1>1, <1>3, <1>4, SMT
<1> QED
  BY <1>5 DEF r

LEMMA Appended ==
  ASSUME NEW S, NEW q \in Seq(S), NEW x \in S, x \notin ToSet(q), Once(q)
  PROVE  LET r == Append(q, x)
         IN  /\ r \in Seq(S) /\ Once(r)
             /\ ToSet(r) = ToSet(q) \cup {x} /\ Len(r) = Len(q) + 1
<1> DEFINE r == Append(q, x)
           m == Len(q)
<1>1. r \in Seq(S) /\ Len(r) = m + 1
  OBVIOUS
<1>2. \A i \in 1 .. m : r[i] = q[i]
  OBVIOUS
<1>3. r[m + 1] = x
  OBVIOUS
<1>4. m \in Nat
  BY SMT
<1>5. \A i \in 1 .. m : q[i] # x
  BY InToSet
<1> HIDE DEF r, m
<1>6. \A i \in 1 .. m + 1 : i \in 1 .. m \/ i = m + 1
  BY <1>4, SMT
<1>7. 1 .. m \subseteq 1 .. m + 1 /\ m + 1 \in 1 .. m + 1
  BY <1>4, SMT
<1>8. DOMAIN r = 1 .. m + 1 /\ DOMAIN q = 1 .. m
  <2>1. DOMAIN r = 1 .. Len(r) /\ DOMAIN q = 1 .. Len(q)
    BY <1>1
  <2> QED
    BY <2>1, <1>1 DEF m
<1>9. Once(r)
  <2> SUFFICES ASSUME NEW i \in 1 .. m + 1, NEW j \in 1 .. m + 1, r[i] = r[j]
               PROVE  i = j
    BY <1>8, Zenon DEF Once
  <2>1. CASE i \in 1 .. m /\ j \in 1 .. m
    <3>1. q[i] = q[j]
      BY <2>1, <1>2
    <3> QED
      BY <2>1, <3>1, <1>8 DEF Once
  <2>2. CASE i = m + 1 /\ j \in 1 .. m
    BY <2>2, <1>2, <1>3, <1>5
  <2>3. CASE j = m + 1 /\ i \in 1 .. m
    BY <2>3, <1>2, <1>3, <1>5
  <2>4. CASE i = m + 1 /\ j = m + 1
    BY <2>4
  <2> QED
    BY <2>1, <2>2, <2>3, <2>4, <1>6
<1>10. ToSet(r) = ToSet(q) \cup {x}
  <2>1. ASSUME NEW y \in ToSet(r) PROVE y \in ToSet(q) \/ y = x
    <3>1. PICK i \in 1 .. m + 1 : y = r[i]
      BY <2>1, <1>8, Zenon DEF ToSet
    <3>2. CASE i \in 1 .. m
      BY <3>1, <3>2, <1>2, <1>8, Zenon DEF ToSet
    <3>3. CASE i = m + 1
      BY <3>1, <3>3, <1>3
    <3> QED
      BY <3>2, <3>3, <1>6
  <2>2. ASSUME NEW y \in ToSet(q) PROVE y \in ToSet(r)
    <3>1. PICK i \in 1 .. m : y = q[i]
      BY <2>2, <1>8, Zenon DEF ToSet
    <3>2. i \in DOMAIN r /\ y = r[i]
      BY <3>1, <1>2, <1>7, <1>8
    <3> QED
      BY <3>2, Zenon DEF ToSet
  <2>3. x \in ToSet(r)
    BY <1>3, <1>7, <1>8, Zenon DEF ToSet
  <2> QED
    BY <2>1, <2>2, <2>3
<1> QED
  BY <1>1, <1>9, <1>10 DEF r, m

LEMMA HeadAndTail ==
  ASSUME NEW S, NEW q \in Seq(S), q # <<>>, Once(q)
  PROVE  /\ Head(q) \in S /\ Head(q) \in ToSet(q) /\ Head(q) = q[1] /\ 1 \in DOMAIN q
         /\ Tail(q) \in Seq(S) /\ Once(Tail(q))
         /\ ToSet(Tail(q)) = ToSet(q) \ {Head(q)}
         /\ \A c : CriticalFirst(q, c) => CriticalFirst(Tail(q), c)
<1> DEFINE r == Tail(q)
           m == Len(q)
<1>1. m \in Nat /\ m # 0
  <2>1. m \in Nat /\ (m = 0 => q = <<>>)
    BY SMT
  <2> QED
    BY <2>1
<1>2. 1 \in 1 .. m /\ Head(q) = q[1] /\ DOMAIN q = 1 .. m
  BY <1>1
<1>3. r \in Seq(S) /\ Len(r) = m - 1
  <2>1. r \in Seq(S)
    OBVIOUS
  <2>2. Len(r) = m - 1
    OBVIOUS
  <2> QED
    BY <2>1, <2>2
<1>4. \A i \in 1 .. m - 1 : r[i] = q[i + 1]
  OBVIOUS
<1>5. Head(q) \in S /\ Head(q) \in ToSet(q)
  BY <1>2, InToSet
<1>6. DOMAIN r = 1 .. m - 1
  BY <1>3
<1> HIDE DEF r
<1>7. \A i \in 1 .. m - 1 : i + 1 \in 1 .. m /\ i + 1 # 1
  BY <1>1, SMT
<1>8. Once(r)
  <2> SUFFICES ASSUME NEW i \in 1 .. m - 1, NEW j \in 1 .. m - 1, r[i] = r[j]
               PROVE  i = j
    BY <1>6, Zenon DEF Once
  <2>1. i + 1 = j + 1
    BY <1>2, <1>4, <1>7 DEF Once
  <2> QED
    BY <2>1, SMT
<1>9. ToSet(r) = ToSet(q) \ {Head(q)}
  <2>1. ASSUME NEW y \in ToSet(r) PROVE y \in ToSet(q) /\ y # Head(q)
    <3>1. PICK i \in 1 .. m - 1 : y = r[i]
      BY <2>1, <1>6, Zenon DEF ToSet
    <3>2. y = q[i + 1] /\ i + 1 \in DOMAIN q /\ i + 1 # 1
      BY <3>1, <1>2, <1>4, <1>7
    <3>3. y \in ToSet(q)
      BY <3>2, Zenon DEF ToSet
    <3>4. q[i + 1] # q[1]
      BY <3>2, <1>2, Zenon DEF Once
    <3> QED
      BY <3>2, <3>3, <3>4, <1>2
  <2>2. ASSUME NEW y \in ToSet(q), y # Head(q) PROVE y \in ToSet(r)
    <3>1. PICK i \in 1 .. m : y = q[i]
      BY <2>2, <1>2, Zenon DEF ToSet
    <3>2. i # 1
      BY <3>1, <2>2, <1>2
    <3>3. i - 1 \in 1 .. m - 1 /\ (i - 1) + 1 = i
      BY <3>2, <1>1, SMT
    <3>4. y = r[i - 1] /\ i - 1 \in DOMAIN r
      BY <3>1, <3>3, <1>4, <1>6
    <3> QED
      BY <3>4, Zenon DEF ToSet
  <2> QED
    BY <2>1, <2>2
<1>10. ASSUME NEW c, CriticalFirst(q, c) PROVE CriticalFirst(r, c)
  <2> SUFFICES ASSUME NEW i \in 1 .. m - 1, NEW j \in 1 .. m - 1, i < j, r[j] \in c
               PROVE  r[i] \in c
    BY <1>6, Zenon DEF CriticalFirst
  <2>1. i + 1 < j + 1
    BY SMT
  <2> QED
    BY <2>1, <1>2, <1>4, <1>7, <1>10 DEF CriticalFirst
<1> QED
  BY <1>2, <1>3, <1>5, <1>8, <1>9, <1>10 DEF r

\* Two parts of the queue put together, the critical one first.
LEMMA SortedQueue ==
  ASSUME NEW S, NEW q \in Seq(S), ToSet(q) \subseteq Notifications,
         NEW c \in SUBSET Notifications
  PROVE  /\ Sorted(q, c) \in Seq(S)
         /\ ToSet(Sorted(q, c)) = ToSet(q)
         /\ Once(q) => Once(Sorted(q, c))
         /\ CriticalFirst(Sorted(q, c), c)
<1> DEFINE a == Only(q, c)
           b == Only(q, Notifications \ c)
           r == Sorted(q, c)
           m == Len(a)
           n == Len(b)
<1>1. a \in Seq(S) /\ b \in Seq(S)
  BY OnlyChooses
<1>2. ToSet(a) = ToSet(q) \cap c /\ ToSet(b) = ToSet(q) \cap (Notifications \ c)
  BY OnlyElements
<1>3. Once(q) => Once(a) /\ Once(b)
  BY OnlyOnce
<1>4. r = a \o b
  BY DEF Sorted
<1> HIDE DEF a, b, r
<1>5. r \in Seq(S) /\ Len(r) = m + n
  BY <1>1, <1>4
<1>6. \A i \in 1 .. m : r[i] = a[i]
  BY <1>1, <1>4
<1>7. \A i \in 1 .. n : r[m + i] = b[i]
  BY <1>1, <1>4
<1>8. m \in Nat /\ n \in Nat
  BY <1>1
<1>9. DOMAIN r = 1 .. m + n /\ DOMAIN a = 1 .. m /\ DOMAIN b = 1 .. n
  BY <1>1, <1>5
<1> HIDE DEF m, n
<1>10. ASSUME NEW i \in 1 .. m + n
       PROVE  \/ i \in 1 .. m /\ r[i] = a[i] /\ r[i] \in ToSet(a)
              \/ /\ i - m \in 1 .. n /\ i = m + (i - m)
                 /\ r[i] = b[i - m] /\ r[i] \in ToSet(b) /\ i > m
  <2>1. CASE i \in 1 .. m
    BY <2>1, <1>6, <1>9, Zenon DEF ToSet
  <2>2. CASE i \notin 1 .. m
    <3>1. i - m \in 1 .. n /\ i = m + (i - m) /\ i > m
      BY <2>2, <1>8, SMT
    <3>2. r[i] = b[i - m]
      BY <3>1, <1>7
    <3>3. r[i] \in ToSet(b)
      BY <3>1, <3>2, <1>9, Zenon DEF ToSet
    <3> QED
      BY <3>1, <3>2, <3>3
  <2> QED
    BY <2>1, <2>2
<1>11. \A x \in ToSet(a) : x \in c /\ x \notin ToSet(b)
  BY <1>2
<1>12. CriticalFirst(r, c)
  <2> SUFFICES ASSUME NEW i \in 1 .. m + n, NEW j \in 1 .. m + n, i < j, r[j] \in c
               PROVE  r[i] \in c
    BY <1>9, Zenon DEF CriticalFirst
  <2>1. j \in 1 .. m
    BY <1>2, <1>10
  <2>2. i \in 1 .. m
    BY <2>1, <1>8, SMT
  <2>3. r[i] = a[i]
    BY <2>2, <1>6
  <2>4. r[i] \in ToSet(a)
    BY <2>2, <2>3, <1>9, Zenon DEF ToSet
  <2> QED
    BY <2>4, <1>11
<1>13. ASSUME Once(q) PROVE Once(r)
  <2> SUFFICES ASSUME NEW i \in 1 .. m + n, NEW j \in 1 .. m + n, r[i] = r[j]
               PROVE  i = j
    BY <1>9, Zenon DEF Once
  <2>1. Once(a) /\ Once(b)
    BY <1>3, <1>13
  <2>2. CASE i \in 1 .. m /\ j \in 1 .. m
    <3>1. a[i] = a[j]
      BY <2>2, <1>6
    <3> QED
      BY <3>1, <2>1, <2>2, <1>9, Zenon DEF Once
  <2>3. CASE i \notin 1 .. m /\ j \notin 1 .. m
    <3>1. i - m \in 1 .. n /\ j - m \in 1 .. n /\ b[i - m] = b[j - m]
          /\ i = m + (i - m) /\ j = m + (j - m)
      BY <2>3, <1>10
    <3>2. i - m = j - m
      BY <3>1, <2>1, <1>9, Zenon DEF Once
    <3> QED
      BY <3>1, <3>2
  <2>4. CASE i \in 1 .. m /\ j \notin 1 .. m
    <3>1. r[i] \in ToSet(a)
      BY <2>4, <1>6, <1>9, Zenon DEF ToSet
    <3>2. r[j] \in ToSet(b)
      BY <2>4, <1>10
    <3> QED
      BY <3>1, <3>2, <1>11
  <2>5. CASE j \in 1 .. m /\ i \notin 1 .. m
    <3>1. r[j] \in ToSet(a)
      BY <2>5, <1>6, <1>9, Zenon DEF ToSet
    <3>2. r[i] \in ToSet(b)
      BY <2>5, <1>10
    <3> QED
      BY <3>1, <3>2, <1>11
  <2> QED
    BY <2>2, <2>3, <2>4, <2>5
<1>14. ToSet(r) = ToSet(q)
  <2>1. ASSUME NEW x \in ToSet(r) PROVE x \in ToSet(q)
    <3>1. PICK i \in 1 .. m + n : x = r[i]
      BY <2>1, <1>9, Zenon DEF ToSet
    <3>2. x \in ToSet(a) \/ x \in ToSet(b)
      BY <3>1, <1>10
    <3> QED
      BY <3>2, <1>2
  <2>2. ASSUME NEW x \in ToSet(a) PROVE x \in ToSet(r)
    <3>1. PICK i \in 1 .. m : x = a[i]
      BY <2>2, <1>9, Zenon DEF ToSet
    <3>2. x = r[i]
      BY <3>1, <1>6
    <3>3. i \in 1 .. m + n
      BY <1>8, SMT
    <3> QED
      BY <3>2, <3>3, <1>9, Zenon DEF ToSet
  <2>3. ASSUME NEW x \in ToSet(b) PROVE x \in ToSet(r)
    <3>1. PICK i \in 1 .. n : x = b[i]
      BY <2>3, <1>9, Zenon DEF ToSet
    <3>2. x = r[m + i]
      BY <3>1, <1>7
    <3>3. m + i \in 1 .. m + n
      BY <1>8, SMT
    <3> QED
      BY <3>2, <3>3, <1>9, Zenon DEF ToSet
  <2>4. ToSet(q) \subseteq ToSet(a) \cup ToSet(b)
    BY <1>2
  <2> QED
    BY <2>1, <2>2, <2>3, <2>4
<1> QED
  BY <1>5, <1>12, <1>13, <1>14 DEF r

LEMMA OnceCounts ==
  ASSUME NEW S, NEW q \in Seq(S), Once(q)
  PROVE  IsFiniteSet(ToSet(q)) /\ Len(q) = Cardinality(ToSet(q))
<1> DEFINE D == 1 .. Len(q)
<1>1. q \in Bijection(D, ToSet(q))
  <2>1. q \in [D -> ToSet(q)]
    <3>1. DOMAIN q = D /\ q = [i \in D |-> q[i]]
      OBVIOUS
    <3>2. \A i \in D : q[i] \in ToSet(q)
      BY <3>1, Zenon DEF ToSet
    <3> QED
      BY <3>1, <3>2
  <2>2. \A i, j \in D : q[i] = q[j] => i = j
    BY DEF Once
  <2>3. \A x \in ToSet(q) : \E i \in D : q[i] = x
    BY InToSet
  <2> QED
    BY <2>1, <2>2, <2>3 DEF Bijection, Injection, Surjection, IsInjective
<1>2. IsFiniteSet(D) /\ Cardinality(D) = Len(q)
  <2>1. Len(q) \in Nat
    OBVIOUS
  <2>2. IsFiniteSet(D) /\ Cardinality(D) = IF 1 > Len(q) THEN 0 ELSE Len(q) - 1 + 1
    BY <2>1, FS_Interval
  <2> QED
    BY <2>1, <2>2
<1>3. ExistsBijection(D, ToSet(q))
  BY <1>1 DEF ExistsBijection
<1> QED
  BY <1>2, <1>3, FS_Bijection

-----------------------------------------------------------------------------
(* The invariant of the tray. Good holds at every step of a handler, Ordered *)
(* and Quiet between two handlers, Fresh at the end of _updateState().       *)

Good(t) ==
  /\ t \in Tray
  /\ (t.state = "HIDDEN") = (t.current = NoNotification)
  /\ Once(t.queue)
  /\ ToSet(t.queue) \subseteq t.live \ {t.current}
  /\ t.unredirect = IF t.state = "HIDDEN" THEN 0 ELSE 1
  /\ t.state = "HIDDEN" => ~t.pointerIn /\ ~t.removed
  /\ t.removed => t.current \notin t.live
  /\ (t.current # NoNotification /\ ~t.userActive) => t.watches > 0
  /\ (t.wired /\ t.pointerIn) => (t.hovered \/ t.leftTimer)

Ordered(t) == ~t.reordered => CriticalFirst(t.queue, t.critical)

Quiet(t, p) ==
  ~t.blocked =>
    /\ t.state = "SHOWN" => t.allowed /\ ~t.removed
    /\ (t.state = "HIDDEN" /\ ~t.unasked /\ Showable(t))
         => p[SourceOf[Head(t.queue)]] = "off"
    /\ (t.state = "HIDDEN" /\ ~t.unasked /\ t.allowed /\ ~t.reordered)
         => \A n \in ToSet(t.queue) \cap t.critical : p[SourceOf[n]] = "off"
    /\ (t.state = "SHOWN" /\ t.wired /\ p[SourceOf[t.current]] = "banners")
         => ~Expired(t)

Fresh(t) ==
  ~t.blocked => /\ t.state = "SHOWN" => t.allowed /\ ~t.removed /\ ~Expired(t)
                /\ (t.state = "HIDDEN" /\ ~t.unasked) => ~Showable(t)

\* From t to u a notification leaves the queue for the banner, or because it was
\* seen or is gone, and a transient one goes with its banner.
Keeps(t, u) ==
  \A n \in Notifications :
    /\ (n \in ToSet(t.queue) /\ n \notin ToSet(u.queue))
         => (u.current = n \/ n \in t.acked \/ n \notin u.live)
    /\ (t.current = n /\ u.current # n /\ n \in Transient) => n \notin u.live

\* From t to u no banner comes up for another notification.
Stays(t, u) ==
  /\ \A n \in Notifications :
       /\ (n \in ToSet(t.queue) /\ n \notin ToSet(u.queue))
            => (n \in t.acked \/ n \notin u.live)
       /\ (t.current = n /\ u.current # n /\ n \in Transient) => n \notin u.live
  /\ u.current \in {t.current, NoNotification}
  /\ u.acked \subseteq t.acked \cup {t.current, NoNotification}
  /\ u.live \subseteq t.live

LEMMA StaysKeeps ==
  ASSUME NEW t, NEW u, NEW v, Good(t), Stays(t, u), Keeps(u, v), v.live \subseteq u.live
  PROVE  Keeps(t, v)
<1> SUFFICES ASSUME NEW n \in Notifications
             PROVE  /\ (n \in ToSet(t.queue) /\ n \notin ToSet(v.queue))
                         => (v.current = n \/ n \in t.acked \/ n \notin v.live)
                    /\ (t.current = n /\ v.current # n /\ n \in Transient) => n \notin v.live
  BY DEF Keeps
<1>1. n \in ToSet(t.queue) => n # t.current /\ n # NoNotification
  BY TrayAssumption DEF Good
<1> QED
  BY <1>1, Zenon DEF Stays, Keeps

LEMMA StaysStays ==
  ASSUME NEW t, NEW u, NEW v, Good(t), Stays(t, u), Stays(u, v)
  PROVE  Stays(t, v)
<1>1. ASSUME NEW n \in Notifications
      PROVE  /\ (n \in ToSet(t.queue) /\ n \notin ToSet(v.queue))
                  => (n \in t.acked \/ n \notin v.live)
             /\ (t.current = n /\ v.current # n /\ n \in Transient) => n \notin v.live
  <2>1. n \in ToSet(t.queue) => n # t.current /\ n # NoNotification
    BY TrayAssumption DEF Good
  <2> QED
    BY <2>1 DEF Stays
<1>3. v.current \in {t.current, NoNotification} /\ v.live \subseteq t.live
  BY DEF Stays
<1>4. v.acked \subseteq t.acked \cup {t.current, NoNotification}
  BY DEF Stays
<1> QED
  BY <1>1, <1>3, <1>4 DEF Stays

LEMMA FreshIsQuiet ==
  ASSUME NEW t, NEW p, Good(t), Ordered(t), Fresh(t) PROVE Quiet(t, p)
<1> SUFFICES ASSUME ~t.blocked
             PROVE /\ t.state = "SHOWN" => t.allowed /\ ~t.removed /\ ~Expired(t)
                   /\ (t.state = "HIDDEN" /\ ~t.unasked) => ~Showable(t)
                   /\ (t.state = "HIDDEN" /\ ~t.unasked /\ t.allowed /\ ~t.reordered)
                        => \A n \in ToSet(t.queue) \cap t.critical : p[SourceOf[n]] = "off"
  BY DEF Quiet
<1>1. /\ t.state = "SHOWN" => t.allowed /\ ~t.removed /\ ~Expired(t)
      /\ (t.state = "HIDDEN" /\ ~t.unasked) => ~Showable(t)
  BY DEF Fresh
<1>2. ASSUME t.state = "HIDDEN", ~t.unasked, t.allowed, ~t.reordered,
             NEW n \in ToSet(t.queue) \cap t.critical
      PROVE  FALSE
  <2>1. t.queue \in Seq(Notifications)
    BY DEF Good, Tray
  <2>2. PICK i \in DOMAIN t.queue : n = t.queue[i]
    BY <1>2, Zenon DEF ToSet
  <2>3. t.queue # <<>> /\ Head(t.queue) = t.queue[1] /\ 1 \in DOMAIN t.queue
        /\ (1 < i \/ i = 1)
    BY <2>1, <2>2
  <2>4. CriticalFirst(t.queue, t.critical)
    BY <1>2 DEF Ordered
  <2>5. t.queue[1] \in t.critical
    BY <2>2, <2>3, <2>4, <1>2 DEF CriticalFirst
  <2>6. Showable(t)
    BY <1>2, <2>3, <2>5 DEF Showable
  <2> QED
    BY <1>1, <1>2, <2>6
<1> QED
  BY <1>1, <1>2

-----------------------------------------------------------------------------
(* What each function of the tray does to Good.                             *)

LEMMA AfterShowCompleted ==
  ASSUME NEW t, Good(t), t.state # "HIDDEN"
  PROVE  LET u == ShowCompleted(t)
         IN  /\ Good(u) /\ Stays(t, u) /\ (Ordered(t) => Ordered(u))
             /\ u.state = "SHOWN" /\ u.live = t.live /\ u.current = t.current
             /\ u.queue = t.queue /\ u.critical = t.critical /\ u.acked = t.acked
             /\ u.blocked = t.blocked /\ u.allowed = t.allowed /\ u.removed = t.removed
<1> DEFINE u == ShowCompleted(t)
<1>1. t \in Tray
  BY DEF Good
<1>2. u \in Tray
  BY <1>1 DEF ShowCompleted, Tray, States
<1>3. /\ u.state = "SHOWN" /\ u.live = t.live /\ u.critical = t.critical
      /\ u.acked = t.acked /\ u.queue = t.queue /\ u.current = t.current
      /\ u.removed = t.removed /\ u.blocked = t.blocked /\ u.allowed = t.allowed
  BY <1>1 DEF ShowCompleted, Tray
<1>4. /\ u.leftTimer = t.leftTimer /\ u.hovered = t.hovered /\ u.pointerIn = t.pointerIn
      /\ u.userActive = t.userActive /\ u.watches = t.watches /\ u.wired = t.wired
      /\ u.unredirect = t.unredirect /\ u.reordered = t.reordered
  BY <1>1 DEF ShowCompleted, Tray
<1> HIDE DEF u
<1>5. Good(u)
  BY <1>2, <1>3, <1>4 DEF Good
<1>6. Stays(t, u)
  BY <1>3 DEF Stays
<1>7. Ordered(t) => Ordered(u)
  BY <1>3, <1>4 DEF Ordered
<1> QED
  BY <1>3, <1>5, <1>6, <1>7 DEF u

LEMMA AfterUpdateShowing ==
  ASSUME NEW t, Good(t), t.state # "HIDDEN"
  PROVE  LET u == UpdateShowing(t)
         IN  /\ Good(u) /\ Stays(t, u) /\ (Ordered(t) => Ordered(u))
             /\ u.state = (IF t.blocked THEN "SHOWN" ELSE "SHOWING")
             /\ u.live = t.live /\ u.current = t.current /\ u.queue = t.queue
             /\ u.critical = t.critical /\ u.acked = t.acked \cup {t.current}
             /\ u.blocked = t.blocked /\ u.allowed = t.allowed /\ u.removed = t.removed
<1> DEFINE v == [t EXCEPT !.acked = @ \cup {t.current}, !.state = "SHOWING"]
<1>1. t \in Tray /\ t.current \in Notifications
  BY DEF Good, Tray
<1>2. v \in Tray
  BY <1>1 DEF Tray, States
<1>3. /\ v.state = "SHOWING" /\ v.live = t.live /\ v.critical = t.critical
      /\ v.acked = t.acked \cup {t.current} /\ v.queue = t.queue /\ v.current = t.current
      /\ v.removed = t.removed /\ v.blocked = t.blocked /\ v.allowed = t.allowed
  BY <1>1 DEF Tray
<1>4. /\ v.leftTimer = t.leftTimer /\ v.hovered = t.hovered /\ v.pointerIn = t.pointerIn
      /\ v.userActive = t.userActive /\ v.watches = t.watches /\ v.wired = t.wired
      /\ v.unredirect = t.unredirect /\ v.reordered = t.reordered
  BY <1>1 DEF Tray
<1>5. UpdateShowing(t) = IF t.blocked THEN ShowCompleted(v) ELSE v
  BY DEF UpdateShowing
<1> HIDE DEF v
<1>6. Good(v)
  BY <1>2, <1>3, <1>4 DEF Good
<1>7. Stays(t, v) /\ (Ordered(t) => Ordered(v))
  BY <1>3, <1>4 DEF Stays, Ordered
<1>8. v.state # "HIDDEN"
  BY <1>3
<1>9. CASE t.blocked
  <2> DEFINE u == ShowCompleted(v)
  <2>1. /\ Good(u) /\ Stays(v, u) /\ (Ordered(v) => Ordered(u))
        /\ u.state = "SHOWN" /\ u.live = v.live /\ u.current = v.current
        /\ u.queue = v.queue /\ u.critical = v.critical /\ u.acked = v.acked
        /\ u.blocked = v.blocked /\ u.allowed = v.allowed /\ u.removed = v.removed
    BY <1>6, <1>8, AfterShowCompleted
  <2>2. UpdateShowing(t) = u
    BY <1>5, <1>9
  <2> HIDE DEF u
  <2>3. Stays(t, u)
    BY <1>7, <2>1, StaysStays
  <2> QED
    BY <1>3, <1>7, <1>9, <2>1, <2>2, <2>3
<1>10. CASE ~t.blocked
  <2>1. UpdateShowing(t) = v
    BY <1>5, <1>10
  <2> QED
    BY <1>3, <1>6, <1>7, <1>10, <2>1
<1> QED
  BY <1>9, <1>10

LEMMA AfterHideCompleted ==
  ASSUME NEW t, Good(t), t.state # "HIDDEN"
  PROVE  LET u == HideCompleted(t)
         IN  /\ Good(u) /\ Stays(t, u) /\ (Ordered(t) => Ordered(u))
             /\ u.state = "HIDDEN" /\ u.current = NoNotification /\ u.queue = t.queue
             /\ t.live \ u.live \subseteq {t.current}
             /\ t.removed => u.live = t.live
             /\ u.critical = t.critical /\ u.acked = t.acked
             /\ u.blocked = t.blocked /\ u.allowed = t.allowed
<1> DEFINE u == HideCompleted(t)
<1>1. t \in Tray /\ t.current \in Notifications
  BY DEF Good, Tray
<1>2. u \in Tray
  <2>1. t.unredirect - 1 \in Int
    BY <1>1 DEF Tray
  <2> DEFINE gone == IF t.removed THEN {} ELSE {t.current} \cap Transient
             L == t.live \ gone
             D == t.unredirect - 1
  <2>2. L \in SUBSET Notifications
    BY <1>1 DEF Tray
  <2>3. u = [t EXCEPT !.state = "HIDDEN", !.current = NoNotification, !.live = L,
                      !.pointerIn = FALSE, !.removed = FALSE, !.focused = FALSE,
                      !.unredirect = D]
    BY <1>1 DEF HideCompleted, Tray
  <2>4. D \in Int
    BY <2>1
  <2> DEFINE v == [t EXCEPT !.state = "HIDDEN", !.current = NoNotification, !.live = L]
             w == [v EXCEPT !.pointerIn = FALSE, !.removed = FALSE]
  <2> HIDE DEF L, D, u
  <2>5. v \in Tray
    BY <1>1, <2>2 DEF Tray, States
  <2>6. w \in Tray
    <3> HIDE DEF v
    <3> QED
      BY <2>5 DEF Tray
  <2>7. u = [w EXCEPT !.focused = FALSE, !.unredirect = D]
    BY <1>1, <2>3 DEF Tray
  <2> HIDE DEF w
  <2> QED
    BY <2>4, <2>6, <2>7 DEF Tray
<1>3. /\ u.state = "HIDDEN" /\ u.critical = t.critical
      /\ u.live = t.live \ IF t.removed THEN {} ELSE {t.current} \cap Transient
      /\ u.acked = t.acked /\ u.queue = t.queue /\ u.current = NoNotification
      /\ ~u.removed /\ u.blocked = t.blocked /\ u.allowed = t.allowed
  BY <1>1 DEF HideCompleted, Tray
<1>4. ~u.pointerIn /\ u.unredirect = t.unredirect - 1 /\ u.reordered = t.reordered
  BY <1>1 DEF HideCompleted, Tray
<1> HIDE DEF u
<1>5. NoNotification \notin Notifications
  BY TrayAssumption
<1>6. ToSet(u.queue) \subseteq u.live \ {u.current}
  <2>1. ToSet(t.queue) \subseteq t.live \ {t.current} /\ t.live \subseteq Notifications
    BY <1>1 DEF Good, Tray
  <2> QED
    BY <2>1, <1>3, <1>5
<1>7. u.unredirect = 0
  BY <1>1, <1>4 DEF Good
<1>8. Good(u)
  BY <1>2, <1>3, <1>4, <1>6, <1>7 DEF Good
<1>9. Stays(t, u)
  <2>1. t.removed => t.current \notin t.live
    BY DEF Good
  <2> QED
    BY <1>3, <2>1 DEF Stays
<1>10. Ordered(t) => Ordered(u)
  BY <1>3, <1>4 DEF Ordered
<1> QED
  BY <1>3, <1>8, <1>9, <1>10 DEF u

LEMMA AfterHide ==
  ASSUME NEW t, Good(t), t.state = "SHOWN", NEW animate \in BOOLEAN
  PROVE  LET u == Hide(t, animate)
         IN  /\ Good(u) /\ Stays(t, u) /\ (Ordered(t) => Ordered(u))
             /\ u.state = (IF animate THEN "HIDING" ELSE "HIDDEN")
             /\ ~animate => u.unasked
             /\ t.live \ u.live \subseteq {t.current}
             /\ t.removed \/ animate => u.live = t.live
             /\ u.critical = t.critical /\ u.acked = t.acked
             /\ u.blocked = t.blocked /\ u.allowed = t.allowed
<1> DEFINE v == [t EXCEPT !.wired = FALSE, !.leftTimer = FALSE, !.focused = FALSE]
<1>1. t \in Tray
  BY DEF Good
<1>2. v \in Tray
  BY <1>1 DEF Tray
<1>3. /\ v.state = t.state /\ v.live = t.live /\ v.critical = t.critical
      /\ v.acked = t.acked /\ v.queue = t.queue /\ v.current = t.current
      /\ v.removed = t.removed /\ v.blocked = t.blocked /\ v.allowed = t.allowed
  BY <1>1 DEF Tray
<1>4. /\ ~v.wired /\ v.pointerIn = t.pointerIn
      /\ v.userActive = t.userActive /\ v.watches = t.watches
      /\ v.unredirect = t.unredirect /\ v.reordered = t.reordered
  BY <1>1 DEF Tray
<1>5. Hide(t, animate) = IF animate THEN [v EXCEPT !.state = "HIDING"]
                         ELSE [HideCompleted(v) EXCEPT !.unasked = TRUE]
  BY DEF Hide
<1> HIDE DEF v
<1>6. Good(v) /\ v.state # "HIDDEN"
  BY <1>2, <1>3, <1>4 DEF Good
<1>7. Stays(t, v) /\ (Ordered(t) => Ordered(v))
  BY <1>3, <1>4 DEF Stays, Ordered
<1>8. CASE animate
  <2> DEFINE u == [v EXCEPT !.state = "HIDING"]
  <2>1. u \in Tray
    BY <1>2 DEF Tray, States
  <2>2. /\ u.state = "HIDING" /\ u.live = v.live /\ u.critical = v.critical
        /\ u.acked = v.acked /\ u.queue = v.queue /\ u.current = v.current
        /\ u.removed = v.removed /\ u.blocked = v.blocked /\ u.allowed = v.allowed
    BY <1>2 DEF Tray
  <2>3. /\ u.wired = v.wired /\ u.pointerIn = v.pointerIn
        /\ u.userActive = v.userActive /\ u.watches = v.watches
        /\ u.unredirect = v.unredirect /\ u.reordered = v.reordered
    BY <1>2 DEF Tray
  <2>4. Hide(t, animate) = u
    BY <1>5, <1>8
  <2> HIDE DEF u
  <2>5. Good(u)
    BY <1>4, <1>6, <2>1, <2>2, <2>3 DEF Good
  <2>6. Stays(t, u) /\ (Ordered(v) => Ordered(u))
    BY <1>3, <2>2, <2>3 DEF Stays, Ordered
  <2> QED
    BY <1>3, <1>7, <1>8, <2>2, <2>4, <2>5, <2>6
<1>9. CASE ~animate
  <2> DEFINE w == HideCompleted(v)
             u == [w EXCEPT !.unasked = TRUE]
  <2>1. /\ Good(w) /\ Stays(v, w) /\ (Ordered(v) => Ordered(w))
        /\ w.state = "HIDDEN" /\ w.current = NoNotification /\ w.queue = v.queue
        /\ v.live \ w.live \subseteq {v.current}
        /\ v.removed => w.live = v.live
        /\ w.critical = v.critical /\ w.acked = v.acked
        /\ w.blocked = v.blocked /\ w.allowed = v.allowed
    BY <1>6, AfterHideCompleted
  <2>2. Hide(t, animate) = u
    BY <1>5, <1>9
  <2> HIDE DEF w
  <2>3. w \in Tray
    BY <2>1 DEF Good
  <2>4. u \in Tray /\ u.unasked
    BY <2>3 DEF Tray
  <2>5. /\ u.state = w.state /\ u.live = w.live /\ u.critical = w.critical
        /\ u.acked = w.acked /\ u.queue = w.queue /\ u.current = w.current
        /\ u.removed = w.removed /\ u.blocked = w.blocked /\ u.allowed = w.allowed
    BY <2>3 DEF Tray
  <2>6. u.pointerIn = w.pointerIn /\ u.unredirect = w.unredirect /\ u.reordered = w.reordered
    BY <2>3 DEF Tray
  <2> HIDE DEF u
  <2>7. Good(u)
    BY <2>1, <2>4, <2>5, <2>6 DEF Good
  <2>8. Stays(t, u) /\ (Ordered(w) => Ordered(u))
    <3>1. Stays(w, u) /\ (Ordered(w) => Ordered(u))
      BY <2>5, <2>6 DEF Stays, Ordered
    <3> QED
      BY <1>6, <1>7, <2>1, <3>1, StaysStays
  <2> QED
    BY <1>3, <1>7, <1>9, <2>1, <2>2, <2>4, <2>5, <2>7, <2>8
<1> QED
  BY <1>8, <1>9

LEMMA AfterShow ==
  ASSUME NEW t, Good(t), t.state = "HIDDEN", t.queue # <<>>, NEW u \in Show(t)
  PROVE  /\ Good(u) /\ Keeps(t, u) /\ (Ordered(t) => Ordered(u))
         /\ u.state = (IF t.blocked THEN "SHOWN" ELSE "SHOWING")
         /\ u.live = t.live /\ u.critical = t.critical
         /\ u.current = Head(t.queue) /\ ToSet(u.queue) = ToSet(t.queue) \ {u.current}
         /\ u.blocked = t.blocked /\ u.allowed = t.allowed
<1>1. PICK active \in IF t.watches < MaxWatches THEN BOOLEAN ELSE {TRUE} :
        u = UpdateShowing([t EXCEPT !.current = Head(t.queue), !.queue = Tail(@),
                           !.userActive = active,
                           !.watches = @ + IF active THEN 0 ELSE 1,
                           !.wired = TRUE, !.focused = FALSE, !.fresh = TRUE,
                           !.leftTimer = FALSE, !.unredirect = @ + 1])
  BY DEF Show
<1> DEFINE v == [t EXCEPT !.current = Head(t.queue), !.queue = Tail(@),
                           !.userActive = active,
                           !.watches = @ + IF active THEN 0 ELSE 1,
                           !.wired = TRUE, !.focused = FALSE, !.fresh = TRUE,
                           !.leftTimer = FALSE, !.unredirect = @ + 1]
<1>2. t \in Tray /\ t.queue \in Seq(Notifications) /\ Once(t.queue)
  BY DEF Good, Tray
<1>3. /\ Head(t.queue) \in Notifications /\ Head(t.queue) \in ToSet(t.queue)
      /\ Tail(t.queue) \in Seq(Notifications) /\ Once(Tail(t.queue))
      /\ ToSet(Tail(t.queue)) = ToSet(t.queue) \ {Head(t.queue)}
      /\ \A c : CriticalFirst(t.queue, c) => CriticalFirst(Tail(t.queue), c)
  BY <1>2, HeadAndTail
<1> DEFINE W == t.watches + IF active THEN 0 ELSE 1
           D == t.unredirect + 1
<1>4. active \in BOOLEAN
  OBVIOUS
<1>5. W \in 0 .. MaxWatches /\ (~active => W > 0)
  <2>1. t.watches \in 0 .. MaxWatches /\ MaxWatches \in Nat
    BY <1>2, TrayAssumption DEF Tray
  <2>2. ~active => t.watches < MaxWatches
    BY <1>1
  <2> QED
    BY <1>4, <2>1, <2>2, SMT
<1>6. D = 1 /\ D \in Int
  BY DEF Good
<1> HIDE DEF W, D
<1>7. v \in Tray
  <2> DEFINE h == Head(t.queue)
             q == Tail(t.queue)
             x == [t EXCEPT !.current = h, !.queue = q, !.userActive = active]
             y == [x EXCEPT !.watches = W, !.wired = TRUE, !.focused = FALSE]
  <2>1. v = [y EXCEPT !.fresh = TRUE, !.leftTimer = FALSE, !.unredirect = D]
    BY <1>2 DEF Tray, W, D
  <2>2. h \in Notifications /\ q \in Seq(Notifications)
    BY <1>3
  <2> HIDE DEF h, q, v
  <2>3. x \in Tray
    BY <1>2, <1>4, <2>2 DEF Tray
  <2> HIDE DEF x
  <2>4. y \in Tray
    BY <1>5, <2>3 DEF Tray
  <2> HIDE DEF y
  <2> QED
    BY <1>6, <2>1, <2>4 DEF Tray
<1>8. /\ v.state = t.state /\ v.live = t.live /\ v.critical = t.critical
      /\ v.acked = t.acked /\ v.queue = Tail(t.queue) /\ v.current = Head(t.queue)
      /\ v.removed = t.removed /\ v.blocked = t.blocked /\ v.allowed = t.allowed
  BY <1>2 DEF Tray
<1>9. /\ v.pointerIn = t.pointerIn
      /\ v.userActive = active /\ v.watches = W
      /\ v.unredirect = D /\ v.reordered = t.reordered
  BY <1>2 DEF Tray, W, D
<1> HIDE DEF v
<1> DEFINE x == [v EXCEPT !.acked = @ \cup {v.current}, !.state = "SHOWING"]
<1>10. x \in Tray
  <2> DEFINE all == v.acked \cup {v.current}
  <2>1. all \in SUBSET Notifications
    BY <1>3, <1>7, <1>8 DEF Tray
  <2>2. x = [v EXCEPT !.acked = all, !.state = "SHOWING"]
    BY <1>7 DEF Tray
  <2> HIDE DEF all, x
  <2> QED
    BY <1>7, <2>1, <2>2 DEF Tray, States
<1>11. /\ x.state = "SHOWING" /\ x.live = v.live /\ x.critical = v.critical
       /\ x.acked = v.acked \cup {v.current} /\ x.queue = v.queue /\ x.current = v.current
       /\ x.removed = v.removed /\ x.blocked = v.blocked /\ x.allowed = v.allowed
  BY <1>7 DEF Tray
<1>12. /\ x.pointerIn = v.pointerIn
       /\ x.userActive = v.userActive /\ x.watches = v.watches
       /\ x.unredirect = v.unredirect /\ x.reordered = v.reordered
  BY <1>7 DEF Tray
<1>13. u = IF x.blocked THEN ShowCompleted(x) ELSE x
  <2>1. u = UpdateShowing(v)
    BY <1>1 DEF v
  <2> HIDE DEF x
  <2> QED
    BY <2>1, <1>11 DEF UpdateShowing, x
<1> HIDE DEF x
<1>14. Good(x)
  <2>1. ToSet(x.queue) \subseteq x.live \ {x.current}
    BY <1>3, <1>8, <1>11 DEF Good
  <2>2. x.current # NoNotification
    BY <1>3, <1>8, <1>11, TrayAssumption
  <2>3. ~x.removed /\ ~x.pointerIn
    BY <1>8, <1>9, <1>11, <1>12 DEF Good
  <2>4. x.unredirect = 1
    BY <1>6, <1>9, <1>12
  <2>5. ~x.userActive => x.watches > 0
    BY <1>5, <1>9, <1>12
  <2> QED
    BY <1>3, <1>8, <1>10, <1>11, <2>1, <2>2, <2>3, <2>4, <2>5 DEF Good
<1>15. Ordered(t) => Ordered(x)
  BY <1>3, <1>8, <1>9, <1>11, <1>12 DEF Ordered
<1>16. Keeps(t, x)
  <2>1. t.current = NoNotification /\ NoNotification \notin Notifications
    BY TrayAssumption DEF Good
  <2> QED
    BY <1>3, <1>8, <1>11, <2>1 DEF Keeps
<1>17. CASE x.blocked
  <2> DEFINE y == ShowCompleted(x)
  <2>1. /\ Good(y) /\ (Ordered(x) => Ordered(y)) /\ y.state = "SHOWN" /\ y.live = x.live /\ y.current = x.current
        /\ y.queue = x.queue /\ y.critical = x.critical /\ y.acked = x.acked
        /\ y.blocked = x.blocked /\ y.allowed = x.allowed
    BY <1>11, <1>14, AfterShowCompleted
  <2>2. u = y
    BY <1>13, <1>17
  <2> HIDE DEF y
  <2>3. Keeps(t, y)
    BY <1>16, <2>1 DEF Keeps
  <2> QED
    BY <1>3, <1>8, <1>11, <1>15, <1>17, <2>1, <2>2, <2>3
<1>18. CASE ~x.blocked
  <2>1. u = x
    BY <1>13, <1>18
  <2> QED
    BY <1>3, <1>8, <1>11, <1>14, <1>15, <1>16, <1>18, <2>1
<1> QED
  BY <1>17, <1>18

\* _updateState() leaves the tray as it should be, if nothing blocks it.
LEMMA AfterUpdateState ==
  ASSUME NEW t, Good(t), NEW escaped \in BOOLEAN, NEW u \in UpdateState(t, escaped)
  PROVE  /\ Good(u) /\ Fresh(u) /\ Keeps(t, u) /\ (Ordered(t) => Ordered(u))
         /\ t.state # "HIDDEN" => Stays(t, u)
         /\ u.live \subseteq t.live /\ t.live \ u.live \subseteq {t.current}
         /\ (t.state = "SHOWN" /\ ~t.blocked => t.allowed \/ t.removed) => u.live = t.live
         /\ u.critical = t.critical /\ u.blocked = t.blocked /\ u.allowed = t.allowed
         /\ t.blocked => u = t
<1> DEFINE v == [t EXCEPT !.queue = Only(@, Notifications \ t.acked), !.unasked = FALSE]
           q == Only(t.queue, Notifications \ t.acked)
<1>1. t \in Tray /\ t.queue \in Seq(Notifications) /\ Once(t.queue)
  BY DEF Good, Tray
<1>2. q \in Seq(Notifications)
  BY <1>1, OnlyChooses
<1>3. Once(q) /\ ToSet(q) = ToSet(t.queue) \cap (Notifications \ t.acked)
  BY <1>1, OnlyOnce, OnlyElements
<1>4. \A c : CriticalFirst(t.queue, c) => CriticalFirst(q, c)
  BY <1>1, OnlyOrdered
<1>5. /\ v.state = t.state /\ v.live = t.live /\ v.critical = t.critical
      /\ v.acked = t.acked /\ v.queue = q /\ v.current = t.current
      /\ v.removed = t.removed /\ v.blocked = t.blocked /\ v.allowed = t.allowed
  BY <1>1 DEF Tray
<1>6. /\ v.wired = t.wired /\ v.pointerIn = t.pointerIn
      /\ v.hovered = t.hovered /\ v.leftTimer = t.leftTimer
      /\ v.userActive = t.userActive /\ v.watches = t.watches
      /\ v.unredirect = t.unredirect /\ v.reordered = t.reordered
  BY <1>1 DEF Tray
<1> HIDE DEF q
<1>7. v \in Tray
  BY <1>1, <1>2 DEF Tray, q
<1>8. CASE t.blocked
  <2>1. u = t
    BY <1>8 DEF UpdateState
  <2>2. Keeps(t, t) /\ Stays(t, t)
    BY DEF Keeps, Stays
  <2> QED
    BY <1>8, <2>1, <2>2 DEF Fresh
<1>9. CASE ~t.blocked
  <2>1. u \in IF v.state = "HIDDEN" /\ Showable(v) THEN Show(v)
              ELSE IF v.state = "SHOWN" /\ (v.removed \/ ~v.allowed \/ escaped \/ Expired(v))
                THEN {Hide(v, v.allowed /\ ~v.removed)}
              ELSE {v}
    BY <1>9 DEF UpdateState
  <2> HIDE DEF v
  <2>2. Good(v)
    <3>1. ToSet(v.queue) \subseteq v.live \ {v.current}
      BY <1>3, <1>5 DEF Good
    <3> QED
      BY <1>3, <1>5, <1>6, <1>7, <3>1 DEF Good
  <2>3. Stays(t, v) /\ (Ordered(t) => Ordered(v))
    <3>1. Stays(t, v)
      BY <1>3, <1>5 DEF Stays
    <3>2. Ordered(t) => Ordered(v)
      BY <1>4, <1>5, <1>6 DEF Ordered
    <3> QED
      BY <3>1, <3>2
  <2>4. CASE v.state = "HIDDEN" /\ Showable(v)
    <3>1. u \in Show(v) /\ v.queue # <<>>
      BY <2>1, <2>4 DEF Showable
    <3>2. /\ Good(u) /\ Keeps(v, u) /\ (Ordered(v) => Ordered(u))
          /\ u.state = (IF v.blocked THEN "SHOWN" ELSE "SHOWING")
          /\ u.live = v.live /\ u.critical = v.critical
          /\ u.blocked = v.blocked /\ u.allowed = v.allowed
      BY <2>2, <2>4, <3>1, AfterShow
    <3>3. Keeps(t, u)
      <4>1. u.live \subseteq v.live
        BY <3>2
      <4> QED
        BY <2>3, <3>2, <4>1, StaysKeeps
    <3>4. Fresh(u)
      BY <1>5, <1>9, <3>2 DEF Fresh
    <3> QED
      BY <1>5, <1>9, <2>3, <2>4, <3>2, <3>3, <3>4
  <2>5. CASE v.state = "SHOWN" /\ (v.removed \/ ~v.allowed \/ escaped \/ Expired(v))
    <3> DEFINE animate == v.allowed /\ ~v.removed
    <3>1. u = Hide(v, animate)
      BY <2>1, <2>5
    <3>2. animate \in BOOLEAN
      BY <1>7 DEF Tray
    <3> HIDE DEF animate
    <3>3. /\ Good(u) /\ Stays(v, u) /\ (Ordered(v) => Ordered(u))
          /\ u.state = (IF animate THEN "HIDING" ELSE "HIDDEN")
          /\ ~animate => u.unasked
          /\ v.live \ u.live \subseteq {v.current}
          /\ v.removed \/ animate => u.live = v.live
          /\ u.critical = v.critical
          /\ u.blocked = v.blocked /\ u.allowed = v.allowed
      BY <2>2, <2>5, <3>1, <3>2, AfterHide
    <3>4. Stays(t, u)
      BY <2>3, <3>3, StaysStays
    <3>5. Keeps(t, u)
      BY <3>4 DEF Keeps, Stays
    <3>6. Fresh(u)
      BY <3>3 DEF Fresh
    <3>7. (t.allowed \/ t.removed) => u.live = t.live
      BY <1>5, <3>3 DEF animate
    <3> QED
      BY <1>5, <1>9, <2>3, <2>5, <3>3, <3>4, <3>5, <3>6, <3>7 DEF Stays
  <2>6. CASE /\ ~(v.state = "HIDDEN" /\ Showable(v))
             /\ ~(v.state = "SHOWN" /\ (v.removed \/ ~v.allowed \/ escaped \/ Expired(v)))
    <3>1. u = v
      BY <2>1, <2>6
    <3>2. Fresh(v)
      BY <2>6 DEF Fresh
    <3>3. Keeps(t, v)
      BY <2>3 DEF Keeps, Stays
    <3> QED
      BY <1>5, <1>9, <2>2, <2>3, <3>1, <3>2, <3>3
  <2> QED
    BY <2>4, <2>5, <2>6
<1> QED
  BY <1>8, <1>9

LEMMA StaysIsKeeps ==
  ASSUME NEW t, NEW u, Stays(t, u) PROVE Keeps(t, u)
BY DEF Keeps, Stays

\* _onNotificationDestroy() drops the notification, and no other one.
LEMMA AfterOnDestroy ==
  ASSUME NEW t, Good(t), NEW n \in Notifications, NEW u \in OnDestroy(t, n)
  PROVE  /\ Good(u) /\ Stays(t, u) /\ (Ordered(t) => Ordered(u))
         /\ Ordered(t) => \A p : Quiet(t, p) => Quiet(u, p)
         /\ u.live = t.live \ {n}
         /\ u.critical = t.critical /\ u.blocked = t.blocked /\ u.allowed = t.allowed
<1>1. t \in Tray /\ t.queue \in Seq(Notifications) /\ Once(t.queue)
  BY DEF Good, Tray
<1>2. CASE t.current = n /\ t.state \in {"SHOWN", "SHOWING"}
  <2> DEFINE v == [t EXCEPT !.live = @ \ {n}]
             w == [v EXCEPT !.timer = FALSE, !.removed = TRUE]
  <2>1. u \in UpdateState(w, FALSE)
    BY <1>2 DEF OnDestroy
  <2>2. v \in Tray /\ v = [t EXCEPT !.live = t.live \ {n}]
    BY <1>1 DEF Tray
  <2>3. w \in Tray
    BY <2>2 DEF Tray
  <2>4. /\ w.state = t.state /\ w.live = t.live \ {n} /\ w.critical = t.critical
        /\ w.acked = t.acked /\ w.queue = t.queue /\ w.current = t.current
        /\ w.removed /\ w.blocked = t.blocked /\ w.allowed = t.allowed
    BY <1>1 DEF Tray
  <2>5. /\ w.wired = t.wired /\ w.pointerIn = t.pointerIn
        /\ w.hovered = t.hovered /\ w.leftTimer = t.leftTimer
        /\ w.userActive = t.userActive /\ w.watches = t.watches
        /\ w.unredirect = t.unredirect /\ w.reordered = t.reordered
    BY <1>1 DEF Tray
  <2> HIDE DEF v, w
  <2>6. Good(w)
    <3>1. ToSet(w.queue) \subseteq w.live \ {w.current}
      BY <1>2, <2>4 DEF Good
    <3> QED
      BY <1>2, <2>3, <2>4, <2>5, <3>1 DEF Good
  <2>7. Stays(t, w) /\ (Ordered(t) => Ordered(w))
    BY <2>4, <2>5 DEF Stays, Ordered
  <2>8. /\ Good(u) /\ Fresh(u) /\ Stays(w, u) /\ (Ordered(w) => Ordered(u))
        /\ u.live = w.live
        /\ u.critical = w.critical /\ u.blocked = w.blocked /\ u.allowed = w.allowed
    BY <1>2, <2>1, <2>4, <2>6, AfterUpdateState
  <2>9. Stays(t, u)
    BY <2>7, <2>8, StaysStays
  <2>10. Ordered(t) => \A p : Quiet(u, p)
    BY <2>7, <2>8, FreshIsQuiet
  <2> QED
    BY <2>4, <2>7, <2>8, <2>9, <2>10
<1>3. CASE ~(t.current = n /\ t.state \in {"SHOWN", "SHOWING"})
  <2> DEFINE q == Only(t.queue, Notifications \ {n})
             asked == t.unasked \/ n \in ToSet(t.queue)
  <2>1. q \in Seq(Notifications) /\ Once(q)
        /\ ToSet(q) = ToSet(t.queue) \cap (Notifications \ {n})
    BY <1>1, OnlyChooses, OnlyOnce, OnlyElements
  <2>2. \A c : CriticalFirst(t.queue, c) => CriticalFirst(q, c)
    BY <1>1, OnlyOrdered
  <2>3. n \notin ToSet(t.queue) => q = t.queue
    <3>1. ToSet(t.queue) \subseteq Notifications
      BY <1>1, InToSet
    <3> QED
      BY <1>1, <3>1, OnlyAll
  <2>4. u = [t EXCEPT !.live = t.live \ {n}, !.queue = q, !.unasked = asked]
    <3> HIDE DEF q, asked
    <3>1. u = [[t EXCEPT !.live = @ \ {n}] EXCEPT !.queue = Only(@, Notifications \ {n}),
                                           !.unasked = @ \/ n \in ToSet(t.queue)]
      BY <1>3 DEF OnDestroy
    <3> QED
      BY <1>1, <3>1 DEF Tray, q, asked
  <2>5. asked \in BOOLEAN
    BY <1>1 DEF Tray
  <2> HIDE DEF q
  <2>6. ~asked => ~t.unasked /\ q = t.queue
    BY <2>3
  <2> HIDE DEF asked
  <2>7. u \in Tray
    BY <1>1, <2>1, <2>4, <2>5 DEF Tray
  <2>8. /\ u.state = t.state /\ u.live = t.live \ {n} /\ u.critical = t.critical
        /\ u.acked = t.acked /\ u.queue = q /\ u.current = t.current
        /\ u.removed = t.removed /\ u.blocked = t.blocked /\ u.allowed = t.allowed
    BY <1>1, <2>4 DEF Tray
  <2>9. /\ u.wired = t.wired /\ u.pointerIn = t.pointerIn
        /\ u.hovered = t.hovered /\ u.leftTimer = t.leftTimer
        /\ u.userActive = t.userActive /\ u.watches = t.watches
        /\ u.unredirect = t.unredirect /\ u.reordered = t.reordered
    BY <1>1, <2>4 DEF Tray
  <2>10. /\ u.busy = t.busy /\ u.fullscreen = t.fullscreen /\ u.timer = t.timer
         /\ u.focused = t.focused /\ u.unasked = asked
    BY <1>1, <2>4 DEF Tray
  <2>11. Good(u)
    <3>1. ToSet(u.queue) \subseteq u.live \ {u.current}
      BY <2>1, <2>8 DEF Good
    <3> QED
      BY <2>1, <2>7, <2>8, <2>9, <3>1 DEF Good
  <2>12. Stays(t, u) /\ (Ordered(t) => Ordered(u))
    <3>1. Stays(t, u)
      BY <2>1, <2>8 DEF Stays
    <3>2. Ordered(t) => Ordered(u)
      BY <2>2, <2>8, <2>9 DEF Ordered
    <3> QED
      BY <3>1, <3>2
  <2>13. ASSUME NEW p, Quiet(t, p) PROVE Quiet(u, p)
    <3>1. Expired(u) = Expired(t)
      BY <2>8, <2>9, <2>10 DEF Expired
    <3>2. u.queue = t.queue => Showable(u) = Showable(t)
      BY <2>8, <2>10 DEF Showable, Limited
    <3> QED
      BY <2>6, <2>8, <2>9, <2>10, <2>13, <3>1, <3>2 DEF Quiet
  <2> QED
    BY <2>8, <2>11, <2>12, <2>13
<1> QED
  BY <1>2, <1>3

\* _onNotificationShow()
LEMMA AfterOnShow ==
  ASSUME NEW t, Good(t), NEW n \in t.live, NEW u \in OnShow(t, n)
  PROVE  /\ Good(u) /\ Fresh(u) /\ Keeps(t, u) /\ (Ordered(t) => Ordered(u))
         /\ u.live \subseteq t.live
         /\ (t.state = "SHOWN" /\ ~t.blocked => t.allowed \/ t.removed) => u.live = t.live
         /\ u.critical = t.critical /\ u.blocked = t.blocked /\ u.allowed = t.allowed
<1> DEFINE v == IF t.current = n THEN UpdateShowing(t)
                ELSE IF n \notin ToSet(t.queue) /\ (~Full(t) \/ n \in t.critical)
                  THEN [t EXCEPT !.queue = Sorted(Append(@, n), t.critical),
                                 !.reordered = FALSE]
                ELSE t
<1>1. u \in UpdateState(v, FALSE)
  BY DEF OnShow
<1>2. t \in Tray /\ t.queue \in Seq(Notifications) /\ Once(t.queue) /\ n \in Notifications
  BY DEF Good, Tray
<1>3. /\ Good(v) /\ Stays(t, v) /\ (Ordered(t) => Ordered(v)) /\ v.live = t.live
      /\ v.critical = t.critical /\ v.blocked = t.blocked /\ v.allowed = t.allowed
      /\ (v.state = "SHOWN" /\ ~v.blocked => t.state = "SHOWN" /\ (v.removed = t.removed))
  <2>1. CASE t.current = n
    <3>1. t.state # "HIDDEN"
      BY <1>2, <2>1, TrayAssumption DEF Good
    <3> QED
      BY <2>1, <3>1, AfterUpdateShowing
  <2>2. CASE t.current # n /\ n \notin ToSet(t.queue) /\ (~Full(t) \/ n \in t.critical)
    <3> DEFINE a == Append(t.queue, n)
               q == Sorted(a, t.critical)
    <3>1. v = [t EXCEPT !.queue = Sorted(Append(@, n), t.critical), !.reordered = FALSE]
      BY <2>2
    <3>2. v = [t EXCEPT !.queue = q, !.reordered = FALSE]
      BY <1>2, <3>1 DEF Tray
    <3>3. a \in Seq(Notifications) /\ Once(a) /\ ToSet(a) = ToSet(t.queue) \cup {n}
      BY <1>2, <2>2, Appended
    <3>4. ToSet(t.queue) \subseteq Notifications /\ t.critical \in SUBSET Notifications
      BY <1>2, InToSet DEF Tray
    <3> HIDE DEF a
    <3>5. ToSet(a) \subseteq Notifications
      BY <1>2, <3>3, <3>4
    <3>6. /\ q \in Seq(Notifications) /\ ToSet(q) = ToSet(t.queue) \cup {n}
          /\ Once(q) /\ CriticalFirst(q, t.critical)
      BY <3>3, <3>4, <3>5, SortedQueue
    <3> HIDE DEF q, v
    <3>7. v \in Tray
      BY <1>2, <3>2, <3>6 DEF Tray
    <3>8. /\ v.state = t.state /\ v.live = t.live /\ v.critical = t.critical
          /\ v.acked = t.acked /\ v.queue = q /\ v.current = t.current
          /\ v.removed = t.removed /\ v.blocked = t.blocked /\ v.allowed = t.allowed
      BY <1>2, <3>2 DEF Tray
    <3>9. /\ v.wired = t.wired /\ v.pointerIn = t.pointerIn
          /\ v.hovered = t.hovered /\ v.leftTimer = t.leftTimer
          /\ v.userActive = t.userActive /\ v.watches = t.watches
          /\ v.unredirect = t.unredirect
      BY <1>2, <3>2 DEF Tray
    <3>10. ToSet(v.queue) \subseteq v.live \ {v.current}
      BY <2>2, <3>6, <3>8 DEF Good
    <3>11. Good(v)
      BY <3>6, <3>7, <3>8, <3>9, <3>10 DEF Good
    <3>12. Stays(t, v)
      BY <3>6, <3>8 DEF Stays
    <3>13. Ordered(v)
      BY <3>6, <3>8 DEF Ordered
    <3> QED
      BY <3>8, <3>11, <3>12, <3>13
  <2>3. CASE t.current # n /\ ~(n \notin ToSet(t.queue) /\ (~Full(t) \/ n \in t.critical))
    <3>1. v = t
      BY <2>3
    <3>2. Stays(t, t)
      BY DEF Stays
    <3> QED
      BY <3>1, <3>2
  <2> QED
    BY <2>1, <2>2, <2>3
<1> HIDE DEF v
<1>4. /\ Good(u) /\ Fresh(u) /\ Keeps(v, u) /\ (Ordered(v) => Ordered(u))
      /\ u.live \subseteq v.live
      /\ (v.state = "SHOWN" /\ ~v.blocked => v.allowed \/ v.removed) => u.live = v.live
      /\ u.critical = v.critical /\ u.blocked = v.blocked /\ u.allowed = v.allowed
  BY <1>1, <1>3, AfterUpdateState
<1>5. Keeps(t, u)
  BY <1>3, <1>4, StaysKeeps
<1> QED
  BY <1>3, <1>4, <1>5

\* source.showNotification(): if the policy keeps it from the tray, nothing changes.
LEMMA AfterPost ==
  ASSUME NEW t, Good(t), NEW n \in t.live, NEW u \in Post(n, t),
         policy \in [Sources -> Policies]
  PROVE  /\ Good(u) /\ Keeps(t, u) /\ (Ordered(t) => Ordered(u))
         /\ \/ Fresh(u)
            \/ /\ u = t
               /\ \/ policy[SourceOf[n]] = "off"
                  \/ policy[SourceOf[n]] = "list" /\ n \notin t.critical
         /\ u.live \subseteq t.live
         /\ (t.state = "SHOWN" /\ ~t.blocked => t.allowed \/ t.removed) => u.live = t.live
         /\ u.critical = t.critical /\ u.blocked = t.blocked /\ u.allowed = t.allowed
<1> DEFINE s == SourceOf[n]
<1>1. u \in IF policy[s] = "banners" \/ (policy[s] = "list" /\ n \in t.critical)
              THEN OnShow(t, n) ELSE {t}
  BY DEF Post
<1>2. CASE policy[s] = "banners" \/ (policy[s] = "list" /\ n \in t.critical)
  BY <1>1, <1>2, AfterOnShow
<1>3. CASE ~(policy[s] = "banners" \/ (policy[s] = "list" /\ n \in t.critical))
  <2>1. u = t
    BY <1>1, <1>3
  <2>2. n \in Notifications
    BY DEF Good, Tray
  <2>3. s \in Sources
    BY <2>2, TrayAssumption
  <2>4. policy[s] \in {"banners", "list", "off"}
    BY <2>3, TrayAssumption
  <2>5. Keeps(t, t)
    BY DEF Keeps
  <2>6. policy[s] = "off" \/ (policy[s] = "list" /\ n \notin t.critical)
    BY <1>3, <2>4
  <2>7. Keeps(t, u)
    BY <2>1, <2>5
  <2> QED
    BY <2>1, <2>6, <2>7
<1> QED
  BY <1>2, <1>3

-----------------------------------------------------------------------------
(* The sources' lists follow what the handlers destroy.                      *)

Exact(lists, live) ==
  \A s \in Sources : /\ Len(lists[s]) <= MaxPerSource
                     /\ Once(lists[s])
                     /\ ToSet(lists[s]) = {n \in live : SourceOf[n] = s}

Lists(lists, live) == lists \in [Sources -> Seq(Notifications)] /\ Exact(lists, live)

IInv == /\ Good(tray) /\ Ordered(tray) /\ Quiet(tray, policy)
        /\ Lists(listed, tray.live)
        /\ policy \in [Sources -> Policies]

LEMMA AfterListed ==
  ASSUME Lists(listed, tray.live), tray.live \subseteq Notifications, NEW u
  PROVE  Lists(Listed(u), u.live \cap tray.live)
<1> SUFFICES ASSUME NEW s \in Sources
             PROVE  /\ Only(listed[s], u.live) \in Seq(Notifications)
                    /\ Len(Only(listed[s], u.live)) <= MaxPerSource
                    /\ Once(Only(listed[s], u.live))
                    /\ ToSet(Only(listed[s], u.live))
                         = {n \in u.live \cap tray.live : SourceOf[n] = s}
  BY DEF Lists, Exact, Listed
<1>1. /\ listed[s] \in Seq(Notifications) /\ Len(listed[s]) <= MaxPerSource
      /\ Once(listed[s]) /\ ToSet(listed[s]) = {n \in tray.live : SourceOf[n] = s}
  BY DEF Lists, Exact
<1> DEFINE r == Only(listed[s], u.live)
<1>2. /\ r \in Seq(Notifications) /\ Once(r) /\ Len(r) <= Len(listed[s])
      /\ ToSet(r) = ToSet(listed[s]) \cap u.live
  BY <1>1, OnlyChooses, OnlyOnce, OnlyShorter, OnlyElements
<1> HIDE DEF r
<1>3. Len(r) <= MaxPerSource
  <2>1. Len(r) \in Nat /\ Len(listed[s]) \in Nat /\ MaxPerSource \in Nat
    BY <1>1, <1>2, TrayAssumption
  <2> QED
    BY <1>1, <1>2, <2>1, SMT
<1>4. ToSet(r) = {n \in u.live \cap tray.live : SourceOf[n] = s}
  BY <1>1, <1>2
<1> QED
  BY <1>2, <1>3, <1>4 DEF r

\* A notification that is built anew joins its source's list, which has room.
LEMMA AfterAppended ==
  ASSUME NEW lists, NEW live, Lists(lists, live), NEW n \in Notifications,
         n \notin live, Len(lists[SourceOf[n]]) < MaxPerSource
  PROVE  Lists([lists EXCEPT ![SourceOf[n]] = Append(@, n)], live \cup {n})
<1> DEFINE s == SourceOf[n]
           q == Append(lists[s], n)
           l2 == [lists EXCEPT ![s] = Append(@, n)]
<1>1. s \in Sources
  BY TrayAssumption
<1>2. /\ lists \in [Sources -> Seq(Notifications)] /\ lists[s] \in Seq(Notifications)
      /\ Once(lists[s]) /\ ToSet(lists[s]) = {m \in live : SourceOf[m] = s}
  BY <1>1 DEF Lists, Exact
<1>3. n \notin ToSet(lists[s])
  BY <1>2
<1>4. /\ q \in Seq(Notifications) /\ Once(q) /\ ToSet(q) = ToSet(lists[s]) \cup {n}
      /\ Len(q) = Len(lists[s]) + 1
  BY <1>2, <1>3, Appended
<1>5. l2 = [lists EXCEPT ![s] = q]
  BY <1>1, <1>2
<1>6. Len(q) <= MaxPerSource
  <2>1. Len(lists[s]) \in Nat /\ MaxPerSource \in Nat
    BY <1>2, TrayAssumption
  <2> QED
    BY <1>4, <2>1, SMT
<1> HIDE DEF q
<1>7. l2 \in [Sources -> Seq(Notifications)]
  BY <1>1, <1>2, <1>4, <1>5
<1>8. ASSUME NEW r \in Sources
      PROVE  /\ Len(l2[r]) <= MaxPerSource /\ Once(l2[r])
             /\ ToSet(l2[r]) = {m \in live \cup {n} : SourceOf[m] = r}
  <2>1. CASE r = s
    <3>1. l2[r] = q
      BY <1>1, <1>2, <1>5, <2>1
    <3>2. ToSet(q) = {m \in live \cup {n} : SourceOf[m] = r}
      BY <1>2, <1>4, <2>1
    <3> QED
      BY <1>4, <1>6, <3>1, <3>2
  <2>2. CASE r # s
    <3>1. l2[r] = lists[r]
      BY <1>1, <1>2, <1>5, <2>2
    <3>2. ToSet(lists[r]) = {m \in live : SourceOf[m] = r}
          /\ Len(lists[r]) <= MaxPerSource /\ Once(lists[r])
      BY DEF Lists, Exact
    <3>3. ToSet(lists[r]) = {m \in live \cup {n} : SourceOf[m] = r}
      BY <2>2, <3>2
    <3> QED
      BY <3>1, <3>2, <3>3
  <2> QED
    BY <2>1, <2>2
<1> QED
  BY <1>7, <1>8 DEF Lists, Exact

-----------------------------------------------------------------------------
(* Every action keeps the invariant, and NeverLost.                          *)

LEMMA EndsIn ==
  ASSUME IInv, NEW u, tray' = u, listed' = Listed(tray'), policy' = policy,
         Good(u), Ordered(u), Quiet(u, policy), u.live \subseteq tray.live
  PROVE  IInv'
<1>1. tray.live \subseteq Notifications
  BY DEF IInv, Good, Tray
<1>2. Lists(Listed(u), u.live)
  <2>1. u.live \cap tray.live = u.live
    OBVIOUS
  <2> QED
    BY <1>1, <2>1, AfterListed DEF IInv
<1>3. Listed(u) = listed'
  OBVIOUS
<1> QED
  BY <1>2, <1>3 DEF IInv

\* A handler that ends in _updateState(), after the animation or a flag changed.
LEMMA EndsInUpdateState ==
  ASSUME IInv, NEW t, Good(t), Ordered(t), Stays(tray, t), NEW escaped \in BOOLEAN,
         Step(UpdateState(t, escaped))
  PROVE  IInv' /\ Keeps(tray, tray')
<1>1. PICK u \in UpdateState(t, escaped) : tray' = u
  BY DEF Step
<1>2. /\ Good(u) /\ Fresh(u) /\ Keeps(t, u) /\ Ordered(u) /\ u.live \subseteq t.live
  BY AfterUpdateState
<1>3. Quiet(u, policy)
  BY <1>2, FreshIsQuiet
<1>4. Keeps(tray, u)
  BY <1>2, StaysKeeps DEF IInv
<1>5. u.live \subseteq tray.live
  BY <1>2 DEF Stays
<1>6. IInv'
  BY <1>1, <1>2, <1>3, <1>5, EndsIn DEF Step
<1> QED
  BY <1>1, <1>4, <1>6

\* What Good and Ordered look at.
Core(t) == <<t.live, t.critical, t.queue, t.current, t.state, t.removed,
             t.unredirect, t.reordered>>

LEMMA SameCore ==
  ASSUME NEW t, NEW u, Good(t), Ordered(t), u \in Tray, Core(u) = Core(t),
         u.acked = t.acked,
         t.state = "HIDDEN" => ~u.pointerIn,
         (u.current # NoNotification /\ ~u.userActive) => u.watches > 0,
         (u.wired /\ u.pointerIn) => (u.hovered \/ u.leftTimer)
  PROVE  Good(u) /\ Ordered(u) /\ Stays(t, u)
<1>1. /\ u.live = t.live /\ u.critical = t.critical /\ u.queue = t.queue
      /\ u.current = t.current /\ u.state = t.state /\ u.removed = t.removed
      /\ u.unredirect = t.unredirect /\ u.reordered = t.reordered
  BY DEF Core
<1>2. Good(u)
  BY <1>1 DEF Good
<1>3. Ordered(u)
  BY <1>1 DEF Ordered
<1>4. Stays(t, u)
  BY <1>1 DEF Stays
<1> QED
  BY <1>2, <1>3, <1>4

LEMMA KeepShowDone ==
  ASSUME IInv, ShowDone PROVE IInv' /\ Keeps(tray, tray')
<1> DEFINE t == ShowCompleted(tray)
<1>1. Good(tray) /\ tray.state # "HIDDEN"
  BY DEF IInv, ShowDone
<1>2. Good(t) /\ Ordered(t) /\ Stays(tray, t)
  BY <1>1, AfterShowCompleted DEF IInv
<1>3. Step(UpdateState(t, FALSE))
  BY DEF ShowDone
<1> HIDE DEF t
<1> QED
  BY <1>2, <1>3, EndsInUpdateState

LEMMA KeepHideDone ==
  ASSUME IInv, HideDone PROVE IInv' /\ Keeps(tray, tray')
<1> DEFINE t == HideCompleted(tray)
<1>1. Good(tray) /\ tray.state # "HIDDEN"
  BY DEF IInv, HideDone
<1>2. Good(t) /\ Ordered(t) /\ Stays(tray, t)
  BY <1>1, AfterHideCompleted DEF IInv
<1>3. Step(UpdateState(t, FALSE))
  BY DEF HideDone
<1> HIDE DEF t
<1> QED
  BY <1>2, <1>3, EndsInUpdateState

LEMMA KeepTimeout ==
  ASSUME IInv, Timeout PROVE IInv' /\ Keeps(tray, tray')
<1> DEFINE t == [tray EXCEPT !.timer = FALSE]
<1>1. tray \in Tray /\ Good(tray) /\ Ordered(tray)
  BY DEF IInv, Good
<1>2. t \in Tray
  BY <1>1 DEF Tray
<1>3. Core(t) = Core(tray) /\ t.acked = tray.acked
  BY <1>1 DEF Tray, Core
<1>4. /\ tray.state = "HIDDEN" => ~t.pointerIn
      /\ (t.current # NoNotification /\ ~t.userActive) => t.watches > 0
      /\ (t.wired /\ t.pointerIn) => (t.hovered \/ t.leftTimer)
  BY <1>1 DEF Good, Tray
<1>5. Step(UpdateState(t, FALSE))
  BY DEF Timeout
<1> HIDE DEF t
<1>6. Good(t) /\ Ordered(t) /\ Stays(tray, t)
  BY <1>1, <1>2, <1>3, <1>4, SameCore
<1> QED
  BY <1>5, <1>6, EndsInUpdateState

LEMMA KeepUserActive ==
  ASSUME IInv, UserActive PROVE IInv' /\ Keeps(tray, tray')
<1> DEFINE t == [tray EXCEPT !.watches = @ - 1, !.userActive = TRUE, !.timer = TRUE]
<1>1. tray \in Tray /\ Good(tray) /\ Ordered(tray)
  BY DEF IInv, Good
<1>9. tray.watches - 1 \in 0 .. MaxWatches
  <2>1. tray.watches \in 0 .. MaxWatches /\ tray.watches > 0 /\ MaxWatches \in Nat
    BY <1>1, TrayAssumption DEF Tray, UserActive
  <2> QED
    BY <2>1, SMT
<1>2. t \in Tray
  BY <1>1, <1>9 DEF Tray
<1>3. Core(t) = Core(tray) /\ t.acked = tray.acked
  BY <1>1 DEF Tray, Core
<1>4. /\ tray.state = "HIDDEN" => ~t.pointerIn
      /\ (t.current # NoNotification /\ ~t.userActive) => t.watches > 0
      /\ (t.wired /\ t.pointerIn) => (t.hovered \/ t.leftTimer)
  BY <1>1, <1>9 DEF Good, Tray
<1>5. Step(UpdateState(t, FALSE))
  BY DEF UserActive
<1> HIDE DEF t
<1>6. Good(t) /\ Ordered(t) /\ Stays(tray, t)
  BY <1>1, <1>2, <1>3, <1>4, SameCore
<1> QED
  BY <1>5, <1>6, EndsInUpdateState

LEMMA KeepLeftTimeout ==
  ASSUME IInv, LeftTimeout PROVE IInv' /\ Keeps(tray, tray')
<1> DEFINE t == [tray EXCEPT !.leftTimer = FALSE, !.pointerIn = FALSE, !.timer = FALSE]
<1>1. tray \in Tray /\ Good(tray) /\ Ordered(tray)
  BY DEF IInv, Good
<1>2. t \in Tray
  BY <1>1 DEF Tray
<1>3. Core(t) = Core(tray) /\ t.acked = tray.acked
  BY <1>1 DEF Tray, Core
<1>4. /\ tray.state = "HIDDEN" => ~t.pointerIn
      /\ (t.current # NoNotification /\ ~t.userActive) => t.watches > 0
      /\ (t.wired /\ t.pointerIn) => (t.hovered \/ t.leftTimer)
  BY <1>1 DEF Good, Tray
<1>5. Step(UpdateState(t, FALSE))
  BY DEF LeftTimeout
<1> HIDE DEF t
<1>6. Good(t) /\ Ordered(t) /\ Stays(tray, t)
  BY <1>1, <1>2, <1>3, <1>4, SameCore
<1> QED
  BY <1>5, <1>6, EndsInUpdateState

LEMMA KeepSetBusy ==
  ASSUME IInv, NEW b \in BOOLEAN, SetBusy(b) PROVE IInv' /\ Keeps(tray, tray')
<1> DEFINE t == [tray EXCEPT !.busy = b, !.timer = @ /\ ~b]
<1>1. tray \in Tray /\ Good(tray) /\ Ordered(tray)
  BY DEF IInv, Good
<1>2. t \in Tray
  <2> DEFINE c == tray.timer /\ ~b
  <2>1. c \in BOOLEAN
    OBVIOUS
  <2> HIDE DEF c
  <2>2. [tray EXCEPT !.busy = b, !.timer = c] \in Tray
    BY <1>1, <2>1 DEF Tray
  <2>3. t = [tray EXCEPT !.busy = b, !.timer = c]
    BY <1>1 DEF Tray, c
  <2> HIDE DEF t
  <2> QED
    BY <2>2, <2>3
<1>3. Core(t) = Core(tray) /\ t.acked = tray.acked
  <2>1. /\ t.live = tray.live /\ t.critical = tray.critical /\ t.queue = tray.queue
        /\ t.current = tray.current /\ t.state = tray.state /\ t.removed = tray.removed
        /\ t.unredirect = tray.unredirect /\ t.reordered = tray.reordered
        /\ t.acked = tray.acked
    BY <1>1 DEF Tray
  <2> HIDE DEF t
  <2> QED
    BY <2>1 DEF Core
<1>4. /\ tray.state = "HIDDEN" => ~t.pointerIn
      /\ (t.current # NoNotification /\ ~t.userActive) => t.watches > 0
      /\ (t.wired /\ t.pointerIn) => (t.hovered \/ t.leftTimer)
  BY <1>1 DEF Good, Tray
<1>5. Step(UpdateState(t, FALSE))
  BY DEF SetBusy
<1> HIDE DEF t
<1>6. Good(t) /\ Ordered(t) /\ Stays(tray, t)
  BY <1>1, <1>2, <1>3, <1>4, SameCore
<1> QED
  BY <1>5, <1>6, EndsInUpdateState

LEMMA KeepSetFullscreen ==
  ASSUME IInv, NEW b \in BOOLEAN, SetFullscreen(b) PROVE IInv' /\ Keeps(tray, tray')
<1> DEFINE t == [tray EXCEPT !.fullscreen = b]
<1>1. tray \in Tray /\ Good(tray) /\ Ordered(tray)
  BY DEF IInv, Good
<1>2. t \in Tray
  BY <1>1 DEF Tray
<1>3. Core(t) = Core(tray) /\ t.acked = tray.acked
  BY <1>1 DEF Tray, Core
<1>4. /\ tray.state = "HIDDEN" => ~t.pointerIn
      /\ (t.current # NoNotification /\ ~t.userActive) => t.watches > 0
      /\ (t.wired /\ t.pointerIn) => (t.hovered \/ t.leftTimer)
  BY <1>1 DEF Good, Tray
<1>5. Step(UpdateState(t, FALSE))
  BY DEF SetFullscreen
<1> HIDE DEF t
<1>6. Good(t) /\ Ordered(t) /\ Stays(tray, t)
  BY <1>1, <1>2, <1>3, <1>4, SameCore
<1> QED
  BY <1>5, <1>6, EndsInUpdateState

LEMMA KeepSetBlocked ==
  ASSUME IInv, NEW b \in BOOLEAN, SetBlocked(b) PROVE IInv' /\ Keeps(tray, tray')
<1> DEFINE t == [tray EXCEPT !.blocked = b]
<1>1. tray \in Tray /\ Good(tray) /\ Ordered(tray)
  BY DEF IInv, Good
<1>2. t \in Tray
  BY <1>1 DEF Tray
<1>3. Core(t) = Core(tray) /\ t.acked = tray.acked
  BY <1>1 DEF Tray, Core
<1>4. /\ tray.state = "HIDDEN" => ~t.pointerIn
      /\ (t.current # NoNotification /\ ~t.userActive) => t.watches > 0
      /\ (t.wired /\ t.pointerIn) => (t.hovered \/ t.leftTimer)
  BY <1>1 DEF Good, Tray
<1>5. Step(UpdateState(t, FALSE))
  BY DEF SetBlocked
<1> HIDE DEF t
<1>6. Good(t) /\ Ordered(t) /\ Stays(tray, t)
  BY <1>1, <1>2, <1>3, <1>4, SameCore
<1> QED
  BY <1>5, <1>6, EndsInUpdateState

LEMMA KeepSetAllowed ==
  ASSUME IInv, NEW b \in BOOLEAN, SetAllowed(b) PROVE IInv' /\ Keeps(tray, tray')
<1> DEFINE t == [tray EXCEPT !.allowed = b]
<1>1. tray \in Tray /\ Good(tray) /\ Ordered(tray)
  BY DEF IInv, Good
<1>2. t \in Tray
  BY <1>1 DEF Tray
<1>3. Core(t) = Core(tray) /\ t.acked = tray.acked
  BY <1>1 DEF Tray, Core
<1>4. /\ tray.state = "HIDDEN" => ~t.pointerIn
      /\ (t.current # NoNotification /\ ~t.userActive) => t.watches > 0
      /\ (t.wired /\ t.pointerIn) => (t.hovered \/ t.leftTimer)
  BY <1>1 DEF Good, Tray
<1>5. Step(UpdateState(t, FALSE))
  BY DEF SetAllowed
<1> HIDE DEF t
<1>6. Good(t) /\ Ordered(t) /\ Stays(tray, t)
  BY <1>1, <1>2, <1>3, <1>4, SameCore
<1> QED
  BY <1>5, <1>6, EndsInUpdateState

LEMMA KeepEscape ==
  ASSUME IInv, Escape PROVE IInv' /\ Keeps(tray, tray')
<1>1. Good(tray) /\ Ordered(tray) /\ Stays(tray, tray)
  BY DEF IInv, Stays
<1>2. Step(UpdateState(tray, TRUE))
  BY DEF Escape
<1> QED
  BY <1>1, <1>2, EndsInUpdateState

\* A handler that does not ask _updateState(): nothing it changed matters to it.
LEMMA SameQuiet ==
  ASSUME IInv, NEW t, Core(t) = Core(tray), t.blocked = tray.blocked,
         t.allowed = tray.allowed, t.unasked = tray.unasked, t.busy = tray.busy,
         t.fullscreen = tray.fullscreen,
         (t.wired /\ Expired(t)) => (tray.wired /\ Expired(tray))
  PROVE  Quiet(t, policy)
<1>1. /\ t.live = tray.live /\ t.critical = tray.critical /\ t.queue = tray.queue
      /\ t.current = tray.current /\ t.state = tray.state /\ t.removed = tray.removed
      /\ t.unredirect = tray.unredirect /\ t.reordered = tray.reordered
  BY DEF Core
<1>2. Showable(t) = Showable(tray)
  BY <1>1 DEF Showable, Limited
<1>3. Quiet(tray, policy)
  BY DEF IInv
<1> QED
  BY <1>1, <1>2, <1>3 DEF Quiet

LEMMA EndsQuietly ==
  ASSUME IInv, NEW t, Good(t), Ordered(t), Quiet(t, policy), t.live = tray.live,
         t.queue = tray.queue, t.current = tray.current, Step({t})
  PROVE  IInv' /\ Keeps(tray, tray')
<1>1. tray' = t /\ listed' = Listed(tray') /\ policy' = policy
  BY DEF Step
<1>2. IInv'
  BY <1>1, EndsIn
<1>3. Keeps(tray, t)
  BY DEF Keeps
<1> QED
  BY <1>1, <1>2, <1>3

LEMMA KeepLeave ==
  ASSUME IInv, Leave PROVE IInv' /\ Keeps(tray, tray')
<1> DEFINE t == [tray EXCEPT !.hovered = FALSE, !.leftTimer = TRUE]
<1>1. tray \in Tray /\ Good(tray) /\ Ordered(tray)
  BY DEF IInv, Good
<1>2. t \in Tray
  BY <1>1 DEF Tray
<1>3. Core(t) = Core(tray) /\ t.acked = tray.acked
  BY <1>1 DEF Tray, Core
<1>4. /\ tray.state = "HIDDEN" => ~t.pointerIn
      /\ (t.current # NoNotification /\ ~t.userActive) => t.watches > 0
      /\ (t.wired /\ t.pointerIn) => (t.hovered \/ t.leftTimer)
  BY <1>1 DEF Good, Tray
<1>5. /\ t.blocked = tray.blocked /\ t.allowed = tray.allowed
      /\ t.unasked = tray.unasked /\ t.busy = tray.busy
      /\ t.fullscreen = tray.fullscreen
      /\ (t.wired /\ Expired(t)) => (tray.wired /\ Expired(tray))
  BY <1>1 DEF Tray, Expired
<1>6. Step({t})
  BY DEF Leave
<1> HIDE DEF t
<1>7. Good(t) /\ Ordered(t)
  BY <1>1, <1>2, <1>3, <1>4, SameCore
<1>8. Quiet(t, policy)
  BY <1>3, <1>5, SameQuiet
<1>9. t.live = tray.live /\ t.queue = tray.queue /\ t.current = tray.current
  BY <1>3 DEF Core
<1> QED
  BY <1>6, <1>7, <1>8, <1>9, EndsQuietly

LEMMA KeepFocusReply ==
  ASSUME IInv, FocusReply PROVE IInv' /\ Keeps(tray, tray')
<1> DEFINE t == [tray EXCEPT !.focused = TRUE]
<1>1. tray \in Tray /\ Good(tray) /\ Ordered(tray)
  BY DEF IInv, Good
<1>2. t \in Tray
  BY <1>1 DEF Tray
<1>3. Core(t) = Core(tray) /\ t.acked = tray.acked
  BY <1>1 DEF Tray, Core
<1>4. /\ tray.state = "HIDDEN" => ~t.pointerIn
      /\ (t.current # NoNotification /\ ~t.userActive) => t.watches > 0
      /\ (t.wired /\ t.pointerIn) => (t.hovered \/ t.leftTimer)
  BY <1>1 DEF Good, Tray
<1>5. /\ t.blocked = tray.blocked /\ t.allowed = tray.allowed
      /\ t.unasked = tray.unasked /\ t.busy = tray.busy
      /\ t.fullscreen = tray.fullscreen
      /\ (t.wired /\ Expired(t)) => (tray.wired /\ Expired(tray))
  BY <1>1 DEF Tray, Expired
<1>6. Step({t})
  BY DEF FocusReply
<1> HIDE DEF t
<1>7. Good(t) /\ Ordered(t)
  BY <1>1, <1>2, <1>3, <1>4, SameCore
<1>8. Quiet(t, policy)
  BY <1>3, <1>5, SameQuiet
<1>9. t.live = tray.live /\ t.queue = tray.queue /\ t.current = tray.current
  BY <1>3 DEF Core
<1> QED
  BY <1>6, <1>7, <1>8, <1>9, EndsQuietly

LEMMA KeepEnter ==
  ASSUME IInv, Enter PROVE IInv' /\ Keeps(tray, tray')
<1> DEFINE t == [tray EXCEPT !.hovered = TRUE, !.leftTimer = FALSE, !.fresh = FALSE]
           v == [t EXCEPT !.pointerIn = TRUE]
<1>1. tray \in Tray /\ Good(tray) /\ Ordered(tray)
  BY DEF IInv, Good
<1>2. tray.current # NoNotification /\ tray.state # "HIDDEN"
  BY <1>1 DEF Enter, Good
<1>3. t \in Tray /\ v \in Tray
  BY <1>1 DEF Tray
<1>4. /\ Core(t) = Core(tray) /\ t.acked = tray.acked
      /\ Core(v) = Core(tray) /\ v.acked = tray.acked
  BY <1>1 DEF Tray, Core
<1>5. /\ (t.current # NoNotification /\ ~t.userActive) => t.watches > 0
      /\ t.hovered
      /\ (v.current # NoNotification /\ ~v.userActive) => v.watches > 0
      /\ v.hovered
  BY <1>1 DEF Good, Tray
<1>6. /\ t.blocked = tray.blocked /\ t.allowed = tray.allowed
      /\ t.unasked = tray.unasked /\ t.busy = tray.busy
      /\ t.fullscreen = tray.fullscreen
      /\ (t.wired /\ Expired(t)) => (tray.wired /\ Expired(tray))
  BY <1>1 DEF Tray, Expired
<1>7. Step({t}) \/ Step(UpdateState(v, FALSE))
  BY DEF Enter
<1> HIDE DEF t, v
<1>8. Good(t) /\ Ordered(t) /\ Good(v) /\ Ordered(v) /\ Stays(tray, v)
  BY <1>1, <1>2, <1>3, <1>4, <1>5, SameCore
<1>9. CASE Step({t})
  <2>1. Quiet(t, policy)
    BY <1>4, <1>6, SameQuiet
  <2>2. t.live = tray.live /\ t.queue = tray.queue /\ t.current = tray.current
    BY <1>4 DEF Core
  <2> QED
    BY <1>8, <1>9, <2>1, <2>2, EndsQuietly
<1>10. CASE Step(UpdateState(v, FALSE))
  BY <1>8, <1>10, EndsInUpdateState
<1> QED
  BY <1>7, <1>9, <1>10

LEMMA KeepUnfocusReply ==
  ASSUME IInv, UnfocusReply PROVE IInv' /\ Keeps(tray, tray')
<1> DEFINE t == [tray EXCEPT !.focused = FALSE]
<1>1. tray \in Tray /\ Good(tray) /\ Ordered(tray)
  BY DEF IInv, Good
<1>2. t \in Tray
  BY <1>1 DEF Tray
<1>3. Core(t) = Core(tray) /\ t.acked = tray.acked
  BY <1>1 DEF Tray, Core
<1>4. /\ tray.state = "HIDDEN" => ~t.pointerIn
      /\ (t.current # NoNotification /\ ~t.userActive) => t.watches > 0
      /\ (t.wired /\ t.pointerIn) => (t.hovered \/ t.leftTimer)
      /\ t.wired = tray.wired
  BY <1>1 DEF Good, Tray
<1>5. /\ t.blocked = tray.blocked /\ t.allowed = tray.allowed
      /\ t.unasked = tray.unasked /\ t.busy = tray.busy
      /\ t.fullscreen = tray.fullscreen
  BY <1>1 DEF Tray
<1>6. Step(IF tray.wired THEN UpdateState(t, FALSE) ELSE {t})
  BY DEF UnfocusReply
<1> HIDE DEF t
<1>7. Good(t) /\ Ordered(t) /\ Stays(tray, t)
  BY <1>1, <1>2, <1>3, <1>4, SameCore
<1>8. CASE tray.wired
  <2>1. Step(UpdateState(t, FALSE))
    BY <1>6, <1>8
  <2> QED
    BY <1>7, <2>1, EndsInUpdateState
<1>9. CASE ~tray.wired
  <2>1. Quiet(t, policy)
    BY <1>3, <1>4, <1>5, <1>9, SameQuiet
  <2>2. t.live = tray.live /\ t.queue = tray.queue /\ t.current = tray.current
    BY <1>3 DEF Core
  <2>3. Step({t})
    BY <1>6, <1>9
  <2> QED
    BY <1>7, <2>1, <2>2, <2>3, EndsQuietly
<1> QED
  BY <1>8, <1>9

LEMMA KeepAcknowledge ==
  ASSUME IInv, NEW n \in Notifications, Acknowledge(n)
  PROVE  IInv' /\ Keeps(tray, tray')
<1> DEFINE t == [tray EXCEPT !.acked = @ \cup {n}]
<1>1. tray \in Tray /\ Good(tray) /\ Ordered(tray)
  BY DEF IInv, Good
<1>2. t \in Tray
  BY <1>1 DEF Tray
<1>3. Core(t) = Core(tray)
  BY <1>1 DEF Tray, Core
<1>4. /\ t.pointerIn = tray.pointerIn /\ t.userActive = tray.userActive
      /\ t.watches = tray.watches /\ t.wired = tray.wired
      /\ t.hovered = tray.hovered /\ t.leftTimer = tray.leftTimer
  BY <1>1 DEF Tray
<1>5. /\ t.blocked = tray.blocked /\ t.allowed = tray.allowed
      /\ t.unasked = tray.unasked /\ t.busy = tray.busy
      /\ t.fullscreen = tray.fullscreen
      /\ (t.wired /\ Expired(t)) => (tray.wired /\ Expired(tray))
  BY <1>1 DEF Tray, Expired
<1>6. Step({t})
  BY DEF Acknowledge
<1> HIDE DEF t
<1>7. /\ t.live = tray.live /\ t.critical = tray.critical /\ t.queue = tray.queue
      /\ t.current = tray.current /\ t.state = tray.state /\ t.removed = tray.removed
      /\ t.unredirect = tray.unredirect /\ t.reordered = tray.reordered
  BY <1>3 DEF Core
<1>8. Good(t)
  BY <1>1, <1>2, <1>4, <1>7 DEF Good
<1>9. Ordered(t)
  BY <1>1, <1>7 DEF Ordered
<1>10. Quiet(t, policy)
  BY <1>3, <1>5, SameQuiet
<1> QED
  BY <1>6, <1>7, <1>8, <1>9, <1>10, EndsQuietly

LEMMA KeepSetPolicy ==
  ASSUME IInv, NEW s \in Sources, NEW p \in Policies, SetPolicy(s, p)
  PROVE  IInv' /\ Keeps(tray, tray')
<1>1. PICK u \in UpdateState(tray, FALSE) : tray' = u
  BY DEF SetPolicy
<1>2. Good(tray) /\ Ordered(tray) /\ Lists(listed, tray.live)
  BY DEF IInv
<1>3. /\ Good(u) /\ Fresh(u) /\ Keeps(tray, u) /\ Ordered(u)
      /\ u.live \subseteq tray.live
  BY <1>2, AfterUpdateState
<1>4. Quiet(u, policy')
  BY <1>3, FreshIsQuiet
<1>5. tray.live \subseteq Notifications
  BY <1>2 DEF Good, Tray
<1>6. Lists(Listed(u), u.live)
  <2>1. u.live \cap tray.live = u.live
    BY <1>3
  <2> QED
    BY <1>2, <1>5, <2>1, AfterListed
<1>7. policy' \in [Sources -> Policies]
  BY DEF IInv, SetPolicy
<1>8. listed' = Listed(u)
  BY <1>1 DEF SetPolicy
<1> QED
  BY <1>1, <1>3, <1>4, <1>6, <1>7, <1>8 DEF IInv

LEMMA EndsInOnDestroy ==
  ASSUME IInv, NEW t, Good(t), Ordered(t), Quiet(t, policy), Stays(tray, t),
         NEW n \in Notifications, Step(OnDestroy(t, n))
  PROVE  IInv' /\ Keeps(tray, tray')
<1>1. PICK u \in OnDestroy(t, n) : tray' = u
  BY DEF Step
<1>2. Good(u) /\ Stays(t, u) /\ Ordered(u) /\ Quiet(u, policy) /\ u.live = t.live \ {n}
  BY AfterOnDestroy
<1>3. Stays(tray, u)
  BY <1>2, StaysStays DEF IInv
<1>4. u.live \subseteq tray.live
  BY <1>3 DEF Stays
<1>5. IInv'
  BY <1>1, <1>2, <1>4, EndsIn DEF Step
<1> QED
  BY <1>1, <1>3, <1>5, StaysIsKeeps

LEMMA KeepDestroy ==
  ASSUME IInv, NEW n \in Notifications, Destroy(n)
  PROVE  IInv' /\ Keeps(tray, tray')
<1>1. Good(tray) /\ Ordered(tray) /\ Quiet(tray, policy) /\ Stays(tray, tray)
  BY DEF IInv, Stays
<1>2. Step(OnDestroy(tray, n))
  BY DEF Destroy
<1> QED
  BY <1>1, <1>2, EndsInOnDestroy

LEMMA KeepActivate ==
  ASSUME IInv, NEW n \in Notifications, Activate(n)
  PROVE  IInv' /\ Keeps(tray, tray')
<1> DEFINE t == [tray EXCEPT !.pointerIn = FALSE, !.timer = FALSE]
<1>1. tray \in Tray /\ Good(tray) /\ Ordered(tray) /\ Quiet(tray, policy)
  BY DEF IInv, Good
<1>2. tray.state # "HIDDEN"
  BY <1>1, TrayAssumption DEF Activate, Good
<1>3. PICK u \in IF tray.wired THEN UpdateState(t, FALSE) ELSE {tray} :
        Step(IF n \in Resident \/ n \notin u.live THEN {u} ELSE OnDestroy(u, n))
  BY DEF Activate
<1>4. Good(u) /\ Ordered(u) /\ Quiet(u, policy) /\ Stays(tray, u)
  <2>1. CASE tray.wired
    <3>1. t \in Tray
      BY <1>1 DEF Tray
    <3>2. Core(t) = Core(tray) /\ t.acked = tray.acked /\ t.state = tray.state
      BY <1>1 DEF Tray, Core
    <3>3. /\ ~t.pointerIn
          /\ (t.current # NoNotification /\ ~t.userActive) => t.watches > 0
      BY <1>1 DEF Good, Tray
    <3>4. u \in UpdateState(t, FALSE)
      BY <1>3, <2>1
    <3> HIDE DEF t
    <3>5. Good(t) /\ Ordered(t) /\ Stays(tray, t)
      BY <1>1, <3>1, <3>2, <3>3, SameCore
    <3>6. Good(u) /\ Fresh(u) /\ Ordered(u) /\ Stays(t, u)
      BY <1>2, <3>2, <3>4, <3>5, AfterUpdateState
    <3>7. Quiet(u, policy)
      BY <3>6, FreshIsQuiet
    <3>8. Stays(tray, u)
      BY <1>1, <3>5, <3>6, StaysStays
    <3> QED
      BY <3>6, <3>7, <3>8
  <2>2. CASE ~tray.wired
    <3>1. u = tray
      BY <1>3, <2>2
    <3> QED
      BY <1>1, <3>1 DEF Stays
  <2> QED
    BY <2>1, <2>2
<1>5. CASE n \in Resident \/ n \notin u.live
  <2>1. tray' = u /\ listed' = Listed(tray') /\ policy' = policy
    BY <1>3, <1>5 DEF Step
  <2>2. u.live \subseteq tray.live
    BY <1>4 DEF Stays
  <2>3. IInv'
    BY <1>4, <2>1, <2>2, EndsIn
  <2>4. Keeps(tray, u)
    BY <1>4, StaysIsKeeps
  <2> QED
    BY <2>1, <2>3, <2>4
<1>6. CASE ~(n \in Resident \/ n \notin u.live)
  <2>1. Step(OnDestroy(u, n))
    BY <1>3, <1>6
  <2> QED
    BY <1>4, <2>1, EndsInOnDestroy
<1> QED
  BY <1>5, <1>6

LEMMA KeepUpdate ==
  ASSUME IInv, NEW n \in Notifications, NEW isCritical \in BOOLEAN, Update(n, isCritical)
  PROVE  IInv' /\ Keeps(tray, tray')
<1> DEFINE critical == IF isCritical THEN tray.critical \cup {n} ELSE tray.critical \ {n}
           t == [tray EXCEPT !.acked = @ \ {n}, !.critical = critical]
<1>1. tray \in Tray /\ Good(tray) /\ Ordered(tray) /\ Quiet(tray, policy)
      /\ policy \in [Sources -> Policies]
  BY DEF IInv, Good
<1>2. PICK u \in Post(n, t) : Step({[u EXCEPT !.reordered =
                                       @ \/ Sorted(u.queue, u.critical) # u.queue]})
  BY DEF Update
<1>3. n \in tray.live
  BY DEF Update
<1>4. critical \in SUBSET Notifications
      /\ \A m \in Notifications : m # n => (m \in critical <=> m \in tray.critical)
  BY <1>1 DEF Tray
<1> HIDE DEF critical
<1>5. t \in Tray
  BY <1>1, <1>4 DEF Tray
<1>6. /\ t.live = tray.live /\ t.critical = critical /\ t.queue = tray.queue
      /\ t.current = tray.current /\ t.state = tray.state /\ t.removed = tray.removed
      /\ t.acked = tray.acked \ {n} /\ t.unredirect = tray.unredirect
      /\ t.reordered = tray.reordered
  BY <1>1 DEF Tray
<1>7. /\ t.pointerIn = tray.pointerIn /\ t.userActive = tray.userActive
      /\ t.watches = tray.watches /\ t.wired = tray.wired /\ t.timer = tray.timer
      /\ t.hovered = tray.hovered /\ t.leftTimer = tray.leftTimer
      /\ t.focused = tray.focused
  BY <1>1 DEF Tray
<1>8. /\ t.blocked = tray.blocked /\ t.allowed = tray.allowed
      /\ t.unasked = tray.unasked /\ t.busy = tray.busy
      /\ t.fullscreen = tray.fullscreen
  BY <1>1 DEF Tray
<1> HIDE DEF t
<1>9. Good(t)
  BY <1>1, <1>5, <1>6, <1>7 DEF Good
<1>10. /\ Good(u) /\ Keeps(t, u)
       /\ \/ Fresh(u)
          \/ /\ u = t
             /\ \/ policy[SourceOf[n]] = "off"
                \/ policy[SourceOf[n]] = "list" /\ n \notin t.critical
       /\ u.live \subseteq t.live
  BY <1>1, <1>2, <1>3, <1>6, <1>9, AfterPost
<1> DEFINE unsorted == Sorted(u.queue, u.critical) # u.queue
           reordered == u.reordered \/ unsorted
           w == [u EXCEPT !.reordered = reordered]
<1>11. u \in Tray
  BY <1>10 DEF Good
<1>12. reordered \in BOOLEAN
  BY <1>11 DEF Tray
<1>13. Step({w})
  <2>1. [u EXCEPT !.reordered = @ \/ unsorted] = w
    BY <1>11 DEF Tray
  <2> QED
    BY <1>2, <2>1
<1> HIDE DEF unsorted, reordered
<1>14. w \in Tray /\ w.reordered = reordered
  BY <1>11, <1>12 DEF Tray
<1>15. /\ w.live = u.live /\ w.critical = u.critical /\ w.queue = u.queue
       /\ w.current = u.current /\ w.state = u.state /\ w.removed = u.removed
       /\ w.acked = u.acked /\ w.unredirect = u.unredirect
  BY <1>11 DEF Tray
<1>16. /\ w.pointerIn = u.pointerIn /\ w.userActive = u.userActive
       /\ w.watches = u.watches /\ w.wired = u.wired /\ w.timer = u.timer
       /\ w.hovered = u.hovered /\ w.leftTimer = u.leftTimer
       /\ w.focused = u.focused
  BY <1>11 DEF Tray
<1>17. /\ w.blocked = u.blocked /\ w.allowed = u.allowed
       /\ w.unasked = u.unasked /\ w.busy = u.busy
       /\ w.fullscreen = u.fullscreen
  BY <1>11 DEF Tray
<1> HIDE DEF w
<1>18. Good(w)
  BY <1>10, <1>14, <1>15, <1>16 DEF Good
<1>19. Ordered(w)
  <2> SUFFICES ASSUME ~reordered PROVE CriticalFirst(u.queue, u.critical)
    BY <1>14, <1>15 DEF Ordered
  <2>1. u.queue \in Seq(Notifications) /\ u.critical \in SUBSET Notifications
    BY <1>11 DEF Tray
  <2>2. ToSet(u.queue) \subseteq Notifications
    BY <2>1, InToSet
  <2>3. CriticalFirst(Sorted(u.queue, u.critical), u.critical)
    BY <2>1, <2>2, SortedQueue
  <2>4. Sorted(u.queue, u.critical) = u.queue
    BY DEF reordered, unsorted
  <2> QED
    BY <2>3, <2>4
<1>20. Expired(w) = Expired(u) /\ Showable(w) = Showable(u)
  BY <1>15, <1>16, <1>17 DEF Expired, Showable, Limited
<1>21. Quiet(w, policy)
  <2>1. CASE Fresh(u)
    <3>1. Fresh(w)
      BY <1>15, <1>17, <1>20, <2>1 DEF Fresh
    <3> QED
      BY <1>18, <1>19, <3>1, FreshIsQuiet
  <2>2. CASE /\ u = t
             /\ \/ policy[SourceOf[n]] = "off"
                \/ policy[SourceOf[n]] = "list" /\ n \notin t.critical
    <3>1. /\ w.queue = tray.queue /\ w.state = tray.state /\ w.removed = tray.removed
          /\ w.current = tray.current /\ w.wired = tray.wired
          /\ w.blocked = tray.blocked /\ w.allowed = tray.allowed
          /\ w.unasked = tray.unasked /\ w.critical = critical
      BY <1>6, <1>7, <1>8, <1>15, <1>16, <1>17, <2>2
    <3>2. w.reordered \/ ~tray.reordered
      BY <1>6, <1>14, <2>2 DEF reordered
    <3>3. tray.queue \in Seq(Notifications) /\ ToSet(tray.queue) \subseteq Notifications
      <4>1. tray.queue \in Seq(Notifications)
        BY <1>1 DEF Tray
      <4> QED
        BY <4>1, InToSet
    <3>4. ASSUME Showable(w)
          PROVE  policy[SourceOf[Head(tray.queue)]] = "off" \/ Showable(tray)
      <4>1. /\ tray.allowed /\ tray.queue # <<>>
            /\ ~Limited(tray) \/ Head(tray.queue) \in Feedback \cup critical
        BY <1>8, <1>17, <2>2, <3>1, <3>4 DEF Showable, Limited
      <4>2. Head(tray.queue) \in Notifications
        BY <3>3, <4>1
      <4>3. CASE Head(tray.queue) # n
        <5>1. Head(tray.queue) \in critical => Head(tray.queue) \in tray.critical
          BY <1>4, <4>2, <4>3
        <5> QED
          BY <4>1, <5>1 DEF Showable
      <4>4. CASE Head(tray.queue) = n /\ policy[SourceOf[n]] # "off"
        <5>1. n \notin critical
          BY <1>6, <2>2, <4>4
        <5> QED
          BY <4>1, <4>4, <5>1 DEF Showable
      <4> QED
        BY <4>3, <4>4
    <3>5. ASSUME ~tray.reordered, tray.state = "HIDDEN", ~tray.blocked, ~tray.unasked,
                 tray.allowed, NEW m \in ToSet(tray.queue) \cap critical
          PROVE  policy[SourceOf[m]] = "off"
      <4>1. CASE m = n
        BY <1>6, <2>2, <3>5, <4>1
      <4>2. CASE m # n
        <5>1. m \in tray.critical
          BY <1>4, <3>3, <3>5, <4>2
        <5> QED
          BY <1>1, <3>5, <5>1 DEF Quiet
      <4> QED
        BY <4>1, <4>2
    <3>6. ASSUME policy[SourceOf[tray.current]] = "banners", tray.current # NoNotification,
                 Expired(w)
          PROVE  Expired(tray)
      <4>1. tray.current # n /\ tray.current \in Notifications
        BY <1>1, <2>2, <3>6 DEF Tray
      <4>2. tray.current \in critical <=> tray.current \in tray.critical
        BY <1>4, <4>1
      <4>3. /\ w.userActive = tray.userActive /\ w.timer = tray.timer
            /\ w.focused = tray.focused /\ w.pointerIn = tray.pointerIn
        BY <1>7, <1>16, <2>2
      <4> QED
        BY <3>1, <3>6, <4>2, <4>3 DEF Expired
    <3>7. tray.state = "SHOWN" => tray.current # NoNotification
      BY <1>1 DEF Good
    <3>8. ~tray.blocked => (tray.state = "SHOWN" => tray.allowed /\ ~tray.removed)
      BY <1>1 DEF Quiet
    <3>9. ASSUME ~tray.blocked, tray.state = "HIDDEN", ~tray.unasked, Showable(w)
          PROVE  policy[SourceOf[Head(tray.queue)]] = "off"
      BY <1>1, <3>4, <3>9 DEF Quiet
    <3>10. ASSUME ~tray.blocked, tray.state = "SHOWN", tray.wired,
                  policy[SourceOf[tray.current]] = "banners"
           PROVE  ~Expired(w)
      BY <1>1, <3>6, <3>7, <3>10 DEF Quiet
    <3> QED
      BY <3>1, <3>2, <3>5, <3>8, <3>9, <3>10 DEF Quiet
  <2> QED
    BY <1>10, <2>1, <2>2
<1>22. w.live \subseteq tray.live
  BY <1>6, <1>10, <1>15
<1>23. tray' = w /\ listed' = Listed(tray') /\ policy' = policy
  BY <1>13 DEF Step
<1>24. IInv'
  BY <1>18, <1>19, <1>21, <1>22, <1>23, EndsIn
<1>25. Keeps(tray, w)
  BY <1>6, <1>10, <1>15 DEF Keeps
<1> QED
  BY <1>23, <1>24, <1>25

LEMMA KeepNotify ==
  ASSUME IInv, NEW n \in Notifications, NEW isCritical \in BOOLEAN, Notify(n, isCritical)
  PROVE  IInv' /\ Keeps(tray, tray')
<1> DEFINE s == SourceOf[n]
           critical == IF isCritical THEN tray.critical \cup {n} ELSE tray.critical \ {n}
           t == [tray EXCEPT !.acked = @ \ {n}, !.live = @ \cup {n}, !.critical = critical]
<1>1. tray \in Tray /\ Good(tray) /\ Ordered(tray) /\ Quiet(tray, policy)
      /\ policy \in [Sources -> Policies] /\ Lists(listed, tray.live)
  BY DEF IInv, Good
<1>2. n \notin tray.live /\ tray.current # n /\ n \notin ToSet(tray.queue)
      /\ policy' = policy
  BY DEF Notify
<1>3. PICK u \in IF Len(listed[s]) >= MaxPerSource THEN OnDestroy(t, Head(listed[s]))
                                                  ELSE {t} :
        /\ tray' \in Post(n, u)
        /\ listed' = [Listed(u) EXCEPT ![s] = Append(@, n)]
  <2>1. t = [tray EXCEPT !.acked = @ \ {n}, !.live = @ \cup {n},
                         !.critical = IF isCritical THEN @ \cup {n} ELSE @ \ {n}]
    BY <1>1 DEF Tray
  <2> HIDE DEF t
  <2> QED
    BY <2>1 DEF Notify
<1>4. critical \in SUBSET Notifications
      /\ \A m \in Notifications : m # n => (m \in critical <=> m \in tray.critical)
  BY <1>1 DEF Tray
<1> HIDE DEF critical
<1>5. t \in Tray
  BY <1>1, <1>4 DEF Tray
<1>6. /\ t.live = tray.live \cup {n} /\ t.critical = critical /\ t.queue = tray.queue
      /\ t.current = tray.current /\ t.state = tray.state /\ t.removed = tray.removed
      /\ t.acked = tray.acked \ {n} /\ t.unredirect = tray.unredirect
      /\ t.reordered = tray.reordered
  BY <1>1 DEF Tray
<1>7. /\ t.pointerIn = tray.pointerIn /\ t.userActive = tray.userActive
      /\ t.watches = tray.watches /\ t.wired = tray.wired /\ t.timer = tray.timer
      /\ t.hovered = tray.hovered /\ t.leftTimer = tray.leftTimer
      /\ t.focused = tray.focused
  BY <1>1 DEF Tray
<1>8. /\ t.blocked = tray.blocked /\ t.allowed = tray.allowed
      /\ t.unasked = tray.unasked /\ t.busy = tray.busy
      /\ t.fullscreen = tray.fullscreen
  BY <1>1 DEF Tray
<1> HIDE DEF t
<1>9. tray.queue \in Seq(Notifications) /\ ToSet(tray.queue) \subseteq Notifications \ {n}
  <2>1. tray.queue \in Seq(Notifications)
    BY <1>1 DEF Tray
  <2> QED
    BY <1>2, <2>1, InToSet
<1>10. Good(t)
  <2>1. t.removed => t.current \notin t.live
    BY <1>1, <1>2, <1>6 DEF Good
  <2>2. ToSet(t.queue) \subseteq t.live \ {t.current}
    BY <1>1, <1>6 DEF Good
  <2> QED
    BY <1>1, <1>5, <1>6, <1>7, <2>1, <2>2 DEF Good
<1>11. Ordered(t)
  <2> SUFFICES ASSUME ~tray.reordered,
                      NEW i \in DOMAIN tray.queue, NEW j \in DOMAIN tray.queue,
                      i < j, tray.queue[j] \in critical
               PROVE  tray.queue[i] \in critical
    BY <1>6 DEF Ordered, CriticalFirst
  <2>1. tray.queue[i] \in Notifications \ {n} /\ tray.queue[j] \in Notifications \ {n}
    BY <1>9, Zenon DEF ToSet
  <2>2. tray.queue[j] \in tray.critical
    BY <1>4, <2>1
  <2>3. tray.queue[i] \in tray.critical
    BY <1>1, <2>2 DEF Ordered, CriticalFirst
  <2> QED
    BY <1>4, <2>1, <2>3
<1>12. Quiet(t, policy)
  <2>1. Showable(t) => Showable(tray)
    <3>1. tray.queue # <<>> => Head(tray.queue) \in ToSet(tray.queue)
      <4>1. Once(tray.queue)
        BY <1>1 DEF Good
      <4> QED
        BY <1>9, <4>1, HeadAndTail
    <3>2. tray.queue # <<>> =>
            (Head(tray.queue) \in critical <=> Head(tray.queue) \in tray.critical)
      BY <1>4, <1>9, <3>1
    <3> QED
      BY <1>6, <1>8, <3>2 DEF Showable, Limited
  <2>2. tray.current \in Notifications => (Expired(t) => Expired(tray))
    <3>1. tray.current \in Notifications =>
            (tray.current \in critical <=> tray.current \in tray.critical)
      BY <1>2, <1>4
    <3> QED
      BY <1>6, <1>7, <3>1 DEF Expired
  <2>3. tray.state = "SHOWN" => tray.current \in Notifications
    BY <1>1 DEF Good, Tray
  <2>4. ToSet(t.queue) \cap t.critical = ToSet(tray.queue) \cap tray.critical
    BY <1>4, <1>6, <1>9
  <2> QED
    BY <1>1, <1>6, <1>7, <1>8, <2>1, <2>2, <2>3, <2>4 DEF Quiet
<1>13. s \in Sources /\ listed[s] \in Seq(Notifications) /\ Once(listed[s])
       /\ Len(listed[s]) <= MaxPerSource
       /\ ToSet(listed[s]) = {m \in tray.live : SourceOf[m] = s}
  BY <1>1, TrayAssumption DEF Lists, Exact
<1>14. Len(listed[s]) \in Nat /\ MaxPerSource \in Nat /\ MaxPerSource > 0
  BY <1>13, TrayAssumption
<1>15. /\ Good(u) /\ Ordered(u) /\ Quiet(u, policy) /\ Stays(t, u)
       /\ n \in u.live /\ u.live \subseteq tray.live \cup {n}
       /\ Len(Only(listed[s], u.live)) < MaxPerSource
  <2>1. CASE Len(listed[s]) >= MaxPerSource
    <3> DEFINE h == Head(listed[s])
    <3>1. u \in OnDestroy(t, h)
      BY <1>3, <2>1
    <3>2. listed[s] # <<>>
      <4>1. Len(listed[s]) # 0
        BY <1>14, <2>1, SMT
      <4>2. Len(<<>>) = 0
        OBVIOUS
      <4> QED
        BY <4>1, <4>2, Zenon
    <3>3. h \in Notifications /\ h \in ToSet(listed[s])
      BY <1>13, <3>2, HeadAndTail
    <3>4. h # n
      BY <1>2, <1>13, <3>3
    <3> HIDE DEF h
    <3>5. Good(u) /\ Ordered(u) /\ Quiet(u, policy) /\ Stays(t, u) /\ u.live = t.live \ {h}
      BY <1>10, <1>11, <1>12, <3>1, <3>3, AfterOnDestroy
    <3>6. h \notin u.live
      BY <3>5
    <3>7. Len(Only(listed[s], u.live)) < Len(listed[s])
      BY <1>13, <3>3, <3>6, OnlyShorter
    <3>8. Len(Only(listed[s], u.live)) \in Nat
      BY <1>13, OnlyChooses
    <3>9. Len(Only(listed[s], u.live)) < MaxPerSource
      BY <1>13, <1>14, <3>7, <3>8, SMT
    <3> QED
      BY <1>6, <3>4, <3>5, <3>9
  <2>2. CASE ~(Len(listed[s]) >= MaxPerSource)
    <3>1. u = t
      BY <1>3, <2>2
    <3>2. Stays(t, t)
      BY DEF Stays
    <3>3. Len(Only(listed[s], u.live)) \in Nat
          /\ Len(Only(listed[s], u.live)) <= Len(listed[s])
      BY <1>13, OnlyChooses, OnlyShorter
    <3>4. Len(Only(listed[s], u.live)) < MaxPerSource
      BY <1>14, <2>2, <3>3, SMT
    <3> QED
      BY <1>6, <1>10, <1>11, <1>12, <3>1, <3>2, <3>4
  <2> QED
    BY <2>1, <2>2
<1>16. PICK v \in Post(n, u) : tray' = v
  BY <1>3
<1>17. /\ Good(v) /\ Keeps(u, v) /\ Ordered(v)
       /\ Fresh(v) \/ v = u
       /\ v.live \subseteq u.live
       /\ (u.state = "SHOWN" /\ ~u.blocked => u.allowed \/ u.removed) => v.live = u.live
  BY <1>1, <1>15, AfterPost
<1>18. v.live = u.live
  BY <1>15, <1>17 DEF Quiet
<1>19. Quiet(v, policy)
  BY <1>15, <1>17, FreshIsQuiet
<1>20. Lists(listed', v.live)
  <2> DEFINE lists == Listed(u)
             live == u.live \cap tray.live
  <2>1. Lists(lists, live)
    <3>1. tray.live \subseteq Notifications
      BY <1>1 DEF Tray
    <3> QED
      BY <1>1, <3>1, AfterListed
  <2>2. lists[s] = Only(listed[s], u.live)
    BY <1>13 DEF Listed
  <2>3. n \notin live /\ live \cup {n} = v.live
    BY <1>2, <1>15, <1>18
  <2>4. listed' = [lists EXCEPT ![s] = Append(@, n)]
    BY <1>3
  <2> HIDE DEF lists, live
  <2>5. Len(lists[s]) < MaxPerSource
    BY <1>15, <2>2
  <2>6. Lists([lists EXCEPT ![s] = Append(@, n)], live \cup {n})
    BY <2>1, <2>3, <2>5, AfterAppended
  <2> QED
    BY <2>3, <2>4, <2>6
<1>21. IInv'
  BY <1>1, <1>2, <1>16, <1>17, <1>19, <1>20 DEF IInv
<1>22. Keeps(t, v)
  BY <1>10, <1>15, <1>17, StaysKeeps
<1>23. Keeps(tray, v)
  BY <1>6, <1>22 DEF Keeps
<1> QED
  BY <1>16, <1>21, <1>23

-----------------------------------------------------------------------------
(* The invariant, and what it says.                                          *)

LEMMA InitInvariant == Init => IInv
<1> SUFFICES ASSUME Init PROVE IInv
  OBVIOUS
<1>1. /\ tray.live = {} /\ tray.critical = {} /\ tray.acked = {} /\ tray.queue = <<>>
      /\ tray.current = NoNotification /\ tray.state = "HIDDEN" /\ ~tray.removed
      /\ tray.unredirect = 0 /\ ~tray.pointerIn /\ tray.allowed /\ ~tray.blocked
  BY DEF Init
<1>2. tray \in Tray
  <2>1. 0 \in 0 .. MaxWatches /\ 0 \in Int
    BY TrayAssumption
  <2>2. <<>> \in Seq(Notifications)
    OBVIOUS
  <2> QED
    BY <2>1, <2>2 DEF Init, Tray, States
<1>3. ToSet(<<>>) = {} /\ Once(<<>>) /\ \A c : CriticalFirst(<<>>, c)
  BY DEF ToSet, Once, CriticalFirst
<1>4. Good(tray)
  BY <1>1, <1>2, <1>3 DEF Good
<1>5. Ordered(tray)
  BY <1>1, <1>3 DEF Ordered
<1>6. Quiet(tray, policy)
  BY <1>1, <1>3 DEF Quiet, Showable
<1>7. Lists(listed, tray.live)
  <2>1. Len(<<>>) = 0 /\ 0 <= MaxPerSource /\ <<>> \in Seq(Notifications)
    BY TrayAssumption
  <2>2. \A s \in Sources : listed[s] = <<>>
    BY DEF Init
  <2>3. listed \in [Sources -> Seq(Notifications)]
    BY <2>1 DEF Init
  <2> QED
    BY <1>1, <1>3, <2>1, <2>2, <2>3 DEF Lists, Exact
<1>8. policy \in [Sources -> Policies]
  BY DEF Init
<1> QED
  BY <1>4, <1>5, <1>6, <1>7, <1>8 DEF IInv

LEMMA NextInvariant == IInv /\ Next => IInv' /\ Keeps(tray, tray')
<1> SUFFICES ASSUME IInv, Next PROVE IInv' /\ Keeps(tray, tray')
  OBVIOUS
<1>1. ASSUME NEW n \in Notifications, NEW c \in BOOLEAN, Notify(n, c)
      PROVE  IInv' /\ Keeps(tray, tray')
  BY <1>1, KeepNotify
<1>2. ASSUME NEW n \in Notifications, NEW c \in BOOLEAN, Update(n, c)
      PROVE  IInv' /\ Keeps(tray, tray')
  BY <1>2, KeepUpdate
<1>3. ASSUME NEW n \in Notifications, Destroy(n) \/ Activate(n) \/ Acknowledge(n)
      PROVE  IInv' /\ Keeps(tray, tray')
  BY <1>3, KeepDestroy, KeepActivate, KeepAcknowledge
<1>4. CASE ShowDone \/ HideDone \/ Timeout \/ UserActive
  BY <1>4, KeepShowDone, KeepHideDone, KeepTimeout, KeepUserActive
<1>5. CASE Enter \/ Leave \/ LeftTimeout \/ Escape \/ FocusReply \/ UnfocusReply
  BY <1>5, KeepEnter, KeepLeave, KeepLeftTimeout, KeepEscape, KeepFocusReply,
     KeepUnfocusReply
<1>6. ASSUME NEW b \in BOOLEAN,
             SetBusy(b) \/ SetFullscreen(b) \/ SetBlocked(b) \/ SetAllowed(b)
      PROVE  IInv' /\ Keeps(tray, tray')
  BY <1>6, KeepSetBusy, KeepSetFullscreen, KeepSetBlocked, KeepSetAllowed
<1>7. ASSUME NEW s \in Sources, NEW p \in Policies, SetPolicy(s, p)
      PROVE  IInv' /\ Keeps(tray, tray')
  BY <1>7, KeepSetPolicy
<1> QED
  BY <1>1, <1>2, <1>3, <1>4, <1>5, <1>6, <1>7 DEF Next

LEMMA StutterInvariant == IInv /\ UNCHANGED vars => IInv'
BY DEF vars, IInv, Good, Ordered, Quiet, Lists, Exact, Showable, Limited, Expired, Once,
       CriticalFirst

\* The tray is sound, whatever is notified, updated, closed, blocked or limited:
\* the invariant the other theorems follow from.
THEOREM Soundness == Spec => []IInv
<1>1. Init => IInv
  BY InitInvariant
<1>2. IInv /\ [Next]_vars => IInv'
  BY NextInvariant, StutterInvariant
<1> QED
  BY <1>1, <1>2, PTL DEF Spec

\* Every field of the tray, every list and every policy keeps its type.
THEOREM TypeCorrect == Spec => []TypeOK
<1>1. IInv => TypeOK
  BY DEF IInv, Good, Lists, TypeOK
<1> QED
  BY <1>1, Soundness, PTL

\* Banner, queue, unredirection and the sources' lists agree after every handler.
THEOREM BannersAreConsistent == Spec => []BannerConsistent
<1>1. IInv => BannerConsistent
  <2> SUFFICES ASSUME IInv PROVE BannerConsistent
    OBVIOUS
  <2>1. ListsExact
    <3> SUFFICES ASSUME NEW s \in Sources
                 PROVE  /\ Len(listed[s]) <= MaxPerSource
                        /\ Len(listed[s]) = Cardinality(ToSet(listed[s]))
                        /\ ToSet(listed[s]) = {n \in tray.live : SourceOf[n] = s}
      BY DEF ListsExact
    <3>1. /\ listed[s] \in Seq(Notifications) /\ Once(listed[s])
          /\ Len(listed[s]) <= MaxPerSource
          /\ ToSet(listed[s]) = {n \in tray.live : SourceOf[n] = s}
      BY DEF IInv, Lists, Exact
    <3> QED
      BY <3>1, OnceCounts
  <2> QED
    BY <2>1, Zenon DEF IInv, Good, Once, BannerConsistent
<1> QED
  BY <1>1, Soundness, PTL

\* No notification that could have its banner waits for an event that may not come,
\* but for what a destruction left behind.
THEOREM NothingIsLeftUndone == Spec => []NothingLeftUndoneButByDestruction
<1>1. IInv => NothingLeftUndoneButByDestruction
  BY DEF IInv, Quiet, NothingLeftUndoneButByDestruction, NothingLeftUndone
<1> QED
  BY <1>1, Soundness, PTL

\* While the queue is sorted a critical notification is never kept back.
THEOREM CriticalNotKeptBack == Spec => []CriticalComesUp
<1>1. IInv => CriticalComesUp
  BY DEF IInv, Quiet, CriticalComesUp
<1> QED
  BY <1>1, Soundness, PTL

\* A banner that was not brought back while it was being hidden has a way out.
THEOREM BannersAutoHide == Spec => []AutoHidesUnlessBroughtBack
<1>1. IInv => AutoHidesUnlessBroughtBack
  <2> SUFFICES ASSUME IInv, tray.wired, tray.state = "SHOWN", ~tray.blocked,
                      tray.current \notin tray.critical,
                      policy[SourceOf[tray.current]] = "banners"
               PROVE  WayOut
    BY DEF AutoHidesUnlessBroughtBack, AlwaysAutoHides
  <2>1. ~Expired(tray)
    BY DEF IInv, Quiet
  <2>2. tray.current # NoNotification
    BY DEF IInv, Good
  <2>3. ~tray.userActive => tray.watches > 0
    BY <2>2 DEF IInv, Good
  <2>4. tray.pointerIn => tray.hovered \/ tray.leftTimer
    BY DEF IInv, Good
  <2> QED
    BY <2>1, <2>3, <2>4 DEF Expired, WayOut
<1> QED
  BY <1>1, Soundness, PTL

\* No handler loses a notification that waits, or leaves a transient one behind.
THEOREM NothingIsLost == Spec => NeverLost
<1>1. IInv /\ [Next]_vars =>
        [\A n \in Notifications :
           /\ (n \in ToSet(tray.queue) /\ n \notin ToSet(tray'.queue))
                 => (tray'.current = n \/ n \in tray.acked \/ n \notin tray'.live)
           /\ (tray.current = n /\ tray'.current # n /\ n \in Transient)
                 => n \notin tray'.live]_vars
  BY NextInvariant DEF Keeps
<1> QED
  BY <1>1, Soundness, PTL DEF Spec, NeverLost

=============================================================================
