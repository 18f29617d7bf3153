--------------------------- MODULE PageCacheProofs ---------------------------
(***************************************************************************)
(* Proofs about the page cache, for every file, cache size, set of tasks   *)
(* and write-back budget: nothing but a write changes what a read returns, *)
(* and below the critical mark a clean page is on disk and what is mapped  *)
(* writable is dirty.                                                      *)
(***************************************************************************)
EXTENDS PageCache, FiniteSetTheorems, LoopLemmas

-----------------------------------------------------------------------------
\* Sequences of pages, each at most once.

PageSeq(s) == s \in Seq(FPage) /\ IsInjective(s)

\* k holds the pages of S among the first n of s, in their order.
Sifted(s, S, k, n) ==
    /\ PageSeq(k)
    /\ \A x \in FPage : x \in Range(k) <=> (x \in S /\ \E i \in 1 .. n : s[i] = x)

LEMMA RangeIs ==
    ASSUME NEW s \in Seq(FPage)
    PROVE  /\ Range(s) \subseteq FPage
           /\ \A x : x \in Range(s) <=> \E i \in 1 .. Len(s) : s[i] = x
<1>1. DOMAIN s = 1 .. Len(s) /\ \A i \in 1 .. Len(s) : s[i] \in FPage
  OBVIOUS
<1> QED BY <1>1, Zenon DEF Range

LEMMA AppendIs ==
    ASSUME NEW k, PageSeq(k), NEW e \in FPage, e \notin Range(k)
    PROVE  /\ PageSeq(Append(k, e))
           /\ \A x \in FPage : x \in Range(Append(k, e)) <=> (x \in Range(k) \/ x = e)
<1> DEFINE a == Append(k, e)
<1>1. /\ k \in Seq(FPage) /\ a \in Seq(FPage) /\ Len(a) = Len(k) + 1
      /\ \A i \in 1 .. Len(k) : a[i] = k[i]
      /\ a[Len(k) + 1] = e /\ Len(k) \in Nat
      /\ DOMAIN k = 1 .. Len(k) /\ DOMAIN a = 1 .. Len(k) + 1
  BY DEF PageSeq
<1>2. \A i \in 1 .. Len(k) : k[i] # e
  BY <1>1, RangeIs
<1>3. \A i, j \in 1 .. Len(k) : k[i] = k[j] => i = j
  BY <1>1, Zenon DEF PageSeq, IsInjective
<1> HIDE DEF a
<1>4. \A i, j \in 1 .. Len(k) + 1 : a[i] = a[j] => i = j
  BY <1>1, <1>2, <1>3
<1>5. IsInjective(a)
  BY <1>1, <1>4, Zenon DEF IsInjective
<1>6. \A x \in FPage : x \in Range(a) <=> (x \in Range(k) \/ x = e)
  <2> TAKE x \in FPage
  <2>1. x \in Range(a) <=> \E i \in 1 .. Len(k) + 1 : a[i] = x
    BY <1>1, RangeIs
  <2>2. x \in Range(k) <=> \E i \in 1 .. Len(k) : k[i] = x
    BY <1>1, RangeIs
  <2> QED BY <1>1, <2>1, <2>2
<1> QED BY <1>1, <1>5, <1>6 DEF PageSeq, a

LEMMA SiftedStep ==
    ASSUME NEW s, PageSeq(s), NEW S, NEW n \in 0 .. Len(s) - 1, NEW k, Sifted(s, S, k, n)
    PROVE  Sifted(s, S, IF s[n + 1] \in S THEN Append(k, s[n + 1]) ELSE k, n + 1)
<1> DEFINE e == s[n + 1]
<1>1. /\ s \in Seq(FPage) /\ Len(s) \in Nat /\ n + 1 \in 1 .. Len(s) /\ e \in FPage
      /\ DOMAIN s = 1 .. Len(s)
      /\ 1 .. n \subseteq 1 .. Len(s) /\ \A i \in 1 .. n : i # n + 1
      /\ \A i : i \in 1 .. n + 1 <=> (i \in 1 .. n \/ i = n + 1)
  BY DEF PageSeq
<1>2. \A i \in 1 .. n : s[i] # e
  BY <1>1, Zenon DEF PageSeq, IsInjective
<1>3. \A x \in FPage : (\E i \in 1 .. n + 1 : s[i] = x) <=> (x = e \/ \E i \in 1 .. n : s[i] = x)
  BY <1>1, Zenon
<1>4. PageSeq(k) /\ e \notin Range(k)
  BY <1>1, <1>2, Zenon DEF Sifted
<1> HIDE DEF e
<1>5. CASE e \in S
  <2>1. /\ PageSeq(Append(k, e))
        /\ \A x \in FPage : x \in Range(Append(k, e)) <=> (x \in Range(k) \/ x = e)
    BY <1>1, <1>4, AppendIs, Zenon
  <2>2. \A x \in FPage : x \in Range(Append(k, e)) <=> (x \in S /\ \E i \in 1 .. n + 1 : s[i] = x)
    BY <1>3, <1>5, <2>1, Zenon DEF Sifted
  <2>3. Sifted(s, S, Append(k, e), n + 1)
    BY <2>1, <2>2, Zenon DEF Sifted
  <2> QED BY <1>5, <2>3, Zenon DEF e
<1>6. CASE e \notin S
  BY <1>3, <1>6, Zenon DEF Sifted, e
<1> QED BY <1>5, <1>6, Zenon

\* Keep(s, S) has the pages of s that are in S, each once; and if the last page of s
\* is in S it is the last of them.
LEMMA KeepIs ==
    ASSUME NEW s, PageSeq(s), NEW S
    PROVE  /\ PageSeq(Keep(s, S))
           /\ Range(Keep(s, S)) = Range(s) \cap S
           /\ Len(s) > 0 /\ s[Len(s)] \in S =>
                \E k \in Seq(FPage) : Keep(s, S) = Append(k, s[Len(s)])
<1> DEFINE N == Len(s)
           F(k, n) == IF s[n] \in S THEN Append(k, s[n]) ELSE k
           X == [n \in 0 .. N |-> {k \in Seq(FPage) : Sifted(s, S, k, n)}]
           D == [n \in 0 .. N - 1 |-> [k \in X[n] |-> F(k, n + 1)]]
           kept == CHOOSE g : g = [n \in 0 .. N |->
                                     IF n = 0 THEN <<>>
                                     ELSE IF s[n] \in S THEN Append(g[n - 1], s[n]) ELSE g[n - 1]]
<1>0. /\ N \in Nat /\ s \in Seq(FPage)
      /\ \A n \in 0 .. N - 1 : n + 1 \in 0 .. N /\ n \in 0 .. N /\ n + 1 \in 1 .. N
  BY DEF PageSeq
<1>1. <<>> \in X[0]
  <2>1. <<>> \in Seq(FPage) /\ DOMAIN <<>> = {} /\ Range(<<>>) = {}
    BY DEF Range
  <2>2. PageSeq(<<>>)
    BY <2>1, Zenon DEF PageSeq, IsInjective
  <2>3. ~\E i \in 1 .. 0 : TRUE
    OBVIOUS
  <2>4. Sifted(s, S, <<>>, 0)
    BY <2>1, <2>2, <2>3, Zenon DEF Sifted
  <2> QED BY <1>0, <2>1, <2>4
<1>2. ASSUME NEW n \in 0 .. N - 1, NEW k \in X[n]
      PROVE  F(k, n + 1) \in X[n + 1]
  <2>1. Sifted(s, S, k, n)
    BY <1>0, Zenon
  <2>2. Sifted(s, S, F(k, n + 1), n + 1)
    BY <2>1, SiftedStep
  <2>3. F(k, n + 1) \in Seq(FPage)
    BY <2>2, Zenon DEF Sifted, PageSeq
  <2> QED BY <1>0, <2>2, <2>3, Zenon
<1>3. \E g : g = [n \in 0 .. N |-> IF n = 0 THEN <<>> ELSE F(g[n - 1], n)]
  <2> HIDE DEF X, F
  <2>1. \A n \in 0 .. N - 1 : \A k \in X[n] : D[n][k] = F(k, n + 1) /\ D[n][k] \in X[n + 1]
    BY <1>0, <1>2, Zenon
  <2> HIDE DEF D, N
  <2>2. PICK g : Run(g, X, D, <<>>, N)
    BY <1>0, <1>1, <2>1, LoopRuns, Zenon
  <2>3. ASSUME NEW n \in 0 .. N, n # 0
        PROVE  D[n - 1][g[n - 1]] = F(g[n - 1], n)
    <3>1. n - 1 \in 0 .. N - 1 /\ n - 1 \in 0 .. N /\ (n - 1) + 1 = n
      BY <1>0, <2>3
    <3>2. D[n - 1][g[n - 1]] = F(g[n - 1], (n - 1) + 1)
      BY <2>1, <2>2, <3>1, Zenon DEF Run
    <3> QED BY <3>1, <3>2, Zenon
  <2>4. g = [n \in 0 .. N |-> IF n = 0 THEN <<>> ELSE F(g[n - 1], n)]
    BY <2>2, <2>3, Zenon DEF Run
  <2> QED BY <2>4, Zenon
<1>4. kept = [n \in 0 .. N |-> IF n = 0 THEN <<>> ELSE F(kept[n - 1], n)]
  BY <1>3, Zenon
<1>5. Keep(s, S) = kept[N]
  BY DEF Keep
<1> HIDE DEF kept, X, D, F, N
<1>6. kept[0] \in X[0]
  BY <1>0, <1>1, <1>4
<1>7. ASSUME NEW n \in 0 .. N - 1, kept[n] \in X[n]
      PROVE  kept[n + 1] \in X[n + 1]
  <2>1. kept[n + 1] = F(kept[n], n + 1)
    BY <1>0, <1>4
  <2> QED BY <1>0, <1>2, <1>7, <2>1, Zenon
<1>8. kept[N] \in X[N]
  BY <1>0, <1>6, <1>7, LoopKeeps, Zenon
<1>9. Sifted(s, S, kept[N], N)
  BY <1>0, <1>8 DEF X
<1>10. PageSeq(Keep(s, S)) /\ Range(Keep(s, S)) = Range(s) \cap S
  <2>1. PageSeq(kept[N]) /\ Range(kept[N]) \subseteq FPage /\ Range(s) \subseteq FPage
    BY <1>0, <1>9, RangeIs, Zenon DEF Sifted, PageSeq
  <2>2. \A x \in FPage : x \in Range(kept[N]) <=> x \in S /\ x \in Range(s)
    BY <1>0, <1>9, RangeIs, Zenon DEF Sifted, N
  <2> QED BY <1>5, <2>1, <2>2, Zenon
<1>11. ASSUME N > 0, s[N] \in S
       PROVE  \E k \in Seq(FPage) : Keep(s, S) = Append(k, s[N])
  <2>1. N - 1 \in 0 .. N /\ N \in 0 .. N /\ N # 0 /\ N - 1 \in 0 .. N - 1
    BY <1>0, <1>11
  <2>2. kept[N] = Append(kept[N - 1], s[N])
    BY <1>4, <1>11, <2>1, Zenon DEF F
  <2>3. kept[N - 1] \in X[N - 1]
    <3>1. ASSUME NEW n \in 0 .. (N - 1) - 1, kept[n] \in X[n]
          PROVE  kept[n + 1] \in X[n + 1]
      <4>1. n \in 0 .. N - 1
        BY <1>0
      <4> QED BY <1>7, <3>1, <4>1, Zenon
    <3>2. N - 1 \in Nat
      BY <2>1
    <3> QED BY <1>6, <3>1, <3>2, LoopKeeps, Zenon
  <2>4. kept[N - 1] \in Seq(FPage)
    BY <2>1, <2>3 DEF X
  <2> QED BY <1>5, <2>2, <2>4, Zenon
<1> QED BY <1>10, <1>11 DEF N

LEMMA CountIs ==
    ASSUME NEW s, PageSeq(s)
    PROVE  /\ IsFiniteSet(Range(s)) /\ Cardinality(Range(s)) = Len(s)
           /\ Range(s) \subseteq FPage /\ Len(s) \in Nat
<1>1. s \in Seq(FPage) /\ Len(s) \in Nat /\ DOMAIN s = 1 .. Len(s) /\ IsInjective(s)
  BY DEF PageSeq
<1>2. s \in [1 .. Len(s) -> Range(s)]
  BY <1>1 DEF Range
<1>3. s \in Bijection(1 .. Len(s), Range(s))
  BY <1>1, <1>2, Zenon DEF Bijection, Injection, Surjection, Range
<1>4. ExistsBijection(1 .. Len(s), Range(s))
  BY <1>3, Zenon DEF ExistsBijection
<1>5. Cardinality(Range(s)) = Len(s)
  BY <1>1, <1>4, FS_CountingElements, Zenon
<1>6. IsFiniteSet(1 .. Len(s))
  BY <1>1, FS_Interval
<1>7. IsFiniteSet(Range(s))
  BY <1>4, <1>6, FS_Bijection, Zenon
<1> QED BY <1>1, <1>5, <1>7, RangeIs, Zenon

LEMMA PrefixIs ==
    ASSUME NEW s, PageSeq(s), NEW n \in 0 .. Len(s)
    PROVE  LET r == SubSeq(s, 1, n)
           IN /\ PageSeq(r) /\ Range(r) \subseteq Range(s)
              /\ \A x \in Range(r) : \E i \in 1 .. n : s[i] = x
              /\ n = Len(s) => Range(r) = Range(s)
<1> DEFINE r == SubSeq(s, 1, n)
<1>1. s \in Seq(FPage) /\ Len(s) \in Nat /\ DOMAIN s = 1 .. Len(s)
  BY DEF PageSeq
<1>2. /\ r \in Seq(FPage) /\ Len(r) = n /\ DOMAIN r = 1 .. n
      /\ \A i \in 1 .. n : r[i] = s[i] /\ i \in 1 .. Len(s)
  BY <1>1
<1> HIDE DEF r
<1>3. IsInjective(r)
  BY <1>1, <1>2, Zenon DEF IsInjective, PageSeq
<1>4. \A x \in Range(r) : \E i \in 1 .. n : s[i] = x
  BY <1>2, Zenon DEF Range
<1>5. Range(r) \subseteq Range(s)
  BY <1>1, <1>2, Zenon DEF Range
<1>6. n = Len(s) => Range(r) = Range(s)
  BY <1>1, <1>2, Zenon DEF Range
<1> QED BY <1>2, <1>3, <1>4, <1>5, <1>6 DEF PageSeq, r

\* The pages of a sequence go to the end of the list, which has them already.
IsTouched(l, done, r) ==
    /\ PageSeq(r) /\ Range(r) = Range(l) /\ Len(r) = Len(l)
    /\ Len(done) > 0 => r[Len(r)] = done[Len(done)]

LEMMA TouchedIs ==
    ASSUME NEW l, PageSeq(l), NEW done, PageSeq(done), Range(done) \subseteq Range(l)
    PROVE  IsTouched(l, done, Touched(l, done))
<1> DEFINE a == Keep(l, FPage \ Range(done))
           r == a \o done
           n == Len(a)
           m == Len(done)
<1>1. PageSeq(a) /\ Range(a) = Range(l) \cap (FPage \ Range(done))
  BY KeepIs
<1> HIDE DEF a
<1>2. /\ a \in Seq(FPage) /\ done \in Seq(FPage) /\ n \in Nat /\ m \in Nat
      /\ DOMAIN a = 1 .. n /\ DOMAIN done = 1 .. m
  BY <1>1 DEF PageSeq
<1>3. /\ r \in Seq(FPage) /\ Len(r) = n + m /\ DOMAIN r = 1 .. n + m
      /\ \A i \in 1 .. n : r[i] = a[i]
      /\ \A i \in 1 .. n + m : i > n => i - n \in 1 .. m /\ r[i] = done[i - n]
      /\ \A i \in 1 .. m : i + n \in 1 .. n + m /\ r[i + n] = done[i]
  BY <1>2
<1>4. \A i \in 1 .. n, j \in 1 .. m : a[i] # done[j]
  BY <1>1, <1>2, Zenon DEF Range
<1>5. /\ \A i, j \in 1 .. n : a[i] = a[j] => i = j
      /\ \A i, j \in 1 .. m : done[i] = done[j] => i = j
  BY <1>1, <1>2, Zenon DEF PageSeq, IsInjective
<1> HIDE DEF r
<1>6. ASSUME NEW i \in 1 .. n + m, NEW j \in 1 .. n + m, r[i] = r[j] PROVE i = j
  <2> HIDE DEF n, m
  <2>1. CASE i <= n /\ j <= n
    BY <1>2, <1>3, <1>5, <1>6, <2>1
  <2>2. CASE i > n /\ j > n
    <3>1. i - n \in 1 .. m /\ j - n \in 1 .. m /\ done[i - n] = done[j - n]
      BY <1>3, <1>6, <2>2, Zenon
    <3>2. i - n = j - n
      BY <1>5, <3>1, Zenon
    <3> QED BY <1>2, <3>2
  <2>3. CASE i <= n /\ j > n
    <3>1. i \in 1 .. n
      BY <1>2, <2>3
    <3>2. r[i] = a[i] /\ j - n \in 1 .. m /\ r[j] = done[j - n]
      BY <1>3, <2>3, <3>1, Zenon
    <3> QED BY <1>4, <1>6, <3>1, <3>2, Zenon
  <2>4. CASE i > n /\ j <= n
    <3>1. j \in 1 .. n
      BY <1>2, <2>4
    <3>2. r[j] = a[j] /\ i - n \in 1 .. m /\ r[i] = done[i - n]
      BY <1>3, <2>4, <3>1, Zenon
    <3> QED BY <1>4, <1>6, <3>1, <3>2, Zenon
  <2> QED BY <1>2, <2>1, <2>2, <2>3, <2>4
<1>7. PageSeq(r)
  BY <1>3, <1>6, Zenon DEF PageSeq, IsInjective
<1>8. Range(r) = Range(a) \cup Range(done)
  <2> HIDE DEF r
  <2>1. \A x : x \in Range(r) <=> \E i \in 1 .. n + m : r[i] = x
    <3>1. \A x : x \in Range(r) <=> \E i \in 1 .. Len(r) : r[i] = x
      BY <1>3, RangeIs, Zenon
    <3> QED BY <1>3, <3>1, Zenon
  <2>2. \A x : x \in Range(a) <=> \E i \in 1 .. n : a[i] = x
    BY <1>2, RangeIs
  <2>3. \A x : x \in Range(done) <=> \E i \in 1 .. m : done[i] = x
    BY <1>2, RangeIs
  <2>4. ASSUME NEW i \in 1 .. n + m PROVE r[i] \in Range(a) \cup Range(done)
    <3>1. CASE i > n
      BY <1>3, <2>3, <3>1, Zenon
    <3>2. CASE ~(i > n)
      <4>1. i \in 1 .. n
        BY <1>2, <3>2
      <4> QED BY <1>3, <2>2, <4>1, Zenon
    <3> QED BY <3>1, <3>2
  <2>5. \A i \in 1 .. n : i \in 1 .. n + m
    BY <1>2
  <2>6. Range(r) \subseteq Range(a) \cup Range(done)
    BY <2>1, <2>4, Zenon
  <2>7. Range(a) \subseteq Range(r)
    BY <1>3, <2>1, <2>2, <2>5, Zenon
  <2>8. Range(done) \subseteq Range(r)
    BY <1>3, <2>1, <2>3, Zenon
  <2> QED BY <2>6, <2>7, <2>8, Zenon
<1>9. Range(l) \subseteq FPage /\ Len(l) \in Nat /\ Cardinality(Range(l)) = Len(l)
  BY CountIs, Zenon
<1>10. Range(r) = Range(l)
  BY <1>1, <1>8, <1>9
<1>11. Len(r) = Len(l)
  BY <1>7, <1>9, <1>10, CountIs, Zenon
<1>12. m > 0 => r[Len(r)] = done[m]
  <2>1. m > 0 => m \in 1 .. m /\ m + n = n + m
    BY <1>2
  <2> QED BY <1>3, <2>1, Zenon
<1>13. Touched(l, done) = r
  BY Zenon DEF Touched, r, a
<1> HIDE DEF r
<1>14. IsTouched(l, done, r)
  BY <1>7, <1>10, <1>11, <1>12, Zenon DEF IsTouched
<1> QED BY <1>13, <1>14, Zenon

LEMMA OrdersAre ==
    ASSUME NEW S, S \subseteq FPage, NEW f \in Orders(S)
    PROVE  PageSeq(f) /\ Range(f) = S
<1> DEFINE n == Cardinality(S)
<1>1. IsFiniteSet(S) /\ n \in Nat
  BY FS_Subset, FS_CardinalityType, CacheAssumption, Zenon
<1>2. f \in [1 .. n -> S] /\ IsInjective(f)
  BY Zenon DEF Orders
<1> HIDE DEF n
<1>3. IsFiniteSet(1 .. n) /\ Cardinality(1 .. n) = n
  BY <1>1, FS_Interval
<1>4. f \in Injection(1 .. n, S)
  BY <1>2, Zenon DEF Injection
<1>5. f \in Surjection(1 .. n, S)
  BY <1>1, <1>3, <1>4, FS_Injection, Zenon DEF n
<1>6. Range(f) = S
  BY <1>2, <1>5, Zenon DEF Surjection, Range
<1>7. f \in Seq(FPage)
  BY <1>1, <1>2
<1> QED BY <1>2, <1>6, <1>7, Zenon DEF PageSeq

-----------------------------------------------------------------------------
\* The cache.

Entry == [used : BOOLEAN, val : Value, dirty : BOOLEAN]

States == [cache : [FPage -> Entry], lru : Seq(FPage), disk : [FPage -> Value],
           pte : [Task -> [FPage -> {"none", "ro", "rw"}]], blocked : BOOLEAN]

\* No task can store to page p.
Protected(C, p) == \A t \in Task : C.pte[t][p] # "rw"

\* What holds of page p: the list has it while it is cached, a page that is mapped or
\* dirty is cached, and a clean page nobody can store to is on disk.
PageOK(C, p) ==
    /\ p \in Range(C.lru) <=> C.cache[p].used
    /\ C.cache[p].dirty => C.cache[p].used
    /\ Pinned(C, p) => C.cache[p].used
    /\ C.cache[p].used /\ ~C.cache[p].dirty /\ Protected(C, p) => C.cache[p].val = C.disk[p]

CacheOK(C) ==
    /\ C \in States
    /\ PageSeq(C.lru) /\ Len(C.lru) <= Slots
    /\ \A p \in FPage : PageOK(C, p)

ContentOf(C, p) == IF C.cache[p].used THEN C.cache[p].val ELSE C.disk[p]

\* Page p is mapped writable only while it is dirty.
Tracked(C, p) == C.cache[p].dirty \/ Protected(C, p)

DirtyPages(C) == {p \in FPage : C.cache[p].dirty}

\* A step of the kernel that readers cannot tell.
Invisible(C, D) ==
    /\ CacheOK(D)
    /\ \A p \in FPage : ContentOf(D, p) = ContentOf(C, p)
    /\ \A p \in FPage : Tracked(C, p) => Tracked(D, p)
    /\ \A t \in Task, p \in FPage : D.pte[t][p] = "none" <=> C.pte[t][p] = "none"

\* The order of the list does not matter to what holds of a page.
LEMMA Relisted ==
    ASSUME NEW C, CacheOK(C), NEW l, PageSeq(l), Range(l) = Range(C.lru), Len(l) <= Slots
    PROVE  LET D == [C EXCEPT !.lru = l]
           IN /\ CacheOK(D) /\ D.cache = C.cache /\ D.disk = C.disk /\ D.pte = C.pte
              /\ D.lru = l /\ D.blocked = C.blocked
              /\ Invisible(C, D)
<1> DEFINE D == [C EXCEPT !.lru = l]
<1>1. C \in States /\ l \in Seq(FPage)
  BY DEF CacheOK, PageSeq
<1>2. /\ D \in States /\ D.cache = C.cache /\ D.disk = C.disk /\ D.pte = C.pte
      /\ D.lru = l /\ D.blocked = C.blocked
  BY <1>1, Zenon DEF States
<1> HIDE DEF D
<1>3. CacheOK(D)
  BY <1>2, Zenon DEF CacheOK, PageOK, Pinned, Protected
<1>4. Invisible(C, D)
  BY <1>2, <1>3, Zenon DEF Invisible, ContentOf, Tracked, Protected
<1> QED BY <1>2, <1>3, <1>4 DEF D

\* Nor does the back-off.
LEMMA Blocking ==
    ASSUME NEW C, CacheOK(C), NEW b \in BOOLEAN
    PROVE  LET D == [C EXCEPT !.blocked = b]
           IN /\ Invisible(C, D) /\ D.cache = C.cache /\ D.disk = C.disk /\ D.pte = C.pte
              /\ D.lru = C.lru /\ D.blocked = b
<1> DEFINE D == [C EXCEPT !.blocked = b]
<1>1. C \in States
  BY DEF CacheOK
<1>2. /\ D \in States /\ D.cache = C.cache /\ D.disk = C.disk /\ D.pte = C.pte
      /\ D.lru = C.lru /\ D.blocked = b
  BY <1>1, Zenon DEF States
<1> HIDE DEF D
<1>3. \A p \in FPage : PageOK(D, p) <=> PageOK(C, p)
  BY <1>2, Zenon DEF PageOK, Pinned, Protected
<1>4. CacheOK(D)
  BY <1>2, <1>3, Zenon DEF CacheOK
<1>5. Invisible(C, D)
  BY <1>2, <1>4, Zenon DEF Invisible, ContentOf, Tracked, Protected
<1> QED BY <1>2, <1>5 DEF D

\* What readers cannot tell twice they cannot tell once.
LEMMA InvisibleTwice ==
    ASSUME NEW C, NEW D, NEW E, Invisible(C, D), Invisible(D, E)
    PROVE  Invisible(C, E)
BY Zenon DEF Invisible

LEMMA TouchOK ==
    ASSUME NEW C, CacheOK(C), NEW p \in FPage, C.cache[p].used
    PROVE  LET D == Touch(C, p)
           IN /\ Invisible(C, D) /\ D.cache = C.cache /\ D.disk = C.disk /\ D.pte = C.pte
              /\ Len(D.lru) > 0 /\ D.lru[Len(D.lru)] = p
<1> DEFINE one == <<p>>
           l == Touched(C.lru, one)
           D == [C EXCEPT !.lru = l]
<1>1. PageSeq(C.lru) /\ Len(C.lru) <= Slots /\ p \in Range(C.lru)
  BY Zenon DEF CacheOK, PageOK
<1>2. PageSeq(one) /\ Range(one) = {p} /\ Len(one) = 1 /\ one[1] = p
  BY DEF PageSeq, IsInjective, Range
<1>3. Touch(C, p) = D
  BY DEF Touch
<1> HIDE DEF one
<1>4. /\ PageSeq(l) /\ Range(l) = Range(C.lru) /\ Len(l) = Len(C.lru)
      /\ l[Len(l)] = p
  <2>1. Range(one) \subseteq Range(C.lru) /\ Len(one) > 0
    BY <1>1, <1>2
  <2>2. IsTouched(C.lru, one, l)
    BY <1>1, <1>2, <2>1, TouchedIs, Zenon
  <2> HIDE DEF l
  <2> QED BY <1>2, <2>1, <2>2, Zenon DEF IsTouched
<1> HIDE DEF l
<1>5. Len(l) > 0 /\ Len(l) <= Slots
  <2>1. l \in Seq(FPage) /\ p \in Range(l)
    BY <1>1, <1>4, Zenon DEF PageSeq
  <2>2. \E i \in 1 .. Len(l) : l[i] = p
    BY <2>1, RangeIs, Zenon
  <2> QED BY <1>1, <1>4, <2>1, <2>2
<1>6. /\ D.cache = C.cache /\ D.disk = C.disk /\ D.pte = C.pte /\ D.lru = l
      /\ Invisible(C, D)
  BY <1>1, <1>4, <1>5, Relisted, Zenon
<1> HIDE DEF D
<1> QED BY <1>3, <1>4, <1>5, <1>6, Zenon

\* The dirty pages, as write-back lists them.
LEMMA DirtyIs ==
    ASSUME NEW C, CacheOK(C)
    PROVE  /\ PageSeq(Dirty(C)) /\ Range(Dirty(C)) = DirtyPages(C)
           /\ Range(Dirty(C)) \subseteq Range(C.lru)
           /\ Len(Dirty(C)) \in Nat /\ Len(Dirty(C)) <= Slots
           /\ Len(Dirty(C)) = Cardinality(DirtyPages(C))
<1> DEFINE S == {p \in FPage : C.cache[p].dirty}
           d == Keep(C.lru, S)
<1>1. PageSeq(C.lru) /\ Len(C.lru) <= Slots
  BY Zenon DEF CacheOK
<1>2. PageSeq(d) /\ Range(d) = Range(C.lru) \cap S
  <2> HIDE DEF S
  <2> QED BY <1>1, KeepIs, Zenon
<1>3. S \subseteq Range(C.lru)
  BY Zenon DEF CacheOK, PageOK
<1> HIDE DEF S, d
<1>4. Range(d) = S /\ Range(d) \subseteq Range(C.lru)
  BY <1>2, <1>3
<1>5. /\ Len(d) \in Nat /\ Len(d) = Cardinality(Range(d))
      /\ IsFiniteSet(Range(C.lru)) /\ Cardinality(Range(C.lru)) = Len(C.lru)
      /\ Len(C.lru) \in Nat
  BY <1>1, <1>2, CountIs, Zenon
<1>6. Cardinality(Range(d)) <= Cardinality(Range(C.lru))
  BY <1>4, <1>5, FS_Subset, Zenon
<1>7. Len(d) <= Slots
  BY <1>1, <1>5, <1>6, CacheAssumption
<1>8. Dirty(C) = d /\ DirtyPages(C) = S
  BY Zenon DEF Dirty, DirtyPages, d, S
<1> QED BY <1>2, <1>4, <1>5, <1>7, <1>8, Zenon

\* pagecache_entry_writeback on some dirty pages.
LEMMA WriteBackOK ==
    ASSUME NEW C, CacheOK(C), NEW done, PageSeq(done), Range(done) \subseteq DirtyPages(C)
    PROVE  LET D == WriteBack(C, done)
           IN /\ Invisible(C, D)
              /\ \A p \in FPage : D.cache[p].dirty <=> (C.cache[p].dirty /\ p \notin Range(done))
<1> DEFINE W == Range(done)
           K == [p \in FPage |-> IF p \in W THEN [C.cache[p] EXCEPT !.dirty = FALSE]
                                 ELSE C.cache[p]]
           V == [p \in FPage |-> IF p \in W THEN C.cache[p].val ELSE C.disk[p]]
           T == [t \in Task |-> [p \in FPage |->
                   IF p \in W /\ C.pte[t][p] = "rw" THEN "ro" ELSE C.pte[t][p]]]
           l == Touched(C.lru, done)
           D == WriteBack(C, done)
<1>1. /\ C \in States /\ PageSeq(C.lru) /\ Len(C.lru) <= Slots
      /\ \A p \in FPage : PageOK(C, p)
  BY Zenon DEF CacheOK
<1>2. W \subseteq Range(C.lru) /\ \A p \in W : p \in FPage /\ C.cache[p].dirty /\ C.cache[p].used
  BY <1>1, Zenon DEF PageOK, DirtyPages
<1>3. PageSeq(l) /\ Range(l) = Range(C.lru) /\ Len(l) = Len(C.lru)
  BY <1>1, <1>2, TouchedIs, Zenon DEF IsTouched
<1> HIDE DEF l
<1>4. /\ C.cache \in [FPage -> Entry] /\ C.disk \in [FPage -> Value]
      /\ C.pte \in [Task -> [FPage -> {"none", "ro", "rw"}]] /\ C.blocked \in BOOLEAN
  BY <1>1, Zenon DEF States
<1>5. D = [cache |-> K, lru |-> l, disk |-> V, pte |-> T, blocked |-> C.blocked]
  <2> HIDE DEF K, V, T, W
  <2>1. WriteBack(C, done) = [C EXCEPT !.disk = V, !.cache = K, !.pte = T, !.lru = l]
    BY Zenon DEF WriteBack, K, V, T, l, W
  <2> QED BY <1>1, <2>1, Zenon DEF States
<1> HIDE DEF D, W
<1>6. \A p \in FPage : K[p] \in Entry /\ V[p] \in Value
  BY <1>4, Zenon DEF Entry
<1>7. \A p \in FPage :
         /\ K[p].used = C.cache[p].used /\ K[p].val = C.cache[p].val
         /\ K[p].dirty <=> (C.cache[p].dirty /\ p \notin W)
  BY <1>4 DEF Entry
<1>8. \A t \in Task, p \in FPage :
         /\ T[t][p] \in {"none", "ro", "rw"}
         /\ T[t][p] = "none" <=> C.pte[t][p] = "none"
         /\ T[t][p] = "rw" <=> (C.pte[t][p] = "rw" /\ p \notin W)
  BY <1>4
<1>9. \A p \in FPage : V[p] = IF p \in W THEN C.cache[p].val ELSE C.disk[p]
  BY Zenon
<1>10. K \in [FPage -> Entry] /\ V \in [FPage -> Value] /\ T \in [Task -> [FPage -> {"none", "ro", "rw"}]]
  BY <1>6, <1>8, Zenon
<1> HIDE DEF K, V, T
<1>11. /\ D \in States /\ D.cache = K /\ D.disk = V /\ D.pte = T /\ D.lru = l
  BY <1>3, <1>4, <1>5, <1>10, Zenon DEF States, PageSeq
<1>12. ASSUME NEW p \in FPage
       PROVE  /\ PageOK(D, p) /\ ContentOf(D, p) = ContentOf(C, p)
              /\ Tracked(C, p) => Tracked(D, p)
              /\ D.cache[p].dirty <=> (C.cache[p].dirty /\ p \notin W)
  <2>1. /\ Pinned(D, p) <=> Pinned(C, p)
        /\ Protected(D, p) <=> (p \in W \/ Protected(C, p))
    BY <1>8, <1>11, Zenon DEF Pinned, Protected
  <2>2. PageOK(C, p) /\ (p \in W => C.cache[p].dirty /\ C.cache[p].used)
    BY <1>1, <1>2, Zenon
  <2>3. /\ D.cache[p].used = C.cache[p].used /\ D.cache[p].val = C.cache[p].val
        /\ D.cache[p].dirty <=> (C.cache[p].dirty /\ p \notin W)
        /\ D.disk[p] = IF p \in W THEN C.cache[p].val ELSE C.disk[p]
        /\ Range(D.lru) = Range(C.lru)
    BY <1>3, <1>7, <1>9, <1>11, Zenon
  <2>4. PageOK(D, p)
    BY <2>1, <2>2, <2>3, Zenon DEF PageOK
  <2>5. ContentOf(D, p) = ContentOf(C, p)
    BY <2>2, <2>3, Zenon DEF ContentOf
  <2> QED BY <2>1, <2>3, <2>4, <2>5, Zenon DEF Tracked
<1>13. CacheOK(D)
  BY <1>1, <1>3, <1>11, <1>12, Zenon DEF CacheOK
<1>14. \A t \in Task, p \in FPage : D.pte[t][p] = "none" <=> C.pte[t][p] = "none"
  BY <1>8, <1>11, Zenon
<1> QED BY <1>12, <1>13, <1>14, Zenon DEF Invisible, D, W

\* pagecache_flush_match: it writes back the first n dirty pages, all of them if it
\* is asked for as many as the cache holds and reports no error.
LEMMA FlushOK ==
    ASSUME NEW C, CacheOK(C), NEW budget \in Nat, NEW n \in Stores(C, budget)
    PROVE  LET D == pagecache_flush_match(C, budget, n)
           IN /\ Invisible(C, D)
              /\ \A p \in FPage : D.cache[p].dirty <=>
                    (C.cache[p].dirty /\ p \notin Range(SubSeq(Dirty(C), 1, n)))
              /\ budget = Slots /\ FlushOk(C, budget, n) => \A p \in FPage : ~D.cache[p].dirty
<1> DEFINE d == Dirty(C)
           done == SubSeq(d, 1, n)
           W == WriteBack(C, done)
           b == ~FlushOk(C, budget, n)
           D == pagecache_flush_match(C, budget, n)
<1>1. /\ PageSeq(d) /\ Range(d) = DirtyPages(C) /\ Len(d) \in Nat /\ Len(d) <= Slots
  BY DirtyIs, Zenon
<1>2. n \in 0 .. Len(d) /\ (budget = Slots /\ FlushOk(C, budget, n) => n = Len(d))
  <2>1. n \in 0 .. (IF Len(d) < budget THEN Len(d) ELSE budget)
    BY DEF Stores
  <2>2. FlushOk(C, budget, n) <=> (n = Len(d) \/ n = budget)
    BY Zenon DEF FlushOk
  <2> HIDE DEF d
  <2> QED BY <1>1, <2>1, <2>2, CacheAssumption
<1> HIDE DEF d
<1>3. /\ PageSeq(done) /\ Range(done) \subseteq DirtyPages(C)
      /\ n = Len(d) => Range(done) = DirtyPages(C)
  <2>1. /\ PageSeq(done) /\ Range(done) \subseteq Range(d)
        /\ n = Len(d) => Range(done) = Range(d)
    BY <1>1, <1>2, PrefixIs, Zenon
  <2> QED BY <1>1, <2>1, Zenon
<1> HIDE DEF done
<1>4. /\ Invisible(C, W)
      /\ \A p \in FPage : W.cache[p].dirty <=> (C.cache[p].dirty /\ p \notin Range(done))
  BY <1>3, WriteBackOK, Zenon
<1> HIDE DEF W
<1>5. \/ D = C /\ d = <<>>
      \/ D = [W EXCEPT !.blocked = b]
  BY Zenon DEF pagecache_flush_match, d, done, W
<1>6. b \in BOOLEAN
  BY Zenon
<1> HIDE DEF D, b
<1>7. CASE D = [W EXCEPT !.blocked = b]
  <2>1. CacheOK(W)
    BY <1>4, Zenon DEF Invisible
  <2>2. Invisible(W, D) /\ D.cache = W.cache
    BY <1>6, <1>7, <2>1, Blocking, Zenon
  <2>4. Invisible(C, D)
    BY <1>4, <2>2, InvisibleTwice, Zenon
  <2>5. \A p \in FPage : D.cache[p].dirty <=> (C.cache[p].dirty /\ p \notin Range(done))
    BY <1>4, <2>2, Zenon
  <2>6. budget = Slots /\ FlushOk(C, budget, n) => \A p \in FPage : ~D.cache[p].dirty
    BY <1>2, <1>3, <2>5, Zenon DEF DirtyPages
  <2> QED BY <2>4, <2>5, <2>6, Zenon DEF D, done, d
<1>8. CASE D = C /\ d = <<>>
  <2>1. DirtyPages(C) = {}
    <3>1. Range(<<>>) = {}
      BY DEF Range
    <3> QED BY <1>1, <1>8, <3>1, Zenon
  <2>2. \A p \in FPage : ~C.cache[p].dirty
    BY <2>1, Zenon DEF DirtyPages
  <2>3. Invisible(C, C)
    BY Zenon DEF Invisible
  <2> QED BY <1>8, <2>2, <2>3, Zenon DEF D
<1> QED BY <1>5, <1>7, <1>8, Zenon

\* A page just dirtied, the last of the list, is not written back when the dirty pages
\* are below the critical mark, or write-back is held back: the newest of them stays.
LEMMA PressureOK ==
    ASSUME NEW C, CacheOK(C), NEW n \in Stores(C, PressureBudget(C))
    PROVE  LET D == pagecache_maybe_writeback_pressure(C, n)
           IN /\ Invisible(C, D)
              /\ \A p \in FPage :
                    /\ Len(C.lru) > 0 /\ C.lru[Len(C.lru)] = p /\ C.cache[p].dirty
                    /\ C.blocked \/ Cardinality(DirtyPages(C)) < Critical
                    => D.cache[p].dirty
<1> DEFINE b == PressureBudget(C)
           d == Len(Dirty(C))
           D == pagecache_maybe_writeback_pressure(C, n)
           s == Dirty(C)
<1>1. /\ PageSeq(s) /\ d = Cardinality(DirtyPages(C)) /\ d \in Nat /\ d <= Slots
  BY DirtyIs, Zenon
<1>2. /\ b \in Nat /\ n \in 0 .. d
      /\ (C.blocked \/ d < Critical) /\ d > 0 => n < d
  <2>1. /\ n \in 0 .. (IF d < b THEN d ELSE b)
        /\ b = IF C.blocked \/ d < HighWater THEN 0
               ELSE IF d >= Critical \/ MaxBudget + (d - HighWater) > Slots THEN Slots
               ELSE MaxBudget + (d - HighWater)
    BY DEF Stores, PressureBudget
  <2> HIDE DEF b, d
  <2>2. b \in Nat /\ ((C.blocked \/ d < Critical) /\ d > 0 => b < d)
    BY <1>1, <2>1, CacheAssumption
  <2> QED BY <1>1, <2>1, <2>2
<1>3. D = C \/ D = pagecache_flush_match(C, b, n)
  BY Zenon DEF pagecache_maybe_writeback_pressure
<1>4. CASE D = C
  BY <1>4, Zenon DEF Invisible
<1> HIDE DEF D, b
<1>5. CASE D = pagecache_flush_match(C, b, n)
  <2> DEFINE r == SubSeq(s, 1, n)
  <2>1. /\ Invisible(C, D)
        /\ \A p \in FPage : D.cache[p].dirty <=> (C.cache[p].dirty /\ p \notin Range(r))
    BY <1>2, <1>5, FlushOK, Zenon DEF b
  <2>2. ASSUME NEW p \in FPage, Len(C.lru) > 0, C.lru[Len(C.lru)] = p, C.cache[p].dirty,
               C.blocked \/ d < Critical
        PROVE  p \notin Range(r)
    <3> DEFINE S == {q \in FPage : C.cache[q].dirty}
    <3>1. s = Keep(C.lru, S) /\ p \in S
      BY <2>2, Zenon DEF Dirty
    <3> HIDE DEF s, S
    <3>2. PageSeq(C.lru)
      BY Zenon DEF CacheOK
    <3>3. PICK k \in Seq(FPage) : s = Append(k, p)
      BY <2>2, <3>1, <3>2, KeepIs, Zenon
    <3>4. s[d] = p /\ d \in 1 .. d /\ d > 0
      BY <3>3 DEF s
    <3>5. n < d /\ \A i \in 1 .. n : i \in 1 .. d /\ i # d
      BY <1>1, <1>2, <2>2, <3>4
    <3>6. \A i \in 1 .. n : s[i] # p
      <4>1. DOMAIN s = 1 .. d
        BY <1>1 DEF PageSeq, s
      <4> QED BY <1>1, <3>4, <3>5, <4>1, Zenon DEF PageSeq, IsInjective
    <3>7. \A x \in Range(r) : \E i \in 1 .. n : s[i] = x
      BY <1>1, <1>2, PrefixIs, Zenon DEF s
    <3> QED BY <3>6, <3>7, Zenon
  <2> QED BY <1>1, <2>1, <2>2, Zenon DEF D
<1> QED BY <1>3, <1>4, <1>5, Zenon

\* The first victim is cached and nobody maps it.
LEMMA VictimIs ==
    ASSUME NEW C, CacheOK(C), Victims(C) # <<>>
    PROVE  /\ Head(Victims(C)) \in FPage /\ Head(Victims(C)) \in Range(C.lru)
           /\ ~Pinned(C, Head(Victims(C)))
<1> DEFINE S == {q \in FPage : ~Pinned(C, q)}
           v == Keep(C.lru, S)
<1>1. PageSeq(C.lru)
  BY Zenon DEF CacheOK
<1>2. PageSeq(v) /\ Range(v) = Range(C.lru) \cap S
  <2> HIDE DEF S
  <2> QED BY <1>1, KeepIs, Zenon
<1>3. Victims(C) = v
  BY Zenon DEF Victims
<1> HIDE DEF v
<1>4. v \in Seq(FPage) /\ v # <<>>
  BY <1>2, <1>3, Zenon DEF PageSeq
<1>5. Head(v) = v[1] /\ 1 \in 1 .. Len(v)
  BY <1>4
<1>6. Head(v) \in Range(v)
  BY <1>4, <1>5, RangeIs, Zenon
<1> QED BY <1>2, <1>3, <1>6

\* pagecache_slot gives up a page nobody maps, which is then on disk.
LEMMA EvictOK ==
    ASSUME NEW C, CacheOK(C), NEW q \in FPage, q \in Range(C.lru), ~Pinned(C, q)
    PROVE  LET D == Evict(C, q)
           IN /\ Invisible(C, D) /\ Len(D.lru) < Len(C.lru) /\ D.pte = C.pte
              /\ \A p \in FPage : p # q => D.cache[p] = C.cache[p] /\ D.disk[p] = C.disk[p]
              /\ DirtyPages(D) \subseteq DirtyPages(C)
<1> DEFINE K == [C.cache EXCEPT ![q] = Absent]
           V == IF C.cache[q].dirty THEN [C.disk EXCEPT ![q] = C.cache[q].val] ELSE C.disk
           l == Keep(C.lru, FPage \ {q})
           b == IF C.cache[q].dirty THEN FALSE ELSE C.blocked
           D == Evict(C, q)
<1>1. /\ C \in States /\ PageSeq(C.lru) /\ Len(C.lru) <= Slots
      /\ \A p \in FPage : PageOK(C, p)
  BY Zenon DEF CacheOK
<1>2. /\ C.cache \in [FPage -> Entry] /\ C.disk \in [FPage -> Value]
      /\ C.pte \in [Task -> [FPage -> {"none", "ro", "rw"}]] /\ C.blocked \in BOOLEAN
  BY <1>1, Zenon DEF States
<1>3. /\ Absent \in Entry /\ Absent.used = FALSE /\ Absent.dirty = FALSE
      /\ C.cache[q].val \in Value
  BY <1>2, CacheAssumption DEF Absent, Entry
<1>4. PageSeq(l) /\ Range(l) = Range(C.lru) \ {q} /\ Len(l) < Len(C.lru)
  <2>1. PageSeq(l) /\ Range(l) = Range(C.lru) \cap (FPage \ {q})
    BY <1>1, KeepIs
  <2> HIDE DEF l
  <2>2. /\ IsFiniteSet(Range(C.lru)) /\ Range(C.lru) \subseteq FPage
        /\ Len(C.lru) = Cardinality(Range(C.lru)) /\ Len(l) = Cardinality(Range(l))
        /\ Len(C.lru) \in Nat
    BY <1>1, <2>1, CountIs, Zenon
  <2>3. Range(l) = Range(C.lru) \ {q}
    BY <2>1, <2>2
  <2>4. Cardinality(Range(C.lru) \ {q}) = Cardinality(Range(C.lru)) - 1
    BY <2>2, FS_RemoveElement, Zenon
  <2>5. Len(l) = Len(C.lru) - 1
    BY <2>2, <2>3, <2>4, Zenon
  <2>6. Len(l) < Len(C.lru)
    BY <2>2, <2>5
  <2> QED BY <2>1, <2>3, <2>6, Zenon
<1>5. D = [cache |-> K, lru |-> l, disk |-> V, pte |-> C.pte, blocked |-> b]
  <2> DEFINE S == IF C.cache[q].dirty
                  THEN [C EXCEPT !.disk[q] = C.cache[q].val, !.blocked = FALSE] ELSE C
  <2>1. D = [S EXCEPT !.cache[q] = Absent, !.lru = Keep(@, FPage \ {q})]
    BY Zenon DEF Evict
  <2>2. S = [cache |-> C.cache, lru |-> C.lru, disk |-> V, pte |-> C.pte, blocked |-> b]
    <3>1. C = [cache |-> C.cache, lru |-> C.lru, disk |-> C.disk, pte |-> C.pte,
               blocked |-> C.blocked]
      BY <1>1 DEF States
    <3>2. CASE C.cache[q].dirty
      BY <1>1, <3>2, Zenon DEF States
    <3>3. CASE ~C.cache[q].dirty
      BY <3>1, <3>3, Zenon
    <3> QED BY <3>2, <3>3
  <2> HIDE DEF S, V, b, D
  <2> QED BY <2>1, <2>2, Zenon
<1> HIDE DEF D, l
<1>6. /\ K \in [FPage -> Entry] /\ V \in [FPage -> Value] /\ b \in BOOLEAN
      /\ K[q] = Absent /\ \A p \in FPage : p # q => K[p] = C.cache[p] /\ V[p] = C.disk[p]
      /\ V[q] = IF C.cache[q].dirty THEN C.cache[q].val ELSE C.disk[q]
  BY <1>2, <1>3, Zenon
<1> HIDE DEF K, V, b
<1>7. /\ D \in States /\ D.cache = K /\ D.disk = V /\ D.pte = C.pte /\ D.lru = l
  BY <1>2, <1>4, <1>5, <1>6 DEF States, PageSeq
<1>8. ASSUME NEW p \in FPage, p # q
      PROVE  /\ PageOK(D, p) /\ ContentOf(D, p) = ContentOf(C, p)
             /\ Tracked(C, p) => Tracked(D, p)
  <2>1. D.cache[p] = C.cache[p] /\ D.disk[p] = C.disk[p] /\ PageOK(C, p)
    BY <1>1, <1>6, <1>7, <1>8, Zenon
  <2>2. p \in Range(D.lru) <=> p \in Range(C.lru)
    BY <1>4, <1>7, <1>8, Zenon
  <2>3. (Pinned(D, p) <=> Pinned(C, p)) /\ (Protected(D, p) <=> Protected(C, p))
    BY <1>7, Zenon DEF Pinned, Protected
  <2> QED BY <2>1, <2>2, <2>3, Zenon DEF PageOK, ContentOf, Tracked
<1>9. PageOK(D, q) /\ ContentOf(D, q) = ContentOf(C, q) /\ Tracked(D, q)
  <2>1. ~Pinned(D, q) /\ Protected(D, q) /\ Protected(C, q)
    <3>1. \A t \in Task : C.pte[t][q] = "none"
      BY Zenon DEF Pinned
    <3>2. "none" # "rw"
      OBVIOUS
    <3> QED BY <1>7, <3>1, <3>2, Zenon DEF Pinned, Protected
  <2>2. D.cache[q].used = FALSE /\ D.cache[q].dirty = FALSE /\ q \notin Range(D.lru)
    BY <1>3, <1>4, <1>6, <1>7, Zenon
  <2>3. C.cache[q].used /\ PageOK(C, q)
    BY <1>1, Zenon DEF PageOK
  <2>4. D.disk[q] = C.cache[q].val
    BY <1>6, <1>7, <2>1, <2>3, Zenon DEF PageOK
  <2> QED BY <2>1, <2>2, <2>3, <2>4, Zenon DEF PageOK, ContentOf, Tracked
<1>10. Len(D.lru) < Len(C.lru) /\ Len(D.lru) <= Slots /\ PageSeq(D.lru)
  <2>1. Len(l) \in Nat /\ Len(C.lru) \in Nat
    BY <1>1, <1>4, CountIs, Zenon
  <2> QED BY <1>1, <1>4, <1>7, <2>1, CacheAssumption
<1>11. Invisible(C, D)
  <2>1. \A p \in FPage : PageOK(D, p) /\ ContentOf(D, p) = ContentOf(C, p)
                         /\ (Tracked(C, p) => Tracked(D, p))
    BY <1>8, <1>9, Zenon
  <2>2. CacheOK(D)
    BY <1>7, <1>10, <2>1, Zenon DEF CacheOK
  <2> QED BY <1>7, <2>1, <2>2, Zenon DEF Invisible
<1>12. DirtyPages(D) \subseteq DirtyPages(C)
  <2>1. \A p \in FPage : D.cache[p].dirty => C.cache[p].dirty
    BY <1>3, <1>6, <1>7, Zenon
  <2> QED BY <2>1, Zenon DEF DirtyPages
<1> QED BY <1>6, <1>7, <1>10, <1>11, <1>12, Zenon DEF D

\* A page comes into a free slot as it is on disk.
LEMMA LoadOK ==
    ASSUME NEW C, CacheOK(C), NEW p \in FPage, ~C.cache[p].used, Len(C.lru) < Slots
    PROVE  LET D == [C EXCEPT !.cache[p] = [used |-> TRUE, val |-> C.disk[p], dirty |-> FALSE],
                              !.lru = Append(@, p)]
           IN /\ Invisible(C, D) /\ D.cache[p].used /\ D.pte = C.pte
              /\ DirtyPages(D) \subseteq DirtyPages(C)
<1> DEFINE e == [used |-> TRUE, val |-> C.disk[p], dirty |-> FALSE]
           K == [C.cache EXCEPT ![p] = e]
           l == Append(C.lru, p)
           D == [C EXCEPT !.cache[p] = e, !.lru = Append(@, p)]
<1>1. /\ C \in States /\ PageSeq(C.lru) /\ Len(C.lru) \in Nat
      /\ \A q \in FPage : PageOK(C, q)
  BY CountIs, Zenon DEF CacheOK
<1>2. /\ C.cache \in [FPage -> Entry] /\ C.disk \in [FPage -> Value] /\ C.lru \in Seq(FPage)
      /\ C.pte \in [Task -> [FPage -> {"none", "ro", "rw"}]] /\ C.blocked \in BOOLEAN
  BY <1>1, Zenon DEF States
<1>3. e \in Entry /\ e.used = TRUE /\ e.dirty = FALSE /\ e.val = C.disk[p]
  BY <1>2, Zenon DEF Entry
<1>4. p \notin Range(C.lru)
  BY <1>1, Zenon DEF PageOK
<1>5. PageSeq(l) /\ \A x \in FPage : x \in Range(l) <=> (x \in Range(C.lru) \/ x = p)
  BY <1>1, <1>4, AppendIs, Zenon
<1>6. Len(l) <= Slots
  BY <1>1, <1>2, CacheAssumption
<1>7. D = [cache |-> K, lru |-> l, disk |-> C.disk, pte |-> C.pte, blocked |-> C.blocked]
  <2>1. D = [C EXCEPT !.cache = K, !.lru = l]
    BY Zenon
  <2> HIDE DEF D, K, l
  <2> QED BY <1>1, <2>1, Zenon DEF States
<1> HIDE DEF e, l
<1>8. K \in [FPage -> Entry] /\ K[p] = e /\ \A q \in FPage : q # p => K[q] = C.cache[q]
  BY <1>2, <1>3
<1> HIDE DEF D, K
<1>9. /\ D \in States /\ D.cache = K /\ D.disk = C.disk /\ D.pte = C.pte /\ D.lru = l
  BY <1>2, <1>5, <1>7, <1>8, Zenon DEF States, PageSeq
<1>10. ASSUME NEW q \in FPage
       PROVE  /\ PageOK(D, q) /\ ContentOf(D, q) = ContentOf(C, q)
              /\ Tracked(C, q) => Tracked(D, q)
              /\ D.cache[q].dirty => C.cache[q].dirty
  <2>1. (Pinned(D, q) <=> Pinned(C, q)) /\ (Protected(D, q) <=> Protected(C, q))
    BY <1>9, Zenon DEF Pinned, Protected
  <2>2. CASE q # p
    <3>1. D.cache[q] = C.cache[q] /\ D.disk[q] = C.disk[q] /\ PageOK(C, q)
          /\ (q \in Range(D.lru) <=> q \in Range(C.lru))
      BY <1>1, <1>5, <1>8, <1>9, <2>2, Zenon
    <3> QED BY <2>1, <3>1, Zenon DEF PageOK, ContentOf, Tracked
  <2>3. CASE q = p
    <3>1. /\ D.cache[q].used = TRUE /\ D.cache[q].dirty = FALSE /\ D.cache[q].val = C.disk[q]
          /\ D.disk[q] = C.disk[q] /\ q \in Range(D.lru)
      BY <1>3, <1>5, <1>8, <1>9, <2>3, Zenon
    <3>2. Protected(C, q)
      <4>1. \A t \in Task : C.pte[t][q] = "none"
        BY <1>1, <2>3, Zenon DEF PageOK, Pinned
      <4>2. "none" # "rw"
        OBVIOUS
      <4> QED BY <4>1, <4>2, Zenon DEF Protected
    <3> QED BY <2>1, <2>3, <3>1, <3>2, Zenon DEF PageOK, ContentOf, Tracked
  <2> QED BY <2>2, <2>3, Zenon
<1>11. CacheOK(D)
  BY <1>5, <1>6, <1>9, <1>10, Zenon DEF CacheOK
<1>12. Invisible(C, D) /\ D.cache[p].used /\ DirtyPages(D) \subseteq DirtyPages(C)
  BY <1>3, <1>8, <1>9, <1>10, <1>11, Zenon DEF Invisible, DirtyPages
<1> QED BY <1>9, <1>12, Zenon DEF D, e

LEMMA GetOK ==
    ASSUME NEW C, CacheOK(C), NEW p \in FPage, NEW io \in BOOLEAN, Gets(C, p, io)
    PROVE  LET D == pagecache_get_or_create(C, p, io)
           IN /\ Invisible(C, D) /\ D.cache[p].used /\ D.pte = C.pte
              /\ DirtyPages(D) \subseteq DirtyPages(C)
<1> DEFINE v == Head(Victims(C))
           S == IF Len(C.lru) < Slots THEN C ELSE Evict(C, v)
           E == [S EXCEPT !.cache[p] = [used |-> TRUE, val |-> C.disk[p], dirty |-> FALSE],
                          !.lru = Append(@, p)]
           D == pagecache_get_or_create(C, p, io)
<1>1. CASE C.cache[p].used
  <2>1. D = Touch(C, p)
    BY <1>1, Zenon DEF pagecache_get_or_create
  <2> HIDE DEF D
  <2>2. Invisible(C, D) /\ D.cache = C.cache /\ D.pte = C.pte
    BY <1>1, <2>1, TouchOK, Zenon
  <2> QED BY <1>1, <2>2, Zenon DEF DirtyPages, D
<1>2. CASE ~C.cache[p].used
  <2>1. D = E
    BY <1>2, Zenon DEF pagecache_get_or_create
  <2>2. /\ Invisible(C, S) /\ ~S.cache[p].used /\ S.disk[p] = C.disk[p] /\ S.pte = C.pte
        /\ Len(S.lru) < Slots /\ DirtyPages(S) \subseteq DirtyPages(C)
    <3>1. CASE Len(C.lru) < Slots
      BY <1>2, <3>1, Zenon DEF Invisible
    <3>2. CASE ~(Len(C.lru) < Slots)
      <4>1. v \in FPage /\ v \in Range(C.lru) /\ ~Pinned(C, v)
        BY <1>2, <3>2, VictimIs, Zenon DEF Gets
      <4>2. v # p
        BY <1>2, <4>1, Zenon DEF CacheOK, PageOK
      <4> HIDE DEF v
      <4>3. S = Evict(C, v)
        BY <3>2, Zenon
      <4> HIDE DEF S
      <4>4. /\ Invisible(C, S) /\ Len(S.lru) < Len(C.lru) /\ S.pte = C.pte
            /\ S.cache[p] = C.cache[p] /\ S.disk[p] = C.disk[p]
            /\ DirtyPages(S) \subseteq DirtyPages(C)
        BY <4>1, <4>2, <4>3, EvictOK, Zenon
      <4>5. /\ Len(C.lru) <= Slots /\ PageSeq(C.lru) /\ PageSeq(S.lru)
        BY <4>4, Zenon DEF CacheOK, Invisible
      <4>6. Len(C.lru) \in Nat /\ Len(S.lru) \in Nat
        BY <4>5, CountIs, Zenon
      <4>7. Len(S.lru) < Slots
        BY <4>4, <4>5, <4>6, CacheAssumption
      <4> QED BY <1>2, <4>4, <4>7, Zenon
    <3> QED BY <3>1, <3>2, Zenon
  <2> HIDE DEF S, D
  <2>3. CacheOK(S)
    BY <2>2, Zenon DEF Invisible
  <2>4. E = [S EXCEPT !.cache[p] = [used |-> TRUE, val |-> S.disk[p], dirty |-> FALSE],
                      !.lru = Append(@, p)]
    BY <2>2, Zenon
  <2>5. /\ Invisible(S, E) /\ E.cache[p].used /\ E.pte = S.pte
        /\ DirtyPages(E) \subseteq DirtyPages(S)
    BY <2>2, <2>3, <2>4, LoadOK, Zenon
  <2> HIDE DEF E
  <2>6. Invisible(C, E)
    BY <2>2, <2>5, InvisibleTwice, Zenon
  <2> QED BY <2>1, <2>2, <2>5, <2>6, Zenon DEF D
<1> QED BY <1>1, <1>2, Zenon

-----------------------------------------------------------------------------
\* What writes and mappings change.

\* New entries for the cached pages: none is cleaned, and the contents change only
\* where the page is then dirty, or could be stored to.
LEMMA Rewritten ==
    ASSUME NEW C, CacheOK(C), NEW K \in [FPage -> Entry],
           \A p \in FPage :
              /\ K[p].used = C.cache[p].used /\ (C.cache[p].dirty => K[p].dirty)
              /\ K[p].dirty => C.cache[p].used
              /\ K[p].val = C.cache[p].val \/ K[p].dirty \/ ~Protected(C, p)
    PROVE  LET D == [C EXCEPT !.cache = K]
           IN /\ CacheOK(D) /\ D.cache = K /\ D.disk = C.disk /\ D.pte = C.pte /\ D.lru = C.lru
              /\ \A p \in FPage : /\ Tracked(C, p) => Tracked(D, p)
                                  /\ K[p].val = C.cache[p].val => ContentOf(D, p) = ContentOf(C, p)
                                  /\ ~C.cache[p].used => ContentOf(D, p) = ContentOf(C, p)
<1> DEFINE D == [C EXCEPT !.cache = K]
<1>1. /\ C \in States /\ PageSeq(C.lru) /\ Len(C.lru) <= Slots
      /\ \A p \in FPage : PageOK(C, p)
  BY Zenon DEF CacheOK
<1>2. D \in States /\ D.cache = K /\ D.disk = C.disk /\ D.pte = C.pte /\ D.lru = C.lru
  BY <1>1, Zenon DEF States
<1> HIDE DEF D
<1>3. ASSUME NEW p \in FPage
      PROVE  /\ PageOK(D, p)
             /\ Tracked(C, p) => Tracked(D, p)
             /\ K[p].val = C.cache[p].val => ContentOf(D, p) = ContentOf(C, p)
             /\ ~C.cache[p].used => ContentOf(D, p) = ContentOf(C, p)
  <2>1. (Pinned(D, p) <=> Pinned(C, p)) /\ (Protected(D, p) <=> Protected(C, p))
    BY <1>2, Zenon DEF Pinned, Protected
  <2>2. PageOK(C, p)
    BY <1>1, Zenon
  <2>3. PageOK(D, p)
    BY <1>2, <2>1, <2>2, Zenon DEF PageOK
  <2> QED BY <1>2, <2>1, <2>3, Zenon DEF Tracked, ContentOf
<1>4. CacheOK(D)
  BY <1>1, <1>2, <1>3, Zenon DEF CacheOK
<1> QED BY <1>2, <1>3, <1>4, Zenon DEF D

\* New mappings: of cached pages, and no page becomes protected while it may differ
\* from the disk.
Mapping(C, T) ==
    /\ T \in [Task -> [FPage -> {"none", "ro", "rw"}]]
    /\ \A p \in FPage :
          /\ (\E t \in Task : T[t][p] # "none") => C.cache[p].used
          /\ (\A t \in Task : T[t][p] # "rw") => C.cache[p].dirty \/ Protected(C, p)

Remap(C, T) == [C EXCEPT !.pte = T]

IsRemapped(C, T, D) ==
    /\ CacheOK(D) /\ D.pte = T
    /\ \A p \in FPage : ContentOf(D, p) = ContentOf(C, p)
    /\ \A p \in FPage : Tracked(D, p) <=> (C.cache[p].dirty \/ \A t \in Task : T[t][p] # "rw")

LEMMA Remapped ==
    ASSUME NEW C, CacheOK(C), NEW T, Mapping(C, T)
    PROVE  IsRemapped(C, T, Remap(C, T))
<1> DEFINE D == Remap(C, T)
<1>0. T \in [Task -> [FPage -> {"none", "ro", "rw"}]]
  BY Zenon DEF Mapping
<1>1. /\ C \in States /\ PageSeq(C.lru) /\ Len(C.lru) <= Slots
      /\ \A p \in FPage : PageOK(C, p)
  BY Zenon DEF CacheOK
<1>2. D \in States /\ D.cache = C.cache /\ D.disk = C.disk /\ D.pte = T /\ D.lru = C.lru
  BY <1>0, <1>1, Zenon DEF States, Remap
<1> HIDE DEF D
<1>3. ASSUME NEW p \in FPage
      PROVE  /\ PageOK(D, p) /\ ContentOf(D, p) = ContentOf(C, p)
             /\ Tracked(D, p) <=> (C.cache[p].dirty \/ \A t \in Task : T[t][p] # "rw")
  <2>1. /\ Pinned(D, p) <=> \E t \in Task : T[t][p] # "none"
        /\ Protected(D, p) <=> \A t \in Task : T[t][p] # "rw"
    BY <1>2, Zenon DEF Pinned, Protected
  <2>2. PageOK(C, p)
    BY <1>1, Zenon
  <2>3. PageOK(D, p)
    BY <1>2, <2>1, <2>2, Zenon DEF PageOK, Mapping
  <2> QED BY <1>2, <2>1, <2>3, Zenon DEF Tracked, ContentOf
<1>4. CacheOK(D)
  BY <1>1, <1>2, <1>3, Zenon DEF CacheOK
<1> QED BY <1>2, <1>3, <1>4, Zenon DEF IsRemapped, D

\* A page is marked dirty, and perhaps written, and touched.
Mark(C, p, e) == Touch([C EXCEPT !.cache[p] = e], p)

IsMarked(C, p, e, D) ==
    /\ CacheOK(D) /\ D.pte = C.pte /\ D.blocked = C.blocked
    /\ DirtyPages(D) = DirtyPages(C) \cup {p} /\ D.cache[p] = e
    /\ Len(D.lru) > 0 /\ D.lru[Len(D.lru)] = p
    /\ \A q \in FPage : Tracked(C, q) => Tracked(D, q)
    /\ \A q \in FPage : q # p => ContentOf(D, q) = ContentOf(C, q)
    /\ e.val = C.cache[p].val => ContentOf(D, p) = ContentOf(C, p)

LEMMA MarkOK ==
    ASSUME NEW C, CacheOK(C), NEW p \in FPage, C.cache[p].used, NEW e \in Entry,
           e.used = TRUE, e.dirty = TRUE
    PROVE  IsMarked(C, p, e, Mark(C, p, e))
<1> DEFINE K == [C.cache EXCEPT ![p] = e]
           B == [C EXCEPT !.cache = K]
           D == Touch(B, p)
<1>1. C.cache \in [FPage -> Entry]
  BY Zenon DEF CacheOK, States
<1>2. /\ K \in [FPage -> Entry] /\ K[p] = e /\ \A q \in FPage : q # p => K[q] = C.cache[q]
  BY <1>1
<1>3. Mark(C, p, e) = D
  BY Zenon DEF Mark
<1>b. D.blocked = C.blocked
  BY Zenon DEF Touch, CacheOK, States
<1> HIDE DEF K
<1>4. \A q \in FPage :
         /\ K[q].used = C.cache[q].used
         /\ C.cache[q].dirty => K[q].dirty
         /\ K[q].dirty => C.cache[q].used
         /\ K[q].val = C.cache[q].val \/ K[q].dirty \/ ~Protected(C, q)
  <2> TAKE q \in FPage
  <2>1. CASE q = p
    <3>1. C.cache[p].used = TRUE
      BY <1>1 DEF Entry
    <3> QED BY <1>2, <2>1, <3>1, Zenon
  <2>2. CASE q # p
    <3>1. C.cache[q].dirty => C.cache[q].used
      BY Zenon DEF CacheOK, PageOK
    <3> QED BY <1>2, <2>2, <3>1, Zenon
  <2> QED BY <2>1, <2>2
<1>5. /\ CacheOK(B) /\ B.cache = K /\ B.pte = C.pte
      /\ \A q \in FPage : /\ Tracked(C, q) => Tracked(B, q)
                          /\ K[q].val = C.cache[q].val => ContentOf(B, q) = ContentOf(C, q)
  BY <1>2, <1>4, Rewritten, ZenonT(40)
<1> HIDE DEF B
<1>6. B.cache[p].used
  BY <1>2, <1>5, Zenon
<1>7. /\ Invisible(B, D) /\ D.cache = B.cache /\ D.pte = B.pte
      /\ Len(D.lru) > 0 /\ D.lru[Len(D.lru)] = p
  BY <1>5, <1>6, TouchOK, Zenon
<1> HIDE DEF D
<1>8. DirtyPages(D) = DirtyPages(C) \cup {p}
  <2>1. \A q \in FPage : D.cache[q].dirty <=> (C.cache[q].dirty \/ q = p)
    BY <1>2, <1>5, <1>7, Zenon
  <2> QED BY <2>1 DEF DirtyPages
<1>9. \A q \in FPage : /\ Tracked(C, q) => Tracked(D, q)
                       /\ q # p \/ e.val = C.cache[p].val => ContentOf(D, q) = ContentOf(C, q)
  <2> TAKE q \in FPage
  <2>1. ContentOf(D, q) = ContentOf(B, q) /\ (Tracked(B, q) => Tracked(D, q))
    BY <1>7, Zenon DEF Invisible
  <2>2. q # p \/ e.val = C.cache[p].val => K[q].val = C.cache[q].val
    BY <1>2, Zenon
  <2> QED BY <1>5, <2>1, <2>2, Zenon
<1>10. CacheOK(D) /\ D.pte = C.pte /\ D.cache[p] = e
  BY <1>2, <1>5, <1>7, Zenon DEF Invisible
<1> QED BY <1>3, <1>b, <1>7, <1>8, <1>9, <1>10, Zenon DEF IsMarked, D

-----------------------------------------------------------------------------
\* The invariant, and what each action does to it.

IInv == /\ CacheOK(Now)
        /\ live \subseteq Task
        /\ \A t \in Task \ live, p \in FPage : pte[t][p] = "none"
        /\ last \in Ops

\* The call o on page p marked it dirty at the critical mark and wrote it back.
Crowded(p, o) == /\ o.op = "fault" /\ o.page = p /\ ~blocked
                 /\ Cardinality(DirtyPages(Now) \cup {p}) >= Critical

\* The second half of SyncIsDurable.
Synced == last.op = "fsync" /\ last.ok =>
             \A p \in FPage : Tracked(Now, p) => disk[p] = Content(p)

\* What a step must do.
StepOK ==
    /\ IInv'
    /\ \A p \in FPage : ContentOf(Now', p) # ContentOf(Now, p) =>
          last'.op = "write" /\ last'.page = p /\ last'.ok
    /\ \A p \in FPage : Tracked(Now, p) => Tracked(Now', p) \/ Crowded(p, last')
    /\ last'.op = "fsync" /\ last'.ok =>
          \A p \in FPage : Tracked(Now', p) => Now'.disk[p] = ContentOf(Now', p)

LEMMA NowIs ==
    /\ Now.cache = cache /\ Now.lru = lru /\ Now.disk = disk /\ Now.pte = pte
    /\ Now.blocked = blocked
BY DEF Now

LEMMA BecomesIs ==
    ASSUME NEW D \in States, NEW op, NEW p, NEW ok, Becomes(D, op, p, ok)
    PROVE  Now' = D /\ last' = [op |-> op, page |-> p, ok |-> ok] /\ pte' = D.pte
<1>1. /\ cache' = D.cache /\ lru' = D.lru /\ disk' = D.disk /\ pte' = D.pte
      /\ blocked' = D.blocked /\ last' = [op |-> op, page |-> p, ok |-> ok]
  BY Zenon DEF Becomes
<1>2. D = [cache |-> D.cache, lru |-> D.lru, disk |-> D.disk, pte |-> D.pte,
           blocked |-> D.blocked]
  BY DEF States
<1> QED BY <1>1, <1>2, Zenon DEF Now

\* A step to D that changes contents only by a write, keeps track of what may be
\* stored to, and after an fsync without error leaves nothing dirty.
LEMMA Step ==
    ASSUME IInv, NEW D, CacheOK(D), NEW o \in Ops, Becomes(D, o.op, o.page, o.ok),
           live' \subseteq Task, \A t \in Task \ live', q \in FPage : D.pte[t][q] = "none",
           \A q \in FPage : ContentOf(D, q) # ContentOf(Now, q) =>
              o.op = "write" /\ o.page = q /\ o.ok,
           \A q \in FPage : Tracked(Now, q) => Tracked(D, q) \/ Crowded(q, o),
           o.op = "fsync" /\ o.ok => \A q \in FPage : ~D.cache[q].dirty
    PROVE  StepOK
<1>1. D \in States /\ \A q \in FPage : PageOK(D, q)
  BY Zenon DEF CacheOK
<1>2. o = [op |-> o.op, page |-> o.page, ok |-> o.ok]
  BY DEF Ops
<1>3. Now' = D /\ last' = o /\ pte' = D.pte
  BY <1>1, <1>2, BecomesIs, ZenonT(40)
<1>4. IInv'
  BY <1>3, Zenon DEF IInv
<1>5. \A q \in FPage : Tracked(Now, q) => Tracked(Now', q) \/ Crowded(q, last')
  BY <1>3, Zenon
<1>6. ASSUME o.op = "fsync", o.ok, NEW q \in FPage, Tracked(D, q)
      PROVE  D.disk[q] = ContentOf(D, q)
  BY <1>1, <1>6, Zenon DEF PageOK, Tracked, ContentOf
<1> QED BY <1>3, <1>4, <1>5, <1>6, Zenon DEF StepOK

\* A step readers cannot tell.
LEMMA QuietStep ==
    ASSUME IInv, NEW D, Invisible(Now, D), NEW o \in Ops, Becomes(D, o.op, o.page, o.ok),
           live' = live, o.op = "fsync" /\ o.ok => \A q \in FPage : ~D.cache[q].dirty
    PROVE  StepOK
<1>1. /\ CacheOK(D) /\ \A q \in FPage : ContentOf(D, q) = ContentOf(Now, q)
      /\ \A q \in FPage : Tracked(Now, q) => Tracked(D, q)
      /\ \A t \in Task, q \in FPage : D.pte[t][q] = "none" <=> pte[t][q] = "none"
  BY NowIs, Zenon DEF Invisible
<1>2. /\ live' \subseteq Task
      /\ \A t \in Task \ live', q \in FPage : D.pte[t][q] = "none"
  BY <1>1, Zenon DEF IInv
<1> QED BY <1>1, <1>2, Step, Zenon

LEMMA FailStep ==
    ASSUME IInv, NEW op \in {"read", "write", "fault"}, NEW p \in FPage, NEW io \in BOOLEAN,
           Fails(op, p, io)
    PROVE  StepOK
<1>1. PICK b \in BOOLEAN : Becomes([Now EXCEPT !.blocked = b], op, p, FALSE)
  BY Zenon DEF Fails
<1> DEFINE D == [Now EXCEPT !.blocked = b]
           o == [op |-> op, page |-> p, ok |-> FALSE]
<1>2. Invisible(Now, D)
  BY Blocking, Zenon DEF IInv
<1>3. o \in Ops /\ o.op = op /\ o.page = p /\ o.ok = FALSE
  BY DEF Ops
<1>4. live' = live
  BY Zenon DEF Fails
<1> HIDE DEF D, o
<1>5. Becomes(D, o.op, o.page, o.ok)
  BY <1>1, <1>3, Zenon DEF D
<1> QED BY <1>2, <1>3, <1>4, <1>5, QuietStep, Zenon

LEMMA ReadStep ==
    ASSUME IInv, NEW p \in FPage, pagecache_read(p)
    PROVE  StepOK
<1>1. PICK io \in BOOLEAN :
        \/ Fails("read", p, io)
        \/ /\ Gets(Now, p, io)
           /\ Becomes(pagecache_get_or_create(Now, p, io), "read", p, TRUE)
           /\ UNCHANGED live
  BY Zenon DEF pagecache_read
<1>2. CASE Fails("read", p, io)
  BY <1>2, FailStep, Zenon
<1>3. CASE /\ Gets(Now, p, io)
           /\ Becomes(pagecache_get_or_create(Now, p, io), "read", p, TRUE)
           /\ UNCHANGED live
  <2> DEFINE D == pagecache_get_or_create(Now, p, io)
             o == [op |-> "read", page |-> p, ok |-> TRUE]
  <2>1. Invisible(Now, D)
    BY <1>3, GetOK, Zenon DEF IInv
  <2>2. o \in Ops /\ o.op = "read" /\ o.page = p /\ o.ok = TRUE /\ "read" # "fsync"
    BY DEF Ops
  <2> HIDE DEF D, o
  <2>3. Becomes(D, o.op, o.page, o.ok) /\ live' = live
    BY <1>3, <2>2, Zenon DEF D
  <2> QED BY <2>1, <2>2, <2>3, QuietStep, Zenon
<1> QED BY <1>1, <1>2, <1>3, Zenon

LEMMA WriteStep ==
    ASSUME IInv, NEW p \in FPage, NEW v \in Value, pagecache_write(p, v)
    PROVE  StepOK
<1> DEFINE C(io) == pagecache_get_or_create(Now, p, io)
           E(io) == Touch([C(io) EXCEPT !.cache[p] = [@ EXCEPT !.val = v, !.dirty = TRUE]], p)
<1>1. PICK io \in BOOLEAN :
        \/ Fails("write", p, io)
        \/ /\ Gets(Now, p, io)
           /\ \E n \in Stores(E(io), PressureBudget(E(io))) :
                 Becomes(pagecache_maybe_writeback_pressure(E(io), n), "write", p, TRUE)
           /\ UNCHANGED live
  BY Zenon DEF pagecache_write
<1>2. CASE Fails("write", p, io)
  BY <1>2, FailStep, Zenon
<1>3. CASE /\ Gets(Now, p, io)
           /\ \E n \in Stores(E(io), PressureBudget(E(io))) :
                 Becomes(pagecache_maybe_writeback_pressure(E(io), n), "write", p, TRUE)
           /\ UNCHANGED live
  <2> DEFINE A == C(io)
             e == [A.cache[p] EXCEPT !.val = v, !.dirty = TRUE]
             M == Mark(A, p, e)
  <2>1. Invisible(Now, A) /\ A.cache[p].used /\ A.pte = pte
    BY <1>3, GetOK, NowIs, Zenon DEF IInv
  <2>2. CacheOK(A)
    BY <2>1, Zenon DEF Invisible
  <2>3. E(io) = M
    BY Zenon DEF Mark
  <2> HIDE DEF A
  <2>4. e \in Entry /\ e.used = TRUE /\ e.dirty = TRUE
    <3>1. A.cache[p] \in Entry
      BY <2>2, Zenon DEF CacheOK, States
    <3> QED BY <2>1, <3>1, Zenon DEF Entry
  <2> HIDE DEF e
  <2>5. /\ CacheOK(M) /\ M.pte = A.pte
        /\ \A q \in FPage : /\ Tracked(A, q) => Tracked(M, q)
                            /\ q # p => ContentOf(M, q) = ContentOf(A, q)
    <3>1. IsMarked(A, p, e, M)
      BY <2>1, <2>2, <2>4, MarkOK, Zenon
    <3> QED BY <3>1, Zenon DEF IsMarked
  <2> HIDE DEF M, E
  <2>6. PICK n \in Stores(M, PressureBudget(M)) :
          Becomes(pagecache_maybe_writeback_pressure(M, n), "write", p, TRUE)
    BY <1>3, <2>3, Zenon
  <2> DEFINE D == pagecache_maybe_writeback_pressure(M, n)
             o == [op |-> "write", page |-> p, ok |-> TRUE]
  <2>7. Invisible(M, D)
    BY <2>5, PressureOK, Zenon
  <2>8. o \in Ops /\ o.op = "write" /\ o.page = p /\ o.ok = TRUE /\ "write" # "fsync"
    BY DEF Ops
  <2> HIDE DEF D, o
  <2>9. Becomes(D, o.op, o.page, o.ok) /\ live' = live
    BY <1>3, <2>6, <2>8, Zenon DEF D
  <2>10. /\ CacheOK(D)
         /\ \A q \in FPage : /\ Tracked(Now, q) => Tracked(D, q)
                             /\ q # p => ContentOf(D, q) = ContentOf(Now, q)
    BY <2>1, <2>5, <2>7, Zenon DEF Invisible
  <2>11. \A t \in Task \ live', q \in FPage : D.pte[t][q] = "none"
    <3>1. \A t \in Task, q \in FPage : D.pte[t][q] = "none" <=> pte[t][q] = "none"
      <4>1. M.pte = pte
        BY <2>1, <2>5, Zenon
      <4> QED BY <2>7, <4>1, Zenon DEF Invisible
    <3> QED BY <2>9, <3>1, Zenon DEF IInv
  <2>12. live' \subseteq Task
    BY <2>9, Zenon DEF IInv
  <2> QED BY <2>8, <2>9, <2>10, <2>11, <2>12, Step, Zenon
<1> QED BY <1>1, <1>2, <1>3, Zenon

LEMMA SharedFaultStep ==
    ASSUME IInv, NEW t \in Task, NEW p \in FPage, SharedFault(t, p)
    PROVE  StepOK
<1>1. PICK io \in BOOLEAN :
        \/ Fails("fault", p, io)
        \/ /\ Gets(Now, p, io)
           /\ Becomes([pagecache_get_or_create(Now, p, io) EXCEPT !.pte[t][p] = "ro"],
                      "fault", p, TRUE)
           /\ UNCHANGED live
  BY Zenon DEF SharedFault
<1>2. CASE Fails("fault", p, io)
  BY <1>2, FailStep, Zenon
<1>3. CASE /\ Gets(Now, p, io)
           /\ Becomes([pagecache_get_or_create(Now, p, io) EXCEPT !.pte[t][p] = "ro"],
                      "fault", p, TRUE)
           /\ UNCHANGED live
  <2> DEFINE C == pagecache_get_or_create(Now, p, io)
             T == [pte EXCEPT ![t][p] = "ro"]
             D == Remap(C, T)
             o == [op |-> "fault", page |-> p, ok |-> TRUE]
  <2>1. Invisible(Now, C) /\ C.cache[p].used /\ C.pte = pte
    BY <1>3, GetOK, NowIs, Zenon DEF IInv
  <2>2. [C EXCEPT !.pte[t][p] = "ro"] = D
    BY <2>1, Zenon DEF Remap
  <2>3. Becomes(D, "fault", p, TRUE) /\ live' = live
    BY <1>3, <2>2, Zenon
  <2> HIDE DEF C
  <2>4. CacheOK(C) /\ t \in live /\ pte[t][p] = "none"
    BY <2>1, Zenon DEF Invisible, SharedFault
  <2>5. pte \in [Task -> [FPage -> {"none", "ro", "rw"}]]
    BY <2>1, <2>4, Zenon DEF CacheOK, States
  <2>6. /\ T \in [Task -> [FPage -> {"none", "ro", "rw"}]]
        /\ \A u \in Task, q \in FPage :
              /\ T[u][q] = IF u = t /\ q = p THEN "ro" ELSE pte[u][q]
              /\ T[u][q] = "rw" <=> pte[u][q] = "rw"
    BY <2>4, <2>5
  <2> HIDE DEF T
  <2>7. \A q \in FPage : (\A u \in Task : T[u][q] # "rw") <=> Protected(C, q)
    BY <2>1, <2>6, Zenon DEF Protected
  <2>8. \A q \in FPage : (\E u \in Task : T[u][q] # "none") => C.cache[q].used
    <3> SUFFICES ASSUME NEW q \in FPage, NEW u \in Task, T[u][q] # "none"
                 PROVE  C.cache[q].used
      BY Zenon
    <3>1. CASE q = p
      BY <2>1, <3>1, Zenon
    <3>2. CASE q # p
      <4>1. pte[u][q] # "none"
        BY <2>6, <3>2, Zenon
      <4> QED BY <2>1, <2>4, <4>1, Zenon DEF CacheOK, PageOK, Pinned
    <3> QED BY <3>1, <3>2, Zenon
  <2>m. Mapping(C, T)
    BY <2>6, <2>7, <2>8, Zenon DEF Mapping
  <2>9. /\ CacheOK(D) /\ D.pte = T
        /\ \A q \in FPage :
              /\ ContentOf(D, q) = ContentOf(C, q)
              /\ Tracked(D, q) <=> (C.cache[q].dirty \/ \A u \in Task : T[u][q] # "rw")
    <3>1. IsRemapped(C, T, D)
      BY <2>4, <2>m, Remapped, Zenon
    <3> QED BY <3>1, Zenon DEF IsRemapped
  <2> HIDE DEF D
  <2>10. \A q \in FPage : /\ Tracked(Now, q) => Tracked(D, q)
                          /\ ContentOf(D, q) = ContentOf(Now, q)
    BY <2>1, <2>7, <2>9, Zenon DEF Invisible, Tracked
  <2>11. /\ live' \subseteq Task
         /\ \A u \in Task \ live', q \in FPage : D.pte[u][q] = "none"
    <3>1. \A u \in Task \ live, q \in FPage : D.pte[u][q] = "none"
      <4> TAKE u \in Task \ live, q \in FPage
      <4>1. u # t /\ pte[u][q] = "none"
        BY <2>4, Zenon DEF IInv
      <4> QED BY <2>6, <2>9, <4>1, Zenon
    <3> QED BY <2>3, <3>1, Zenon DEF IInv
  <2>12. o \in Ops /\ o.op = "fault" /\ o.page = p /\ o.ok = TRUE /\ "fault" # "fsync"
    BY DEF Ops
  <2> HIDE DEF o
  <2>13. Becomes(D, o.op, o.page, o.ok)
    BY <2>3, <2>12, Zenon
  <2> QED BY <2>9, <2>10, <2>11, <2>12, <2>13, Step, Zenon
<1> QED BY <1>1, <1>2, <1>3, Zenon

LEMMA WriteFaultStep ==
    ASSUME IInv, NEW t \in Task, NEW p \in FPage, WriteFault(t, p)
    PROVE  StepOK
<1> DEFINE e == [cache[p] EXCEPT !.dirty = TRUE]
           M == Mark(Now, p, e)
           o == [op |-> "fault", page |-> p, ok |-> TRUE]
<1>1. /\ CacheOK(Now) /\ t \in live /\ pte[t][p] = "ro" /\ live' = live
  BY Zenon DEF IInv, WriteFault
<1>2. PICK n \in Stores(M, PressureBudget(M)) :
        Becomes([pagecache_maybe_writeback_pressure(M, n) EXCEPT !.pte[t][p] = "rw"],
                "fault", p, TRUE)
  <2>1. Touch([Now EXCEPT !.cache[p].dirty = TRUE], p) = M
    BY NowIs, Zenon DEF Mark
  <2> QED BY <2>1, Zenon DEF WriteFault
<1>3. Now.cache[p].used /\ cache[p] \in Entry
  <2>1. "ro" # "none"
    OBVIOUS
  <2>2. Pinned(Now, p)
    BY <1>1, <2>1, NowIs, Zenon DEF Pinned
  <2> QED BY <1>1, <2>2, NowIs, Zenon DEF CacheOK, PageOK, States
<1>4. e \in Entry /\ e.used = TRUE /\ e.dirty = TRUE /\ e.val = cache[p].val
  BY <1>3, NowIs, Zenon DEF Entry
<1> HIDE DEF e
<1>5. IsMarked(Now, p, e, M)
  BY <1>1, <1>3, <1>4, MarkOK, Zenon
<1> HIDE DEF M
<1> DEFINE B == pagecache_maybe_writeback_pressure(M, n)
           T == [B.pte EXCEPT ![t][p] = "rw"]
           D == Remap(B, T)
<1>6. /\ CacheOK(M) /\ M.pte = pte /\ M.blocked = blocked /\ DirtyPages(M) = DirtyPages(Now) \cup {p}
      /\ M.cache[p].dirty /\ Len(M.lru) > 0 /\ M.lru[Len(M.lru)] = p
      /\ \A q \in FPage : Tracked(Now, q) => Tracked(M, q)
      /\ \A q \in FPage : ContentOf(M, q) = ContentOf(Now, q)
  BY <1>4, <1>5, NowIs, Zenon DEF IsMarked
<1>7. /\ Invisible(M, B)
      /\ blocked \/ Cardinality(DirtyPages(M)) < Critical => B.cache[p].dirty
  BY <1>6, PressureOK, Zenon
<1>8. Becomes(D, "fault", p, TRUE)
  BY <1>2, Zenon DEF Remap
<1> HIDE DEF B
<1>9. /\ CacheOK(B) /\ \A u \in Task, q \in FPage : B.pte[u][q] = "none" <=> pte[u][q] = "none"
  BY <1>6, <1>7, Zenon DEF Invisible
<1>10. B.pte \in [Task -> [FPage -> {"none", "ro", "rw"}]]
  BY <1>9, Zenon DEF CacheOK, States
<1>11. /\ T \in [Task -> [FPage -> {"none", "ro", "rw"}]] /\ T[t][p] = "rw"
       /\ \A u \in Task, q \in FPage : u # t \/ q # p => T[u][q] = B.pte[u][q]
  BY <1>10
<1> HIDE DEF T
<1>12. B.pte[t][p] # "none"
  <2>1. "ro" # "none"
    OBVIOUS
  <2> QED BY <1>1, <1>9, <2>1, Zenon
<1>13. \A u \in Task, q \in FPage : T[u][q] # "none" <=> B.pte[u][q] # "none"
  <2>1. "rw" # "none"
    OBVIOUS
  <2> QED BY <1>11, <1>12, <2>1, Zenon
<1>14. Mapping(B, T)
  <2>1. \A q \in FPage : (\E u \in Task : T[u][q] # "none") => B.cache[q].used
    BY <1>9, <1>13, Zenon DEF CacheOK, PageOK, Pinned
  <2>2. \A q \in FPage : (\A u \in Task : T[u][q] # "rw") => Protected(B, q)
    BY <1>11, Zenon DEF Protected
  <2> QED BY <1>11, <2>1, <2>2, Zenon DEF Mapping
<1>15. IsRemapped(B, T, D)
  BY <1>9, <1>14, Remapped, Zenon
<1> HIDE DEF D
<1>19. o \in Ops /\ o.op = "fault" /\ o.page = p /\ o.ok = TRUE /\ "fault" # "fsync"
  BY DEF Ops
<1> HIDE DEF o
<1>m. Cardinality(DirtyPages(M)) < Critical \/ Cardinality(DirtyPages(M)) >= Critical
  <2>1. IsFiniteSet(DirtyPages(M))
    BY FS_Subset, CacheAssumption, Zenon DEF DirtyPages
  <2>2. Cardinality(DirtyPages(M)) \in Nat
    BY <2>1, FS_CardinalityType, Zenon
  <2> QED BY <2>2, CacheAssumption
<1>16. ASSUME NEW q \in FPage, Tracked(Now, q), ~Crowded(q, o) PROVE Tracked(D, q)
  <2>1. CASE q = p
    <3>1. blocked \/ ~(Cardinality(DirtyPages(M)) >= Critical)
      BY <1>6, <1>16, <1>19, <2>1, Zenon DEF Crowded
    <3>2. B.cache[p].dirty
      BY <1>7, <1>m, <3>1, Zenon
    <3> QED BY <1>15, <2>1, <3>2, Zenon DEF IsRemapped
  <2>2. CASE q # p
    <3>1. Tracked(B, q)
      BY <1>6, <1>7, <1>16, Zenon DEF Invisible
    <3>2. (\A u \in Task : T[u][q] # "rw") <=> Protected(B, q)
      BY <1>11, <2>2, Zenon DEF Protected
    <3> QED BY <1>15, <3>1, <3>2, Zenon DEF IsRemapped, Tracked
  <2> QED BY <2>1, <2>2
<1>17. CacheOK(D) /\ D.pte = T /\ \A q \in FPage : ContentOf(D, q) = ContentOf(Now, q)
  BY <1>6, <1>7, <1>15, Zenon DEF IsRemapped, Invisible
<1>18. /\ live' \subseteq Task
       /\ \A u \in Task \ live', q \in FPage : D.pte[u][q] = "none"
  <2>1. \A u \in Task \ live, q \in FPage : pte[u][q] = "none"
    BY Zenon DEF IInv
  <2>2. \A u \in Task \ live, q \in FPage : T[u][q] = "none"
    BY <1>9, <1>13, <2>1, Zenon
  <2> QED BY <1>1, <1>17, <2>2, Zenon DEF IInv
<1>20. Becomes(D, o.op, o.page, o.ok)
  BY <1>8, <1>19, Zenon
<1> QED BY <1>16, <1>17, <1>18, <1>19, <1>20, Step, Zenon

LEMMA StoreStep ==
    ASSUME IInv, NEW t \in Task, NEW p \in FPage, NEW v \in Value, Store(t, p, v)
    PROVE  StepOK
<1> DEFINE K == [cache EXCEPT ![p].val = v]
           D == [Now EXCEPT !.cache = K]
           o == [op |-> "write", page |-> p, ok |-> TRUE]
<1>1. CacheOK(Now) /\ pte[t][p] = "rw" /\ live' = live
  BY Zenon DEF IInv, Store
<1>2. Becomes(D, "write", p, TRUE)
  <2>1. [Now EXCEPT !.cache[p].val = v] = D
    BY NowIs, Zenon
  <2> QED BY <2>1, Zenon DEF Store
<1>3. cache \in [FPage -> Entry]
  BY <1>1, NowIs, Zenon DEF CacheOK, States
<1>4. /\ K \in [FPage -> Entry] /\ \A q \in FPage : q # p => K[q] = cache[q]
      /\ K[p].used = cache[p].used /\ K[p].dirty = cache[p].dirty
  BY <1>3 DEF Entry
<1> HIDE DEF K
<1>5. \A q \in FPage :
         /\ K[q].used = Now.cache[q].used
         /\ Now.cache[q].dirty => K[q].dirty
         /\ K[q].dirty => Now.cache[q].used
         /\ K[q].val = Now.cache[q].val \/ K[q].dirty \/ ~Protected(Now, q)
  <2> TAKE q \in FPage
  <2>1. cache[q].dirty => cache[q].used
    BY <1>1, NowIs, Zenon DEF CacheOK, PageOK
  <2>2. ~Protected(Now, p)
    BY <1>1, NowIs, Zenon DEF Protected
  <2>3. K[q].used = cache[q].used /\ K[q].dirty = cache[q].dirty
        /\ (q = p \/ K[q].val = cache[q].val)
    BY <1>4, Zenon
  <2> QED BY <2>1, <2>2, <2>3, NowIs, Zenon
<1>6. /\ CacheOK(D) /\ D.pte = pte
      /\ \A q \in FPage : /\ Tracked(Now, q) => Tracked(D, q)
                          /\ K[q].val = Now.cache[q].val => ContentOf(D, q) = ContentOf(Now, q)
  <2>1. K \in [FPage -> Entry] /\ CacheOK(Now)
    BY <1>1, <1>4
  <2>2. CacheOK(D) /\ D.pte = Now.pte
    BY <1>5, <2>1, Rewritten
  <2>3. \A q \in FPage : Tracked(Now, q) => Tracked(D, q)
    BY <1>5, <2>1, Rewritten
  <2>4. \A q \in FPage : K[q].val = Now.cache[q].val => ContentOf(D, q) = ContentOf(Now, q)
    BY <1>5, <2>1, Rewritten
  <2> QED BY <2>2, <2>3, <2>4, NowIs, Zenon
<1> HIDE DEF D
<1>7. \A q \in FPage : q # p => ContentOf(D, q) = ContentOf(Now, q)
  BY <1>4, <1>6, NowIs, Zenon
<1>8. o \in Ops /\ o.op = "write" /\ o.page = p /\ o.ok = TRUE /\ "write" # "fsync"
  BY DEF Ops
<1> HIDE DEF o
<1>9. Becomes(D, o.op, o.page, o.ok)
  BY <1>2, <1>8, Zenon
<1>10. /\ live' \subseteq Task
       /\ \A u \in Task \ live', q \in FPage : D.pte[u][q] = "none"
  BY <1>1, <1>6, Zenon DEF IInv
<1> QED BY <1>6, <1>7, <1>8, <1>9, <1>10, Step, Zenon

\* munmap and exit copy the dirtiness of a writable mapping to its page before
\* the mapping goes, so that nothing written through it is forgotten.
IsUnmapped(t, P, D) ==
    /\ CacheOK(D)
    /\ \A q \in FPage : ContentOf(D, q) = ContentOf(Now, q) /\ (Tracked(Now, q) => Tracked(D, q))
    /\ \A u \in Task, q \in FPage :
          D.pte[u][q] = IF u = t /\ q \in P THEN "none" ELSE pte[u][q]

LEMMA UnmappedOK ==
    ASSUME CacheOK(Now), NEW t \in Task, NEW P, P \subseteq FPage,
           NEW s \in Orders(Writable(t, P))
    PROVE  IsUnmapped(t, P, Unmapped(t, P, s))
<1> DEFINE rw == Writable(t, P)
           K == [q \in FPage |-> IF q \in rw THEN [cache[q] EXCEPT !.dirty = TRUE] ELSE cache[q]]
           l == Touched(lru, s)
           T == [pte EXCEPT ![t] = [q \in FPage |-> IF q \in P THEN "none" ELSE pte[t][q]]]
           A == [Now EXCEPT !.cache = K]
           B == [A EXCEPT !.lru = l]
           D == Remap(B, T)
<1>1. /\ Now \in States /\ cache \in [FPage -> Entry] /\ PageSeq(lru) /\ Len(lru) <= Slots
      /\ pte \in [Task -> [FPage -> {"none", "ro", "rw"}]]
      /\ \A q \in FPage : cache[q].used <=> q \in Range(lru)
  BY NowIs, Zenon DEF CacheOK, PageOK, States
<1>2. Unmapped(t, P, s) = D
  <2>1. Unmapped(t, P, s) = [Now EXCEPT !.cache = K, !.lru = l, !.pte = T]
    BY NowIs, Zenon DEF Unmapped
  <2>2. D = [[[Now EXCEPT !.cache = K] EXCEPT !.lru = l] EXCEPT !.pte = T]
    BY Zenon DEF Remap
  <2> HIDE DEF K, l, T, D
  <2>3. [[[Now EXCEPT !.cache = K] EXCEPT !.lru = l] EXCEPT !.pte = T]
          = [Now EXCEPT !.cache = K, !.lru = l, !.pte = T]
    BY <1>1 DEF States
  <2> QED BY <2>1, <2>2, <2>3
<1>3. rw \subseteq FPage /\ rw \subseteq Range(lru)
  <2>1. "rw" # "none"
    OBVIOUS
  <2>2. \A q \in rw : q \in FPage /\ Pinned(Now, q)
    BY <2>1, NowIs, Zenon DEF Pinned, Writable
  <2>3. \A q \in rw : cache[q].used
    BY <2>2, NowIs, Zenon DEF CacheOK, PageOK
  <2> QED BY <1>1, <2>2, <2>3, Zenon
<1>4. PageSeq(l) /\ Range(l) = Range(lru) /\ Len(l) <= Slots
  <2>1. PageSeq(s) /\ Range(s) = rw
    BY <1>3, OrdersAre, Zenon
  <2>2. PageSeq(l) /\ Range(l) = Range(lru) /\ Len(l) = Len(lru)
    BY <1>1, <1>3, <2>1, TouchedIs, Zenon DEF IsTouched
  <2> QED BY <1>1, <2>2, Zenon
<1>5. K \in [FPage -> Entry]
  BY <1>1, Zenon DEF Entry
<1>6. \A q \in FPage : /\ K[q].used = cache[q].used /\ K[q].val = cache[q].val
                       /\ q \in rw => K[q].dirty = TRUE
                       /\ q \notin rw => K[q].dirty = cache[q].dirty
  BY <1>1, Zenon DEF Entry
<1> HIDE DEF K, l
<1>7. \A q \in FPage :
         /\ K[q].used = Now.cache[q].used
         /\ Now.cache[q].dirty => K[q].dirty
         /\ K[q].dirty => Now.cache[q].used
         /\ K[q].val = Now.cache[q].val \/ K[q].dirty \/ ~Protected(Now, q)
  <2> TAKE q \in FPage
  <2>1. Now.cache[q].dirty => Now.cache[q].used
    BY Zenon DEF CacheOK, PageOK
  <2>2. q \in rw => cache[q].used
    BY <1>1, <1>3, Zenon
  <2> QED BY <1>6, <2>1, <2>2, NowIs, Zenon
<1>8. /\ CacheOK(A) /\ A.cache = K /\ A.pte = pte /\ A.lru = lru
      /\ \A q \in FPage : Tracked(Now, q) => Tracked(A, q)
      /\ \A q \in FPage : ContentOf(A, q) = ContentOf(Now, q)
  <2>1. CacheOK(A) /\ A.cache = K /\ A.pte = Now.pte /\ A.lru = Now.lru
    BY <1>5, <1>7, Rewritten
  <2>2. \A q \in FPage : Tracked(Now, q) => Tracked(A, q)
    BY <1>5, <1>7, Rewritten
  <2>3. \A q \in FPage : K[q].val = Now.cache[q].val => ContentOf(A, q) = ContentOf(Now, q)
    BY <1>5, <1>7, Rewritten
  <2> QED BY <1>6, <2>1, <2>2, <2>3, NowIs, Zenon
<1> HIDE DEF A
<1>9. /\ CacheOK(B) /\ B.cache = K /\ B.pte = pte /\ Invisible(A, B)
  BY <1>4, <1>8, Relisted, Zenon
<1> HIDE DEF B
<1>10. /\ T \in [Task -> [FPage -> {"none", "ro", "rw"}]]
       /\ \A u \in Task, q \in FPage :
             T[u][q] = IF u = t /\ q \in P THEN "none" ELSE pte[u][q]
  BY <1>1
<1> HIDE DEF T
<1>11. \A q \in FPage : /\ (\E u \in Task : T[u][q] # "none") => Pinned(B, q)
                        /\ (\A u \in Task : T[u][q] # "rw") => K[q].dirty \/ Protected(B, q)
  <2> TAKE q \in FPage
  <2>1. (\E u \in Task : T[u][q] # "none") => Pinned(B, q)
    BY <1>9, <1>10, Zenon DEF Pinned
  <2>2. ASSUME \A u \in Task : T[u][q] # "rw", q \notin rw PROVE Protected(B, q)
    <3>1. ASSUME NEW u \in Task PROVE pte[u][q] # "rw"
      BY <1>10, <2>2, Zenon DEF Writable
    <3> QED BY <1>9, <3>1, Zenon DEF Protected
  <2>3. q \in rw => K[q].dirty
    BY <1>6, Zenon
  <2> QED BY <2>1, <2>2, <2>3, Zenon
<1>12. Mapping(B, T)
  BY <1>9, <1>10, <1>11, Zenon DEF Mapping, CacheOK, PageOK
<1>13. IsRemapped(B, T, D)
  BY <1>9, <1>12, Remapped, Zenon
<1> HIDE DEF D
<1>14. ASSUME NEW q \in FPage PROVE ContentOf(D, q) = ContentOf(Now, q)
  <2>1. ContentOf(D, q) = ContentOf(B, q)
    BY <1>13, Zenon DEF IsRemapped
  <2>2. ContentOf(B, q) = ContentOf(A, q)
    BY <1>9, Zenon DEF Invisible
  <2> QED BY <1>8, <2>1, <2>2, Zenon
<1>15. ASSUME NEW q \in FPage, Tracked(Now, q) PROVE Tracked(D, q)
  <2>1. Tracked(B, q)
    BY <1>8, <1>9, <1>15, Zenon DEF Invisible
  <2>2. B.cache[q].dirty \/ \A u \in Task : B.pte[u][q] # "rw"
    BY <2>1, Zenon DEF Tracked, Protected
  <2>3. "none" # "rw"
    OBVIOUS
  <2>4. B.cache[q].dirty \/ \A u \in Task : T[u][q] # "rw"
    BY <1>9, <1>10, <2>2, <2>3, Zenon
  <2> QED BY <1>13, <2>4, Zenon DEF IsRemapped
<1>16. D.pte = T /\ CacheOK(D)
  BY <1>13, Zenon DEF IsRemapped
<1>17. IsUnmapped(t, P, D)
  BY <1>10, <1>14, <1>15, <1>16, Zenon DEF IsUnmapped
<1> QED BY <1>2, <1>17, Zenon

LEMMA MunmapStep ==
    ASSUME IInv, NEW t \in Task, NEW p \in FPage, Munmap(t, p)
    PROVE  StepOK
<1>0. PICK s \in Orders(Writable(t, {p})) : Becomes(Unmapped(t, {p}, s), "unmap", p, TRUE)
  BY Zenon DEF Munmap
<1> DEFINE D == Unmapped(t, {p}, s)
           o == [op |-> "unmap", page |-> p, ok |-> TRUE]
<1>1. CacheOK(Now) /\ Becomes(D, "unmap", p, TRUE) /\ live' = live /\ {p} \subseteq FPage
  BY <1>0, Zenon DEF IInv, Munmap
<1>2. IsUnmapped(t, {p}, D)
  BY <1>1, UnmappedOK, Zenon
<1> HIDE DEF D
<1>3. o \in Ops /\ o.op = "unmap" /\ o.page = p /\ o.ok = TRUE /\ "unmap" # "fsync"
  BY DEF Ops
<1> HIDE DEF o
<1>4. Becomes(D, o.op, o.page, o.ok)
  BY <1>1, <1>3, Zenon
<1>5. live' \subseteq Task /\ \A u \in Task \ live', q \in FPage : D.pte[u][q] = "none"
  BY <1>1, <1>2, Zenon DEF IInv, IsUnmapped
<1>6. CacheOK(D) /\ \A q \in FPage : ContentOf(D, q) = ContentOf(Now, q)
  BY <1>2, Zenon DEF IsUnmapped
<1>7. \A q \in FPage : Tracked(Now, q) => Tracked(D, q)
  BY <1>2, Zenon DEF IsUnmapped
<1> QED BY <1>3, <1>4, <1>5, <1>6, <1>7, Step, Zenon

LEMMA ExitStep ==
    ASSUME IInv, NEW t \in Task, Exit(t)
    PROVE  StepOK
<1>0. PICK s \in Orders(Writable(t, FPage)) : Becomes(Unmapped(t, FPage, s), "exit", 0, TRUE)
  BY Zenon DEF Exit
<1> DEFINE D == Unmapped(t, FPage, s)
           o == [op |-> "exit", page |-> 0, ok |-> TRUE]
<1>1. CacheOK(Now) /\ Becomes(D, "exit", 0, TRUE) /\ live' = live \ {t}
  BY <1>0, Zenon DEF IInv, Exit
<1>2. IsUnmapped(t, FPage, D)
  BY <1>1, UnmappedOK, Zenon
<1> HIDE DEF D
<1>3. o \in Ops /\ o.op = "exit" /\ o.page = 0 /\ o.ok = TRUE /\ "exit" # "fsync"
  BY DEF Ops
<1> HIDE DEF o
<1>4. Becomes(D, o.op, o.page, o.ok)
  BY <1>1, <1>3, Zenon
<1>5. live' \subseteq Task /\ \A u \in Task \ live', q \in FPage : D.pte[u][q] = "none"
  BY <1>1, <1>2, Zenon DEF IInv, IsUnmapped
<1>6. CacheOK(D) /\ \A q \in FPage : ContentOf(D, q) = ContentOf(Now, q)
  BY <1>2, Zenon DEF IsUnmapped
<1>7. \A q \in FPage : Tracked(Now, q) => Tracked(D, q)
  BY <1>2, Zenon DEF IsUnmapped
<1> QED BY <1>3, <1>4, <1>5, <1>6, <1>7, Step, Zenon

\* A fork that goes through copies mappings that are all writable or absent, and a
\* page mapped writable by the child is mapped writable by its parent.
LEMMA ForkStep ==
    ASSUME IInv, NEW t \in Task, NEW c \in Task, Fork(t, c)
    PROVE  StepOK
<1>1. CacheOK(Now) /\ live \subseteq Task /\ t \in live /\ c \notin live
      /\ \A u \in Task \ live, q \in FPage : pte[u][q] = "none"
  BY Zenon DEF IInv, Fork
<1>2. CASE Becomes(Now, "fork", 0, FALSE) /\ live' = live
  <2> DEFINE o == [op |-> "fork", page |-> 0, ok |-> FALSE]
  <2>1. o \in Ops /\ o.op = "fork" /\ o.page = 0 /\ o.ok = FALSE /\ "fork" # "fsync"
    BY DEF Ops
  <2> HIDE DEF o
  <2>2. Invisible(Now, Now)
    BY <1>1, Zenon DEF Invisible
  <2>3. Becomes(Now, o.op, o.page, o.ok)
    BY <1>2, <2>1, Zenon
  <2> QED BY <1>2, <2>1, <2>2, <2>3, QuietStep, Zenon
<1>3. CASE Becomes([Now EXCEPT !.pte[c] = pte[t]], "fork", 0, TRUE) /\ live' = live \cup {c}
  <2> DEFINE T == [pte EXCEPT ![c] = pte[t]]
             D == Remap(Now, T)
             o == [op |-> "fork", page |-> 0, ok |-> TRUE]
  <2>1. Becomes(D, "fork", 0, TRUE)
    BY <1>3, NowIs, Zenon DEF Remap
  <2>2. pte \in [Task -> [FPage -> {"none", "ro", "rw"}]]
    BY <1>1, NowIs, Zenon DEF CacheOK, States
  <2>3. /\ T \in [Task -> [FPage -> {"none", "ro", "rw"}]]
        /\ \A u \in Task : T[u] = IF u = c THEN pte[t] ELSE pte[u]
    BY <2>2
  <2> HIDE DEF T
  <2>4. \A q \in FPage : (\A u \in Task : T[u][q] # "rw") <=> Protected(Now, q)
    <3> TAKE q \in FPage
    <3>1. ASSUME \A u \in Task : T[u][q] # "rw" PROVE Protected(Now, q)
      <4>1. ASSUME NEW u \in Task PROVE pte[u][q] # "rw"
        <5>1. pte[c][q] = "none" /\ "none" # "rw"
          BY <1>1
        <5>2. CASE u = c
          BY <5>1, <5>2, Zenon
        <5>3. CASE u # c
          BY <2>3, <3>1, <5>3, Zenon
        <5> QED BY <5>2, <5>3
      <4> QED BY <4>1, NowIs, Zenon DEF Protected
    <3>2. Protected(Now, q) => \A u \in Task : T[u][q] # "rw"
      BY <2>3, NowIs, Zenon DEF Protected
    <3> QED BY <3>1, <3>2
  <2>5. \A q \in FPage : (\E u \in Task : T[u][q] # "none") => Pinned(Now, q)
    BY <2>3, NowIs, Zenon DEF Pinned
  <2>6. Mapping(Now, T)
    BY <1>1, <2>3, <2>4, <2>5, Zenon DEF Mapping, CacheOK, PageOK
  <2>7. IsRemapped(Now, T, D)
    BY <1>1, <2>6, Remapped, Zenon
  <2> HIDE DEF D
  <2>8. CacheOK(D) /\ D.pte = T /\ \A q \in FPage : ContentOf(D, q) = ContentOf(Now, q)
    BY <2>7, Zenon DEF IsRemapped
  <2>9. \A q \in FPage : Tracked(Now, q) => Tracked(D, q)
    BY <2>4, <2>7, Zenon DEF IsRemapped, Tracked
  <2>10. live' \subseteq Task /\ \A u \in Task \ live', q \in FPage : D.pte[u][q] = "none"
    <3>1. \A u \in Task \ live' : u \in Task \ live /\ u # c
      BY <1>3, Zenon
    <3>2. live' \subseteq Task
      BY <1>1, <1>3, Zenon
    <3>3. ASSUME NEW u \in Task \ live', NEW q \in FPage PROVE D.pte[u][q] = "none"
      <4>1. u \in Task \ live /\ u # c
        BY <3>1
      <4>2. D.pte[u][q] = pte[u][q]
        BY <2>3, <2>8, <4>1, Zenon
      <4> QED BY <1>1, <4>1, <4>2, Zenon
    <3> QED BY <3>2, <3>3
  <2>11. o \in Ops /\ o.op = "fork" /\ o.page = 0 /\ o.ok = TRUE /\ "fork" # "fsync"
    BY DEF Ops
  <2> HIDE DEF o
  <2>12. Becomes(D, o.op, o.page, o.ok)
    BY <2>1, <2>11, Zenon
  <2> QED BY <2>8, <2>9, <2>10, <2>11, <2>12, Step, Zenon
<1> QED BY <1>2, <1>3, Zenon DEF Fork

LEMMA FsyncStep ==
    ASSUME IInv, Fsync
    PROVE  StepOK
<1>1. PICK n \in Stores(Now, Slots) :
        Becomes(pagecache_flush_match(Now, Slots, n), "fsync", 0, FlushOk(Now, Slots, n))
  BY Zenon DEF Fsync
<1> DEFINE D == pagecache_flush_match(Now, Slots, n)
           ok == FlushOk(Now, Slots, n)
           o == [op |-> "fsync", page |-> 0, ok |-> ok]
<1>2. CacheOK(Now) /\ Slots \in Nat /\ live' = live
  BY CacheAssumption, Zenon DEF IInv, Fsync
<1>3. Invisible(Now, D) /\ (ok => \A q \in FPage : ~D.cache[q].dirty)
  BY <1>2, FlushOK, Zenon
<1>4. ok \in BOOLEAN
  BY DEF FlushOk
<1> HIDE DEF D, ok
<1>5. o \in Ops /\ o.op = "fsync" /\ o.page = 0 /\ o.ok = ok
  BY <1>4 DEF Ops
<1> HIDE DEF o
<1>6. Becomes(D, o.op, o.page, o.ok)
  BY <1>1, <1>5, Zenon DEF D, ok
<1> QED BY <1>2, <1>3, <1>5, <1>6, QuietStep, Zenon

LEMMA TickStep ==
    ASSUME IInv, pagecache_tick
    PROVE  StepOK
<1> DEFINE b == TickBudget + Len(Dirty(Now)) \div 8
           budget == IF b > MaxBudget THEN MaxBudget ELSE b
           o == [op |-> "tick", page |-> 0, ok |-> TRUE]
<1>1. CacheOK(Now) /\ live' = live
  BY Zenon DEF IInv, pagecache_tick
<1>2. PICK n \in Stores(Now, budget) :
        Becomes(pagecache_flush_match(Now, budget, n), "tick", 0, TRUE)
  BY Zenon DEF pagecache_tick
<1>3. budget \in Nat
  <2>1. Len(Dirty(Now)) \in Nat
    BY <1>1, DirtyIs, CountIs, Zenon
  <2> QED BY <2>1, CacheAssumption
<1> HIDE DEF budget
<1> DEFINE D == pagecache_flush_match(Now, budget, n)
<1>4. Invisible(Now, D)
  BY <1>1, <1>3, FlushOK, Zenon
<1> HIDE DEF D
<1>5. o \in Ops /\ o.op = "tick" /\ o.page = 0 /\ o.ok = TRUE /\ "tick" # "fsync"
  BY DEF Ops
<1> HIDE DEF o
<1>6. Becomes(D, o.op, o.page, o.ok)
  BY <1>2, <1>5, Zenon DEF D
<1> QED BY <1>1, <1>4, <1>5, <1>6, QuietStep, Zenon

LEMMA BackoffStep ==
    ASSUME IInv, BackoffEnds
    PROVE  StepOK
<1> DEFINE D == [Now EXCEPT !.blocked = FALSE]
           o == [op |-> "wait", page |-> 0, ok |-> TRUE]
<1>1. CacheOK(Now) /\ Becomes(D, "wait", 0, TRUE) /\ live' = live
  BY Zenon DEF IInv, BackoffEnds
<1>2. Invisible(Now, D)
  BY <1>1, Blocking, Zenon
<1> HIDE DEF D
<1>3. o \in Ops /\ o.op = "wait" /\ o.page = 0 /\ o.ok = TRUE /\ "wait" # "fsync"
  BY DEF Ops
<1> HIDE DEF o
<1>4. Becomes(D, o.op, o.page, o.ok)
  BY <1>1, <1>3, Zenon
<1> QED BY <1>1, <1>2, <1>3, <1>4, QuietStep, Zenon

\* msync drops clean pages that nobody maps: they are as on disk.
LEMMA DropOK ==
    ASSUME NEW C, CacheOK(C), \A q \in FPage : ~C.cache[q].dirty,
           NEW S, S = {q \in FPage : C.cache[q].used /\ Pinned(C, q)}
    PROVE  Invisible(C, [C EXCEPT !.cache = [q \in FPage |-> IF q \in S THEN @[q] ELSE Absent],
                                  !.lru = Keep(@, S)])
<1> DEFINE K == [q \in FPage |-> IF q \in S THEN C.cache[q] ELSE Absent]
           l == Keep(C.lru, S)
           D == [C EXCEPT !.cache = K, !.lru = l]
<1>1. [C EXCEPT !.cache = [q \in FPage |-> IF q \in S THEN @[q] ELSE Absent],
                !.lru = Keep(@, S)] = D
  BY Zenon
<1>2. /\ C \in States /\ PageSeq(C.lru) /\ Len(C.lru) <= Slots
      /\ \A q \in FPage : PageOK(C, q)
  BY Zenon DEF CacheOK
<1>3. C.cache \in [FPage -> Entry]
  BY <1>2, Zenon DEF States
<1>4. Absent \in Entry /\ Absent.used = FALSE /\ Absent.dirty = FALSE
  BY CacheAssumption DEF Absent, Entry
<1>5. PageSeq(l) /\ Range(l) = Range(C.lru) \cap S
  BY <1>2, KeepIs, Zenon
<1>6. Len(l) <= Slots
  <2>1. /\ IsFiniteSet(Range(C.lru)) /\ Len(C.lru) = Cardinality(Range(C.lru))
        /\ Len(l) = Cardinality(Range(l)) /\ Len(C.lru) \in Nat /\ Len(l) \in Nat
    BY <1>2, <1>5, CountIs, Zenon
  <2>2. Range(l) \subseteq Range(C.lru)
    BY <1>5, Zenon
  <2>3. Cardinality(Range(l)) <= Cardinality(Range(C.lru))
    BY <2>1, <2>2, FS_Subset, Zenon
  <2>4. Len(l) <= Len(C.lru)
    BY <2>1, <2>3, Zenon
  <2> HIDE DEF l
  <2> QED BY <1>2, <2>1, <2>4, CacheAssumption
<1>7. /\ K \in [FPage -> Entry]
      /\ \A q \in FPage : K[q] = IF q \in S THEN C.cache[q] ELSE Absent
  BY <1>3, <1>4
<1> HIDE DEF K, l
<1>8. D \in States /\ D.cache = K /\ D.lru = l /\ D.disk = C.disk /\ D.pte = C.pte
  BY <1>2, <1>5, <1>7, Zenon DEF States, PageSeq
<1> HIDE DEF D
<1>9. ASSUME NEW q \in FPage
      PROVE  /\ PageOK(D, q) /\ ContentOf(D, q) = ContentOf(C, q)
             /\ Tracked(C, q) => Tracked(D, q)
  <2>1. /\ PageOK(C, q) /\ ~C.cache[q].dirty
        /\ Pinned(D, q) <=> Pinned(C, q)
        /\ Protected(D, q) <=> Protected(C, q)
    BY <1>2, <1>8, Zenon DEF Pinned, Protected
  <2>2. CASE q \in S
    <3>1. D.cache[q] = C.cache[q] /\ D.disk[q] = C.disk[q]
      BY <1>7, <1>8, <2>2, Zenon
    <3>2. q \in Range(D.lru) <=> q \in Range(C.lru)
      BY <1>5, <1>8, <2>2, Zenon
    <3> QED BY <2>1, <3>1, <3>2, Zenon DEF PageOK, ContentOf, Tracked
  <2>3. CASE q \notin S
    <3>1. /\ ~D.cache[q].used /\ ~D.cache[q].dirty
          /\ D.disk[q] = C.disk[q] /\ q \notin Range(D.lru)
      BY <1>4, <1>5, <1>7, <1>8, <2>3, Zenon
    <3>2. ~Pinned(C, q)
      BY <2>1, <2>3, Zenon DEF PageOK
    <3>3. Protected(C, q)
      <4>1. "none" # "rw"
        OBVIOUS
      <4> QED BY <3>2, <4>1, Zenon DEF Pinned, Protected
    <3>4. ContentOf(C, q) = C.disk[q]
      BY <2>1, <3>3, Zenon DEF PageOK, ContentOf
    <3> QED BY <2>1, <3>1, <3>2, <3>3, <3>4, Zenon DEF PageOK, ContentOf, Tracked
  <2> QED BY <2>2, <2>3, Zenon
<1>10. CacheOK(D)
  BY <1>5, <1>6, <1>8, <1>9, Zenon DEF CacheOK
<1>11. Invisible(C, D)
  BY <1>8, <1>9, <1>10, Zenon DEF Invisible
<1> QED BY <1>1, <1>11, Zenon

LEMMA InvalidateStep ==
    ASSUME IInv, MsyncInvalidate
    PROVE  StepOK
<1> DEFINE Flushed(n) == pagecache_flush_match(Now, Slots, n)
           Kept(C) == {p \in FPage : C.cache[p].used /\ Pinned(C, p)}
           Dropped(C) == [C EXCEPT !.cache = [q \in FPage |-> IF q \in Kept(C) THEN @[q] ELSE Absent],
                                   !.lru = Keep(@, Kept(C))]
<1>1. PICK n \in Stores(Now, Slots) :
        IF ~FlushOk(Now, Slots, n) THEN Becomes(Flushed(n), "invalidate", 0, FALSE)
        ELSE Becomes(Dropped(Flushed(n)), "invalidate", 0, Kept(Flushed(n)) = {})
  BY Zenon DEF MsyncInvalidate
<1>2. CacheOK(Now) /\ Slots \in Nat /\ live' = live
  BY CacheAssumption, Zenon DEF IInv, MsyncInvalidate
<1> DEFINE C == Flushed(n)
<1>3. Invisible(Now, C) /\ (FlushOk(Now, Slots, n) => \A q \in FPage : ~C.cache[q].dirty)
  BY <1>2, FlushOK, Zenon
<1>4. ASSUME NEW D, Invisible(Now, D), NEW ok \in BOOLEAN, Becomes(D, "invalidate", 0, ok)
      PROVE  StepOK
  <2> DEFINE o == [op |-> "invalidate", page |-> 0, ok |-> ok]
  <2>1. o \in Ops /\ o.op = "invalidate" /\ o.page = 0 /\ o.ok = ok /\ "invalidate" # "fsync"
    BY DEF Ops
  <2> HIDE DEF o
  <2>2. Becomes(D, o.op, o.page, o.ok)
    BY <1>4, <2>1, Zenon
  <2> QED BY <1>2, <1>4, <2>1, <2>2, QuietStep, Zenon
<1>5. CASE ~FlushOk(Now, Slots, n)
  <2>1. Becomes(C, "invalidate", 0, FALSE) /\ FALSE \in BOOLEAN
    BY <1>1, <1>5, Zenon
  <2> HIDE DEF C
  <2> QED BY <1>3, <1>4, <2>1, Zenon
<1>6. CASE FlushOk(Now, Slots, n)
  <2>1. Becomes(Dropped(C), "invalidate", 0, Kept(C) = {}) /\ (Kept(C) = {}) \in BOOLEAN
    BY <1>1, <1>6, Zenon
  <2> HIDE DEF C
  <2>2. Invisible(C, Dropped(C))
    <3>1. CacheOK(C) /\ \A q \in FPage : ~C.cache[q].dirty
      BY <1>3, <1>6, Zenon DEF Invisible
    <3> QED BY <3>1, DropOK, Zenon
  <2> HIDE DEF Dropped, Kept
  <2>3. Invisible(Now, Dropped(C))
    BY <1>3, <2>2, InvisibleTwice, Zenon
  <2> QED BY <1>4, <2>1, <2>3, Zenon
<1> QED BY <1>5, <1>6

LEMMA NextStep ==
    ASSUME IInv, Next
    PROVE  StepOK
<1>1. CASE \E p \in FPage :
             \/ pagecache_read(p)
             \/ \E v \in Value : pagecache_write(p, v)
             \/ \E t \in Task : \/ SharedFault(t, p) \/ WriteFault(t, p) \/ Munmap(t, p)
                                \/ \E v \in Value : Store(t, p, v)
  BY <1>1, ReadStep, WriteStep, SharedFaultStep, WriteFaultStep, MunmapStep, StoreStep, Zenon
<1>2. CASE \E t \in Task : Exit(t) \/ \E c \in Task : Fork(t, c)
  BY <1>2, ExitStep, ForkStep, Zenon
<1>3. CASE Fsync \/ pagecache_tick \/ BackoffEnds \/ MsyncInvalidate
  BY <1>3, FsyncStep, TickStep, BackoffStep, InvalidateStep, Zenon
<1> QED BY <1>1, <1>2, <1>3, Zenon DEF Next

\* A step the cache has no part in leaves everything as it is.
LEMMA Stutter ==
    ASSUME IInv, UNCHANGED vars
    PROVE  /\ IInv' /\ (Synced => Synced') /\ UNCHANGED Now
           /\ \A p \in FPage : Content(p)' = Content(p)
<1>1. /\ cache' = cache /\ lru' = lru /\ disk' = disk /\ pte' = pte /\ live' = live
      /\ blocked' = blocked /\ last' = last
  BY DEF vars
<1>2. Now' = Now
  BY <1>1, Zenon DEF Now
<1>3. IInv'
  BY <1>1, <1>2, Zenon DEF IInv
<1>5. \A p \in FPage : Content(p)' = Content(p)
  BY <1>1, Zenon DEF Content
<1>6. Synced => Synced'
  BY <1>1, <1>2, <1>5, Zenon DEF Synced
<1> QED BY <1>2, <1>3, <1>5, <1>6

LEMMA ContentIs ==
    ASSUME NEW p \in FPage
    PROVE  ContentOf(Now, p) = Content(p) /\ ContentOf(Now', p) = Content(p)'
<1>1. Now'.cache = cache' /\ Now'.disk = disk'
  BY DEF Now
<1> QED BY <1>1, NowIs, Zenon DEF ContentOf, Content

LEMMA InitIInv ==
    ASSUME Init
    PROVE  IInv /\ Synced
<1>1. /\ Absent \in Entry /\ Absent.used = FALSE /\ Absent.dirty = FALSE
      /\ Zero \in Value /\ Slots \in Nat
  BY CacheAssumption DEF Absent, Entry
<1>2. /\ cache \in [FPage -> Entry] /\ disk \in [FPage -> Value]
      /\ pte \in [Task -> [FPage -> {"none", "ro", "rw"}]]
      /\ blocked \in BOOLEAN /\ lru = <<>>
      /\ last \in Ops /\ last.op = "boot" /\ "boot" # "fsync"
      /\ live \subseteq Task
      /\ \A p \in FPage : cache[p] = Absent /\ \A t \in Task : pte[t][p] = "none"
  BY <1>1, Zenon DEF Init, Ops
<1>3. Range(lru) = {} /\ Len(lru) = 0 /\ PageSeq(lru)
  <2>1. <<>> \in Seq(FPage) /\ Len(<<>>) = 0 /\ DOMAIN <<>> = {}
    OBVIOUS
  <2>2. Range(<<>>) = {}
    BY <2>1 DEF Range
  <2>3. IsInjective(<<>>)
    BY <2>1 DEF IsInjective
  <2> QED BY <1>2, <2>1, <2>2, <2>3, Zenon DEF PageSeq
<1>4. Now \in States
  BY <1>2 DEF Now, States
<1>5. ASSUME NEW p \in FPage PROVE PageOK(Now, p)
  <2>1. "none" # "rw"
    OBVIOUS
  <2>2. Protected(Now, p) /\ ~Pinned(Now, p)
    BY <1>2, <2>1, NowIs, Zenon DEF Protected, Pinned
  <2>3. ~cache[p].used /\ ~cache[p].dirty /\ p \notin Range(lru)
    BY <1>1, <1>2, <1>3, Zenon
  <2> QED BY <2>2, <2>3, NowIs, Zenon DEF PageOK
<1>6. Len(lru) <= Slots
  BY <1>1, <1>3
<1>7. CacheOK(Now)
  BY <1>3, <1>4, <1>5, <1>6, NowIs, Zenon DEF CacheOK
<1>8. IInv
  BY <1>2, <1>7, Zenon DEF IInv
<1>9. Synced
  BY <1>2, Zenon DEF Synced
<1> QED BY <1>8, <1>9

\* The untracked pages are those that are not tracked.
LEMMA UntrackedIs ==
    ASSUME NEW p \in FPage
    PROVE  (p \in Untracked <=> ~Tracked(Now, p)) /\ (p \in Untracked' <=> ~Tracked(Now', p))
<1>1. Now'.cache = cache' /\ Now'.pte = pte'
  BY DEF Now
<1> QED BY <1>1, NowIs, Zenon DEF Untracked, Tracked, Protected

\* The facts the theorems combine, for a step or a stutter.
LEMMA StepIInv ==
    ASSUME IInv, [Next]_vars
    PROVE  /\ IInv'
           /\ [\A p \in FPage : Content(p)' # Content(p) =>
                 last'.op = "write" /\ last'.page = p /\ last'.ok]_vars
           /\ [\A p \in Untracked' \ Untracked :
                 /\ last'.op = "fault" /\ last'.page = p /\ ~blocked
                 /\ Cardinality({q \in FPage : cache[q].dirty} \cup {p}) >= Critical]_vars
           /\ Synced => Synced'
<1>1. CASE Next
  <2>1. StepOK
    BY <1>1, NextStep, Zenon
  <2>2. \A p \in FPage : Content(p)' # Content(p) =>
           last'.op = "write" /\ last'.page = p /\ last'.ok
    BY <2>1, ContentIs, Zenon DEF StepOK
  <2>3. Synced'
    <3>1. last'.op = "fsync" /\ last'.ok =>
             \A p \in FPage : Tracked(Now', p) => Now'.disk[p] = ContentOf(Now', p)
      BY <2>1, Zenon DEF StepOK
    <3>2. Now'.disk = disk'
      BY DEF Now
    <3>3. \A p \in FPage : ContentOf(Now', p) = Content(p)'
      BY ContentIs, Zenon
    <3> QED BY <3>1, <3>2, <3>3, Zenon DEF Synced
  <2>4. ASSUME NEW p \in Untracked' \ Untracked
        PROVE  /\ last'.op = "fault" /\ last'.page = p /\ ~blocked
               /\ Cardinality({q \in FPage : cache[q].dirty} \cup {p}) >= Critical
    <3>1. p \in FPage
      BY Zenon DEF Untracked
    <3>2. Tracked(Now, p) /\ ~Tracked(Now', p)
      BY <3>1, UntrackedIs, Zenon
    <3>3. Crowded(p, last')
      BY <2>1, <3>1, <3>2, Zenon DEF StepOK
    <3> QED BY <3>3, NowIs, Zenon DEF Crowded, DirtyPages
  <2> QED BY <2>1, <2>2, <2>3, <2>4, Zenon DEF StepOK
<1>2. CASE UNCHANGED vars
  BY <1>2, Stutter, Zenon
<1> QED BY <1>1, <1>2

LEMMA IInvIsMapped ==
    ASSUME IInv
    PROVE  MappedIsCached
<1>1. /\ Now \in States /\ PageSeq(lru) /\ Len(lru) <= Slots /\ \A p \in FPage : PageOK(Now, p)
  BY NowIs, Zenon DEF IInv, CacheOK
<1>2. /\ cache \in [FPage -> Entry] /\ disk \in [FPage -> Value]
      /\ pte \in [Task -> [FPage -> {"none", "ro", "rw"}]]
      /\ blocked \in BOOLEAN
  BY <1>1, NowIs, Zenon DEF States
<1>3. Range(lru) \subseteq FPage
  BY <1>1, CountIs, Zenon
<1>4. Range(lru) = {p \in FPage : cache[p].used}
  BY <1>1, <1>3, NowIs, Zenon DEF PageOK
<1>5. TypeOK
  BY <1>1, <1>2, <1>4, Zenon DEF TypeOK, IInv, PageSeq, Entry
<1>6. \A t \in Task, p \in FPage : pte[t][p] # "none" => cache[p].used
  BY <1>1, NowIs, Zenon DEF PageOK, Pinned
<1> QED BY <1>5, <1>6, Zenon DEF MappedIsCached

\* A page some task maps is never evicted or dropped, whatever loads, evictions,
\* write-backs and exits happen: pagecache_slot and the invalidations skip pages with
\* references, so all the mappings and all the reads of a page share its one frame.
THEOREM MappedStaysCached == Spec => []MappedIsCached
<1>1. Init => IInv
  BY InitIInv, Zenon
<1>2. IInv /\ [Next]_vars => IInv'
  BY StepIInv
<1>3. IInv => MappedIsCached
  BY IInvIsMapped
<1> QED BY <1>1, <1>2, <1>3, PTL DEF Spec

\* Loading, evicting, writing back, failing, unmapping, forking and exiting never
\* change what the file contains: only a successful write or a store through a
\* writable mapping does, and only on the page it names. No bound on the dirty pages
\* is needed.
THEOREM ContentsChangeByWritesOnly == Spec => OnlyWritesChange
<1>1. Init => IInv
  BY InitIInv
<1>2. IInv /\ [Next]_vars => IInv'
  BY StepIInv
<1>3. IInv /\ [Next]_vars =>
        [\A p \in FPage : Content(p)' # Content(p) =>
            last'.op = "write" /\ last'.page = p /\ last'.ok]_vars
  BY StepIInv
<1> QED BY <1>1, <1>2, <1>3, PTL DEF Spec, OnlyWritesChange

\* The write-back of a page takes the write permission away from all its mappings
\* (pagecache_clean_shared_mappings), so that a page is clean and writable only after
\* a write fault whose own write-back, at the critical mark, cleaned the page it was
\* about to make writable.
THEOREM StoresEscapeOnlyAtCritical == Spec => UntrackedOnlyAtCritical
<1>1. Init => IInv
  BY InitIInv
<1>2. IInv /\ [Next]_vars => IInv'
  BY StepIInv
<1>3. IInv /\ [Next]_vars =>
        [\A p \in Untracked' \ Untracked :
            /\ last'.op = "fault" /\ last'.page = p /\ ~blocked
            /\ Cardinality({q \in FPage : cache[q].dirty} \cup {p}) >= Critical]_vars
  BY StepIInv
<1>4. IInv => MappedIsCached
  BY IInvIsMapped
<1> QED BY <1>1, <1>2, <1>3, <1>4, PTL DEF Spec, UntrackedOnlyAtCritical

\* A clean page is on disk, and a successful fsync leaves on disk all that was written
\* or stored before it, unless the page is clean and writable at once: of every other
\* page no store through a mapping escapes the dirty bits that pagecache_flush_inode
\* goes by, whatever the marks, failing stores, forks and exits.
THEOREM SyncedIsDurable == Spec => []SyncIsDurable
<1>1. Init => IInv /\ Synced
  BY InitIInv
<1>2. IInv /\ Synced /\ [Next]_vars => IInv' /\ Synced'
  BY StepIInv
<1>3. ASSUME IInv, Synced PROVE SyncIsDurable
  <2>1. ASSUME NEW p \in FPage \ Untracked
        PROVE  PageOK(Now, p) /\ Tracked(Now, p)
    BY <1>3, UntrackedIs, Zenon DEF IInv, CacheOK
  <2>2. ASSUME NEW p \in FPage \ Untracked
        PROVE  cache[p].used /\ ~cache[p].dirty => cache[p].val = disk[p]
    BY <2>1, NowIs, Zenon DEF PageOK, Tracked
  <2> QED BY <1>3, <2>1, <2>2, Zenon DEF SyncIsDurable, Synced
<1> QED BY <1>1, <1>2, <1>3, PTL DEF Spec
=============================================================================
