-------------------------- MODULE ChainFlowProofs --------------------------
(***************************************************************************)
(* What happens to an envelope on its way through the chain: it gets into  *)
(* at most one block, and the blocks keep the order of the graph.  The     *)
(* first part is about lines of batches in general, whatever they are of;  *)
(* the second lays the channels of the chain out as such a line.           *)
(***************************************************************************)
EXTENDS ChainProofs

---------------------------------------------------------------------------
(* The way of a batch: the stages from the blocks back to the batch that   *)
(* is not cut yet, each a sequence of batches.                             *)

Stages == 1..5
Places(L) == {p \in Stages \X Nat : p[2] \in DOMAIN L[p[1]] /\ L[p[1]][p[2]] # <<>>}
BatchAt(L, p) == L[p[1]][p[2]]
Precedes(p, q) == p[1] < q[1] \/ (p[1] = q[1] /\ p[2] < q[2])

\* no envelope is in two places, or twice in one
Once(L) ==
    \A p, q \in Places(L) : \A i \in DOMAIN BatchAt(L, p), j \in DOMAIN BatchAt(L, q) :
        BatchAt(L, p)[i] = BatchAt(L, q)[j] => p = q /\ i = j

\* the envelopes are in the order of rel
InOrder(L, rel) ==
    \A p, q \in Places(L) : \A i \in DOMAIN BatchAt(L, p), j \in DOMAIN BatchAt(L, q) :
        Precedes(p, q) \/ (p = q /\ i < j) =>
            \A k, l \in DOMAIN rel : rel[k] = BatchAt(L, p)[i] /\ rel[l] = BatchAt(L, q)[j] => k < l

\* only envelopes of S are on the way
Within(L, S) == \A p \in Places(L) : \A i \in DOMAIN BatchAt(L, p) : BatchAt(L, p)[i] \in S

\* f tells where the batches of M were in L
Carries(f, L, M) ==
    /\ f \in [Places(M) -> Places(L)]
    /\ \A p \in Places(M) : BatchAt(M, p) = BatchAt(L, f[p])

LEMMA CarriedOnce ==
    ASSUME NEW L, NEW M, NEW f, Carries(f, L, M), Once(L),
           \A p, q \in Places(M) : f[p] = f[q] => p = q
    PROVE  Once(M)
<1> SUFFICES ASSUME NEW p \in Places(M), NEW q \in Places(M),
                    NEW i \in DOMAIN BatchAt(M, p), NEW j \in DOMAIN BatchAt(M, q),
                    BatchAt(M, p)[i] = BatchAt(M, q)[j]
             PROVE  p = q /\ i = j
  BY DEF Once
<1>1. /\ f[p] \in Places(L) /\ f[q] \in Places(L)
      /\ BatchAt(M, p) = BatchAt(L, f[p]) /\ BatchAt(M, q) = BatchAt(L, f[q])
  BY DEF Carries
<1>2. f[p] = f[q] /\ i = j
  BY <1>1 DEF Once
<1> QED
  BY <1>2

LEMMA CarriedWithin ==
    ASSUME NEW L, NEW M, NEW f, NEW S, Carries(f, L, M), Within(L, S) PROVE Within(M, S)
<1> SUFFICES ASSUME NEW p \in Places(M), NEW i \in DOMAIN BatchAt(M, p) PROVE BatchAt(M, p)[i] \in S
  BY DEF Within
<1>1. f[p] \in Places(L) /\ BatchAt(M, p) = BatchAt(L, f[p])
  BY DEF Carries
<1> QED
  BY <1>1 DEF Within

LEMMA CarriedInOrder ==
    ASSUME NEW L, NEW M, NEW f, NEW rel, Carries(f, L, M), InOrder(L, rel),
           \A p, q \in Places(M) : Precedes(p, q) => Precedes(f[p], f[q])
    PROVE  InOrder(M, rel)
<1> SUFFICES ASSUME NEW p \in Places(M), NEW q \in Places(M),
                    NEW i \in DOMAIN BatchAt(M, p), NEW j \in DOMAIN BatchAt(M, q),
                    Precedes(p, q) \/ (p = q /\ i < j),
                    NEW k \in DOMAIN rel, NEW l \in DOMAIN rel,
                    rel[k] = BatchAt(M, p)[i], rel[l] = BatchAt(M, q)[j]
             PROVE  k < l
  BY DEF InOrder
<1>1. /\ f[p] \in Places(L) /\ f[q] \in Places(L)
      /\ BatchAt(M, p) = BatchAt(L, f[p]) /\ BatchAt(M, q) = BatchAt(L, f[q])
  BY DEF Carries
<1>2. Precedes(f[p], f[q]) \/ (f[p] = f[q] /\ i < j)
  OBVIOUS
<1> QED
  BY <1>1, <1>2 DEF InOrder

\* Of two places one precedes the other, so a map that keeps the order is one to one.
LEMMA OrderInjective ==
    ASSUME NEW L, NEW M, NEW f, Carries(f, L, M),
           \A p, q \in Places(M) : Precedes(p, q) => Precedes(f[p], f[q]),
           NEW p \in Places(M), NEW q \in Places(M), f[p] = f[q]
    PROVE  p = q
<1>1. p \in Stages \X Nat /\ q \in Stages \X Nat /\ f[p] \in Stages \X Nat
  BY DEF Places, Carries
<1>2. ~Precedes(f[p], f[p])
  BY <1>1 DEF Precedes, Stages
<1>3. p = q \/ Precedes(p, q) \/ Precedes(q, p)
  BY <1>1 DEF Precedes, Stages
<1> QED
  BY <1>2, <1>3

\* what is kept when batches are carried without overtaking
LEMMA Carried ==
    ASSUME NEW L, NEW M, NEW f, NEW rel, NEW S, Carries(f, L, M),
           \A p, q \in Places(M) : Precedes(p, q) => Precedes(f[p], f[q])
    PROVE  /\ Once(L) => Once(M)
           /\ InOrder(L, rel) => InOrder(M, rel)
           /\ Within(L, S) => Within(M, S)
<1>1. \A p, q \in Places(M) : f[p] = f[q] => p = q
  BY OrderInjective
<1> QED
  BY <1>1, CarriedOnce, CarriedInOrder, CarriedWithin

\* Batches are dropped, or empty ones are added.
LEMMA Dropped ==
    ASSUME NEW L, NEW M, NEW rel, NEW S,
           \A p \in Places(M) : p \in Places(L) /\ BatchAt(M, p) = BatchAt(L, p)
    PROVE  /\ Once(L) => Once(M)
           /\ InOrder(L, rel) => InOrder(M, rel)
           /\ Within(L, S) => Within(M, S)
<1> DEFINE f == [p \in Places(M) |-> p]
<1>1. Carries(f, L, M) /\ \A p, q \in Places(M) : Precedes(p, q) => Precedes(f[p], f[q])
  BY DEF Carries
<1> HIDE DEF f
<1> QED
  BY <1>1, Carried

Adjacent(t, s) == s \in 2..5 /\ t = s - 1

\* The first batch of a stage goes to the end of the stage before it.
Shift(L, M, t, s, T) ==
    /\ Adjacent(t, s) /\ L[t] \in Seq(T) /\ L[s] \in Seq(T) /\ L[s] # <<>>
    /\ M[t] = Append(L[t], L[s][1])
    /\ M[s] \in {Tail(L[s]), <<>>, <<<<>>>>}
    /\ \A k \in Stages \ {t, s} : M[k] = L[k]

LEMMA Shifted ==
    ASSUME NEW L, NEW M, NEW rel, NEW S, NEW t, NEW s, NEW T, Shift(L, M, t, s, T)
    PROVE  /\ Once(L) => Once(M)
           /\ InOrder(L, rel) => InOrder(M, rel)
           /\ Within(L, S) => Within(M, S)
<1>0. /\ s \in 2..5 /\ t = s - 1 /\ s \in Stages /\ t \in Stages
      /\ L[t] \in Seq(T) /\ L[s] \in Seq(T) /\ L[s] # <<>>
      /\ M[t] = Append(L[t], L[s][1])
      /\ M[s] \in {Tail(L[s]), <<>>, <<<<>>>>}
      /\ \A k \in Stages \ {t, s} : M[k] = L[k]
  BY DEF Shift, Adjacent, Stages
<1> USE <1>0
<1> DEFINE n == Len(L[t])
           f == [p \in Places(M) |-> IF p = <<t, n + 1>> THEN <<s, 1>>
                                     ELSE IF p[1] = s THEN <<s, p[2] + 1>> ELSE p]
<1>1. /\ n \in Nat /\ DOMAIN L[t] = 1..n /\ DOMAIN M[t] = 1..(n + 1)
      /\ M[t][n + 1] = L[s][1] /\ \A b \in 1..n : M[t][b] = L[t][b]
  <2> DEFINE u == L[t]
             x == L[s][1]
  <2>1. u \in Seq(T) /\ x \in T
    OBVIOUS
  <2> HIDE DEF u, x
  <2>2. /\ Len(u) \in Nat /\ DOMAIN u = 1..Len(u) /\ DOMAIN Append(u, x) = 1..(Len(u) + 1)
        /\ Append(u, x)[Len(u) + 1] = x /\ \A b \in 1..Len(u) : Append(u, x)[b] = u[b]
    BY <2>1
  <2> QED
    BY <2>2 DEF u, x
<1>2. \A b \in DOMAIN M[s] : M[s][b] # <<>> => /\ b \in Nat /\ b + 1 \in DOMAIN L[s]
                                              /\ M[s][b] = L[s][b + 1]
  <2> DEFINE u == L[s]
  <2>1. /\ Len(u) \in Nat \ {0} /\ DOMAIN u = 1..Len(u) /\ DOMAIN Tail(u) = 1..(Len(u) - 1)
        /\ \A b \in 1..(Len(u) - 1) : Tail(u)[b] = u[b + 1]
    <3>1. u \in Seq(T) /\ u # <<>>
      OBVIOUS
    <3> HIDE DEF u
    <3> QED
      BY <3>1
  <2>2. CASE M[s] = Tail(u)
    BY <2>1, <2>2, SMTT(40)
  <2>3. CASE M[s] = <<>>
    BY <2>3
  <2>4. CASE M[s] = <<<<>>>>
    BY <2>4
  <2> QED
    BY <2>2, <2>3, <2>4, Zenon
<1>3. 1 \in DOMAIN L[s]
  OBVIOUS
<1> HIDE DEF n
<1>4. ASSUME NEW p \in Places(M)
      PROVE  f[p] \in Places(L) /\ BatchAt(M, p) = BatchAt(L, f[p])
  <2>1. p \in Stages \X Nat /\ p[2] \in DOMAIN M[p[1]] /\ M[p[1]][p[2]] # <<>>
    BY DEF Places
  <2>2. CASE p = <<t, n + 1>>
    <3>1. f[p] = <<s, 1>> /\ M[p[1]][p[2]] = L[s][1]
      BY <1>1, <2>2
    <3> HIDE DEF f
    <3>2. <<s, 1>> \in Stages \X Nat /\ <<s, 1>>[1] = s /\ <<s, 1>>[2] = 1
      BY DEF Stages
    <3> QED
      BY <1>3, <2>1, <3>1, <3>2 DEF Places, BatchAt
  <2>3. CASE p # <<t, n + 1>> /\ p[1] = s
    <3>1. f[p] = <<s, p[2] + 1>>
      BY <2>3
    <3> HIDE DEF f
    <3>2. p[2] + 1 \in DOMAIN L[s] /\ M[s][p[2]] = L[s][p[2] + 1] /\ p[2] + 1 \in Nat
      BY <1>2, <2>1, <2>3, SMTT(40)
    <3> QED
      BY <2>1, <2>3, <3>1, <3>2 DEF Places, BatchAt
  <2>4. CASE p # <<t, n + 1>> /\ p[1] # s
    <3>1. f[p] = p
      BY <2>4
    <3>2. p[2] \in DOMAIN L[p[1]] /\ M[p[1]][p[2]] = L[p[1]][p[2]]
      <4>1. CASE p[1] = t
        BY <1>1, <2>1, <2>4, <4>1
      <4>2. CASE p[1] # t
        BY <2>1, <2>4, <4>2, Zenon
      <4> QED
        BY <4>1, <4>2
    <3> QED
      BY <2>1, <3>1, <3>2, Zenon DEF Places, BatchAt
  <2> QED
    BY <2>2, <2>3, <2>4
<1>5. ASSUME NEW p \in Places(M), NEW q \in Places(M), Precedes(p, q)
      PROVE  Precedes(f[p], f[q])
  <2>1. /\ p \in Stages \X Nat /\ p[2] \in DOMAIN M[p[1]] /\ p = <<p[1], p[2]>>
        /\ q \in Stages \X Nat /\ q[2] \in DOMAIN M[q[1]] /\ q = <<q[1], q[2]>>
        /\ p[1] \in Nat /\ q[1] \in Nat /\ p[2] \in Nat /\ q[2] \in Nat
    BY SMTT(40) DEF Places, Stages
  <2>2. /\ f[p] = IF p = <<t, n + 1>> THEN <<s, 1>> ELSE IF p[1] = s THEN <<s, p[2] + 1>> ELSE p
        /\ f[q] = IF q = <<t, n + 1>> THEN <<s, 1>> ELSE IF q[1] = s THEN <<s, q[2] + 1>> ELSE q
    OBVIOUS
  <2>3. p[1] = t => p[2] \in 1..(n + 1)
    BY <1>1, <2>1, SMTT(40)
  <2>4. q[1] = t => q[2] \in 1..(n + 1)
    BY <1>1, <2>1, SMTT(40)
  <2>5. q[1] = s => q[2] >= 1
    <3>1. CASE q[1] = s
      <4>1. q[2] \in DOMAIN M[s] /\ M[s][q[2]] # <<>>
        BY <3>1 DEF Places
      <4>2. q[2] + 1 \in DOMAIN L[s] /\ q[2] \in Nat /\ 0 \notin DOMAIN M[s]
        BY <1>2, <4>1, SMTT(40)
      <4> QED
        BY <4>1, <4>2
    <3> QED
      BY <3>1
  <2> HIDE DEF f
  <2> QED
    BY <1>1, <1>5, <2>1, <2>2, <2>3, <2>4, <2>5, SMTT(40) DEF Precedes
<1>6. Carries(f, L, M)
  <2>1. f \in [Places(M) -> Places(L)]
    BY <1>4, Zenon
  <2> HIDE DEF f
  <2> QED
    BY <1>4, <2>1 DEF Carries
<1> HIDE DEF f
<1> QED
  BY <1>5, <1>6, Carried, Zenon

\* The batch that is not cut yet grows by r, what the graph releases.
LEMMA Extended ==
    ASSUME NEW L, NEW M, NEW T, NEW S, NEW R \in Seq(T), NEW r \in Seq(T), NEW rel \in Seq(T),
           L[5] = <<R>>, M[5] = <<R \o r>>, \A k \in 1..4 : M[k] = L[k],
           Within(L, Range(rel) \cup S),
           \A i, j \in 1..Len(r) : r[i] = r[j] => i = j,
           \A j \in 1..Len(r) : r[j] \notin Range(rel) \cup S
    PROVE  /\ Once(L) => Once(M)
           /\ S = {} /\ InOrder(L, rel) => InOrder(M, rel \o r)
           /\ Within(M, Range(rel \o r) \cup S)
<1>1. /\ Len(R) \in Nat /\ Len(r) \in Nat /\ Len(rel) \in Nat
      /\ DOMAIN (R \o r) = 1..(Len(R) + Len(r)) /\ DOMAIN (rel \o r) = 1..(Len(rel) + Len(r))
      /\ DOMAIN R = 1..Len(R) /\ DOMAIN rel = 1..Len(rel) /\ DOMAIN r = 1..Len(r)
      /\ \A i \in 1..(Len(R) + Len(r)) : (R \o r)[i] = IF i <= Len(R) THEN R[i] ELSE r[i - Len(R)]
      /\ \A i \in 1..(Len(rel) + Len(r)) :
            (rel \o r)[i] = IF i <= Len(rel) THEN rel[i] ELSE r[i - Len(rel)]
  OBVIOUS
<1> DEFINE Old(p, i) == /\ p \in Places(L) /\ i \in DOMAIN BatchAt(L, p)
                        /\ BatchAt(M, p)[i] = BatchAt(L, p)[i]
           New(p, i) == /\ p = <<5, 1>> /\ i - Len(R) \in 1..Len(r) /\ i \in Nat
                        /\ BatchAt(M, p)[i] = r[i - Len(R)]
<1>2. ASSUME NEW p \in Places(M), NEW i \in DOMAIN BatchAt(M, p) PROVE Old(p, i) \/ New(p, i)
  <2>1. p \in Stages \X Nat /\ p[2] \in DOMAIN M[p[1]] /\ M[p[1]][p[2]] # <<>> /\ p = <<p[1], p[2]>>
        /\ p[1] \in 1..5 /\ i \in DOMAIN M[p[1]][p[2]]
    BY <1>2 DEF Places, Stages, BatchAt
  <2>2. CASE p[1] # 5
    <3>1. M[p[1]] = L[p[1]]
      BY <2>1, <2>2
    <3> QED
      BY <2>1, <3>1 DEF Places, BatchAt
  <2>3. CASE p[1] = 5
    <3>1. p[2] = 1 /\ M[5][1] = R \o r /\ L[5][1] = R /\ 1 \in DOMAIN L[5]
      BY <2>1, <2>3
    <3>2. i \in 1..(Len(R) + Len(r)) /\ BatchAt(M, p)[i] = (R \o r)[i]
      BY <1>1, <2>1, <2>3, <3>1, SMTT(40) DEF BatchAt
    <3>3. CASE i <= Len(R)
      <4>1. i \in DOMAIN R /\ (R \o r)[i] = R[i] /\ R # <<>>
        BY <1>1, <3>2, <3>3
      <4> QED
        BY <2>1, <2>3, <3>1, <3>2, <4>1, SMTT(40) DEF Places, BatchAt
    <3>4. CASE ~(i <= Len(R))
      <4>1. i - Len(R) \in 1..Len(r) /\ i \in Nat /\ (R \o r)[i] = r[i - Len(R)]
        BY <1>1, <3>2, <3>4
      <4> QED
        BY <2>1, <2>3, <3>1, <3>2, <4>1
    <3> QED
      BY <3>3, <3>4
  <2> QED
    BY <2>2, <2>3
<1>3. ASSUME NEW p, NEW i, Old(p, i) PROVE BatchAt(M, p)[i] \in Range(rel) \cup S
  BY <1>3 DEF Within
<1>4. ASSUME NEW p, NEW i, New(p, i) PROVE BatchAt(M, p)[i] \notin Range(rel) \cup S
  BY <1>4
<1>5. Range(rel) \subseteq Range(rel \o r) /\ \A j \in 1..Len(r) : r[j] \in Range(rel \o r)
  <2>1. \A i \in 1..Len(rel) : i \in DOMAIN (rel \o r) /\ (rel \o r)[i] = rel[i]
    BY <1>1
  <2>2. \A j \in 1..Len(r) : Len(rel) + j \in DOMAIN (rel \o r) /\ (rel \o r)[Len(rel) + j] = r[j]
    BY <1>1
  <2> DEFINE w == rel \o r
  <2> HIDE DEF w
  <2>3. (\A i \in DOMAIN rel : i \in DOMAIN w /\ w[i] = rel[i]) => Range(rel) \subseteq Range(w)
    BY DEF Range
  <2>4. ASSUME NEW j \in 1..Len(r) PROVE r[j] \in Range(w)
    <3>1. Len(rel) + j \in DOMAIN w /\ w[Len(rel) + j] = r[j]
      BY <2>2 DEF w
    <3> QED
      BY <3>1 DEF Range
  <2> QED
    BY <1>1, <2>1, <2>3, <2>4 DEF w
<1>6. Within(M, Range(rel \o r) \cup S)
  <2> SUFFICES ASSUME NEW p \in Places(M), NEW i \in DOMAIN BatchAt(M, p)
               PROVE  BatchAt(M, p)[i] \in Range(rel \o r) \cup S
    BY DEF Within
  <2>1. CASE Old(p, i)
    BY <1>3, <1>5, <2>1
  <2>2. CASE New(p, i)
    BY <1>5, <2>2
  <2> QED
    BY <1>2, <2>1, <2>2
<1>7. ASSUME Once(L) PROVE Once(M)
  <2> SUFFICES ASSUME NEW p \in Places(M), NEW q \in Places(M),
                      NEW i \in DOMAIN BatchAt(M, p), NEW j \in DOMAIN BatchAt(M, q),
                      BatchAt(M, p)[i] = BatchAt(M, q)[j]
               PROVE  p = q /\ i = j
    BY DEF Once
  <2>1. CASE Old(p, i) /\ Old(q, j)
    <3>1. BatchAt(L, p)[i] = BatchAt(L, q)[j] /\ p \in Places(L) /\ q \in Places(L)
          /\ i \in DOMAIN BatchAt(L, p) /\ j \in DOMAIN BatchAt(L, q)
      BY <2>1, Zenon
    <3> HIDE DEF Old, New
    <3> QED
      BY <1>7, <3>1 DEF Once
  <2>2. CASE New(p, i) /\ New(q, j)
    <3>1. i - Len(R) = j - Len(R)
      BY <2>2, Zenon
    <3> QED
      BY <1>1, <2>2, <3>1
  <2> HIDE DEF Old, New
  <2> QED
    BY <1>2, <1>3, <1>4, <2>1, <2>2
<1>8. ASSUME S = {}, InOrder(L, rel) PROVE InOrder(M, rel \o r)
  <2> SUFFICES ASSUME NEW p \in Places(M), NEW q \in Places(M),
                      NEW i \in DOMAIN BatchAt(M, p), NEW j \in DOMAIN BatchAt(M, q),
                      Precedes(p, q) \/ (p = q /\ i < j),
                      NEW k \in DOMAIN (rel \o r), NEW l \in DOMAIN (rel \o r),
                      (rel \o r)[k] = BatchAt(M, p)[i], (rel \o r)[l] = BatchAt(M, q)[j]
               PROVE  k < l
    BY SMTT(40) DEF InOrder
  <2>1. k \in 1..(Len(rel) + Len(r)) /\ l \in 1..(Len(rel) + Len(r))
    BY <1>1
  <2>2. ASSUME NEW n \in 1..(Len(rel) + Len(r)), NEW v \in Places(M), NEW h, Old(v, h),
               (rel \o r)[n] = BatchAt(M, v)[h]
        PROVE  n \in DOMAIN rel /\ rel[n] = BatchAt(L, v)[h]
    <3>1. BatchAt(M, v)[h] \in Range(rel) /\ BatchAt(M, v)[h] = BatchAt(L, v)[h]
      BY <1>3, <1>8, <2>2, Zenon
    <3>2. CASE n <= Len(rel)
      BY <1>1, <2>2, <3>1, <3>2, SMTT(40)
    <3>3. CASE ~(n <= Len(rel))
      <4>1. n - Len(rel) \in 1..Len(r) /\ (rel \o r)[n] = r[n - Len(rel)]
        BY <1>1, <3>3
      <4> QED
        BY <2>2, <3>1, <4>1, SMTT(40)
    <3> QED
      BY <3>2, <3>3
  <2>3. ASSUME NEW n \in 1..(Len(rel) + Len(r)), NEW v \in Places(M), NEW h, New(v, h),
               (rel \o r)[n] = BatchAt(M, v)[h]
        PROVE  n = Len(rel) + h - Len(R)
    <3>1. r[h - Len(R)] \notin Range(rel) /\ (rel \o r)[n] = r[h - Len(R)] /\ h \in Nat
          /\ h - Len(R) \in 1..Len(r)
      BY <2>3, Zenon
    <3>2. ~(n <= Len(rel))
      <4> SUFFICES ASSUME n <= Len(rel) PROVE FALSE
        OBVIOUS
      <4>1. n \in DOMAIN rel /\ (rel \o r)[n] = rel[n]
        BY <1>1
      <4>2. rel[n] \in Range(rel)
        BY <4>1 DEF Range
      <4> QED
        BY <3>1, <4>1, <4>2
    <3>3. n - Len(rel) \in 1..Len(r) /\ (rel \o r)[n] = r[n - Len(rel)]
      BY <1>1, <3>2
    <3>4. n - Len(rel) = h - Len(R)
      BY <3>1, <3>3, Zenon
    <3> QED
      BY <1>1, <3>1, <3>4
  <2>4. CASE Old(p, i) /\ Old(q, j)
    <3>1. k \in DOMAIN rel /\ rel[k] = BatchAt(L, p)[i] /\ l \in DOMAIN rel /\ rel[l] = BatchAt(L, q)[j]
      <4> HIDE DEF Old, New
      <4> DEFINE D == 1..(Len(rel) + Len(r))
      <4>1. /\ k \in D /\ p \in Places(M) /\ Old(p, i) /\ (rel \o r)[k] = BatchAt(M, p)[i]
            /\ l \in D /\ q \in Places(M) /\ Old(q, j) /\ (rel \o r)[l] = BatchAt(M, q)[j]
        BY <2>1, <2>4, Zenon
      <4>2. \A n \in D, v \in Places(M) : \A h :
               Old(v, h) /\ (rel \o r)[n] = BatchAt(M, v)[h] =>
                   n \in DOMAIN rel /\ rel[n] = BatchAt(L, v)[h]
        BY <2>2
      <4> HIDE DEF D
      <4>3. k \in DOMAIN rel /\ rel[k] = BatchAt(L, p)[i]
        BY ONLY <4>1, <4>2, Zenon
      <4>4. l \in DOMAIN rel /\ rel[l] = BatchAt(L, q)[j]
        BY ONLY <4>1, <4>2, Zenon
      <4> QED
        BY <4>3, <4>4
    <3>2. p \in Places(L) /\ q \in Places(L) /\ i \in DOMAIN BatchAt(L, p) /\ j \in DOMAIN BatchAt(L, q)
      BY <2>4
    <3> HIDE DEF Old, New
    <3> QED
      BY <1>8, <3>1, <3>2, SMTT(40) DEF InOrder
  <2>5. CASE Old(p, i) /\ New(q, j)
    <3>1. k \in DOMAIN rel
      BY <2>1, <2>2, <2>5, Zenon
    <3>2. j - Len(R) \in 1..Len(r) /\ j \in Nat
      BY <2>5
    <3>3. l = Len(rel) + j - Len(R)
      <4> HIDE DEF Old, New
      <4> QED
        BY <2>1, <2>3, <2>5, SMTT(40)
    <3> HIDE DEF Old, New
    <3>4. Len(rel) \in Nat /\ Len(R) \in Nat /\ k \in 1..Len(rel)
      BY <1>1, <3>1
    <3> QED
      BY <3>2, <3>3, <3>4, SMTT(40)
  <2>6. CASE New(p, i)
    <3>1. p = <<5, 1>> /\ i - Len(R) \in 1..Len(r) /\ i \in Nat
      BY <2>6
    <3>2. p = q /\ i < j
      <4>1. q \in Stages \X Nat /\ q[2] \in DOMAIN M[q[1]]
        BY DEF Places
      <4>2. DOMAIN M[5] = {1}
        OBVIOUS
      <4> HIDE DEF Old, New
      <4>3. p[1] = 5 /\ p[2] = 1
        BY <3>1, Zenon
      <4>4. q[1] \in Nat /\ q[1] <= 5 /\ q[2] \in Nat
        BY <4>1, SMTT(40) DEF Stages
      <4>5. q[1] = 5 => q[2] = 1
        BY <4>1, <4>2, Zenon
      <4>6. ~Precedes(p, q)
        BY <4>3, <4>4, <4>5, SMTT(40) DEF Precedes
      <4> QED
        BY <4>6
    <3>3. New(q, j)
      <4>1. ~Old(q, j)
        <5> SUFFICES ASSUME Old(q, j) PROVE FALSE
          OBVIOUS
        <5>1. j \in DOMAIN R
          BY <3>1, <3>2, SMTT(40) DEF BatchAt
        <5> HIDE DEF Old, New
        <5>2. j \in 1..Len(R) /\ Len(R) \in Nat
          BY <1>1, <5>1
        <5> QED
          BY <3>1, <3>2, <5>2, SMTT(40)
      <4> QED
        BY <1>2, <4>1
    <3>4. j \in Nat
      BY <3>3
    <3> HIDE DEF Old, New
    <3>5. k = Len(rel) + i - Len(R)
      BY <2>1, <2>3, <2>6, SMTT(40)
    <3>6. l = Len(rel) + j - Len(R)
      BY <2>1, <2>3, <3>3, SMTT(40)
    <3> QED
      BY <1>1, <3>1, <3>2, <3>4, <3>5, <3>6
  <2> QED
    BY <1>2, <2>4, <2>5, <2>6, Zenon
<1> QED
  BY <1>6, <1>7, <1>8

LEMMA PairSeq == ASSUME NEW a, NEW b PROVE <<a>> \o <<b>> = <<a, b>> /\ <<>> \o <<b>> = <<b>>
<1> DEFINE s == <<a>> \o <<b>>
           t == <<>> \o <<b>>
<1>1. <<a>> \in Seq({a, b}) /\ <<b>> \in Seq({a, b}) /\ <<>> \in Seq({a, b}) /\ <<a, b>> \in Seq({a, b})
  OBVIOUS
<1>2. s \in Seq({a, b}) /\ Len(s) = 2 /\ s[1] = a /\ s[2] = b
  BY <1>1
<1>3. t \in Seq({a, b}) /\ Len(t) = 1 /\ t[1] = b
  BY <1>1
<1> HIDE DEF s, t
<1>4. s = <<a, b>>
  BY <1>2
<1>5. t = <<b>>
  BY <1>3
<1> QED
  BY <1>4, <1>5 DEF s, t

\* A configuration m is ordered: the batch that is not cut yet, and m after it, are proposed
\* before the batches on their way.
LEMMA Overtaken ==
    ASSUME NEW L, NEW M, NEW S, NEW R, NEW m, m \notin S,
           L[2] = <<>>, L[5] = <<R>>, M[5] = <<>>,
           M[2] = (IF R = <<>> THEN <<>> ELSE <<R>>) \o <<<<m>>>>,
           \A k \in {1, 3, 4} : M[k] = L[k],
           Within(L, S), Once(L)
    PROVE  Once(M) /\ Within(M, S \cup {m})
<1> DEFINE cfg == <<2, IF R = <<>> THEN 1 ELSE 2>>
           f == [p \in Places(M) \ {cfg} |-> IF p[1] = 2 THEN <<5, 1>> ELSE p]
<1>1. M[2] = IF R = <<>> THEN <<<<m>>>> ELSE <<R, <<m>>>>
  BY PairSeq
<1>2. BatchAt(M, cfg) = <<m>>
  BY <1>1 DEF BatchAt
<1>3. ASSUME NEW p \in Places(M) \ {cfg}
      PROVE  f[p] \in Places(L) /\ BatchAt(M, p) = BatchAt(L, f[p]) /\ (p[1] = 2 => p = <<2, 1>>)
  <2>1. p \in Stages \X Nat /\ p[2] \in DOMAIN M[p[1]] /\ M[p[1]][p[2]] # <<>> /\ p = <<p[1], p[2]>>
        /\ p[1] \in 1..5
    BY DEF Places, Stages
  <2>2. CASE p[1] = 2
    <3>1. f[p] = <<5, 1>>
      BY <2>2
    <3>2. R # <<>> /\ p[2] = 1 /\ M[2][1] = R
      <4>1. CASE R = <<>>
        BY <1>1, <2>1, <2>2, <4>1
      <4>2. CASE R # <<>>
        <5>1. M[2] = <<R, <<m>>>>
          BY <1>1, <4>2, Zenon
        <5>2. p[2] \in {1, 2}
          BY <2>1, <2>2, <5>1
        <5>3. p[2] # 2
          BY <2>1, <2>2, <4>2
        <5> QED
          BY <4>2, <5>1, <5>2, <5>3
      <4> QED
        BY <4>1, <4>2
    <3>3. <<5, 1>> \in Places(L) /\ BatchAt(L, <<5, 1>>) = R
      BY <3>2 DEF Places, BatchAt, Stages
    <3> HIDE DEF f
    <3> QED
      BY <2>1, <2>2, <3>1, <3>2, <3>3 DEF BatchAt
  <2>3. CASE p[1] # 2
    <3>1. f[p] = p
      BY <2>3
    <3>2. p[1] # 5
      BY <2>1
    <3>3. M[p[1]] = L[p[1]]
      BY <2>1, <2>3, <3>2
    <3> HIDE DEF f
    <3> QED
      BY <2>1, <2>3, <3>1, <3>3 DEF Places, BatchAt
  <2> QED
    BY <2>2, <2>3
<1>4. ASSUME NEW p \in Places(M) \ {cfg}, NEW q \in Places(M) \ {cfg}, f[p] = f[q] PROVE p = q
  <2>1. p[1] # 5 /\ q[1] # 5
    BY DEF Places
  <2>2. f[p] = (IF p[1] = 2 THEN <<5, 1>> ELSE p) /\ f[q] = (IF q[1] = 2 THEN <<5, 1>> ELSE q)
    OBVIOUS
  <2>3. (p[1] = 2 => p = <<2, 1>>) /\ (q[1] = 2 => q = <<2, 1>>)
    BY <1>3
  <2> HIDE DEF f, cfg
  <2>4. CASE p[1] = 2 /\ q[1] = 2
    BY <2>3, <2>4
  <2>5. CASE p[1] = 2 /\ q[1] # 2
    <3>1. q = <<5, 1>>
      BY <1>4, <2>2, <2>5, Zenon
    <3> QED
      BY <2>1, <3>1
  <2>6. CASE p[1] # 2 /\ q[1] = 2
    <3>1. p = <<5, 1>>
      BY <1>4, <2>2, <2>6, Zenon
    <3> QED
      BY <2>1, <3>1
  <2>7. CASE p[1] # 2 /\ q[1] # 2
    BY <1>4, <2>2, <2>7, Zenon
  <2> QED
    BY <2>4, <2>5, <2>6, <2>7
<1> HIDE DEF f
<1>5. ASSUME NEW p \in Places(M) \ {cfg}, NEW i \in DOMAIN BatchAt(M, p) PROVE BatchAt(M, p)[i] \in S
  BY <1>3, <1>5 DEF Within
<1>6. ASSUME NEW i \in DOMAIN BatchAt(M, cfg) PROVE BatchAt(M, cfg)[i] = m /\ i = 1
  BY <1>2
<1> HIDE DEF cfg
<1>7. Within(M, S \cup {m})
  BY <1>5, <1>6 DEF Within
<1>8. Once(M)
  <2> SUFFICES ASSUME NEW p \in Places(M), NEW q \in Places(M),
                      NEW i \in DOMAIN BatchAt(M, p), NEW j \in DOMAIN BatchAt(M, q),
                      BatchAt(M, p)[i] = BatchAt(M, q)[j]
               PROVE  p = q /\ i = j
    BY DEF Once
  <2>1. CASE p = cfg \/ q = cfg
    BY <1>5, <1>6, <2>1
  <2>2. CASE p # cfg /\ q # cfg
    <3>1. /\ f[p] \in Places(L) /\ f[q] \in Places(L)
          /\ BatchAt(M, p) = BatchAt(L, f[p]) /\ BatchAt(M, q) = BatchAt(L, f[q])
      BY <1>3, <2>2
    <3>2. f[p] = f[q] /\ i = j
      BY <3>1 DEF Once
    <3> QED
      BY <1>4, <2>2, <3>2
  <2> QED
    BY <2>1, <2>2
<1> QED
  BY <1>7, <1>8

---------------------------------------------------------------------------
(* The way of the envelopes.                                               *)

TxsOf(s) == [i \in DOMAIN s |-> s[i].txs]

\* Blocks, the batches that serveRequest is proposing, those on CommitC, the one that the
\* cutter is sending, and the one that is not cut yet.  Between the two halves of
\* serveRequest's Cut the last one is in arg already.
Way == <<TxsOf(created),
         IF pc \in {"cut", "commit", "submit"} THEN TxsOf(arg) ELSE <<>>,
         CommitC,
         out,
         IF pc = "cut" THEN <<>> ELSE <<ReadyBatch>>>>

Envelopes == Txs \cup Configs
Ordered == Range(released) \cup (accepted \cap Configs)

\* An envelope is in one place of the way, after those that the graph released before it.
Flow == /\ Once(Way)
        /\ accepted \cap Configs = {} => InOrder(Way, released)
        /\ Within(Way, Ordered)

\* Before it is released, an envelope is in one of RaftEnvMsgC and the graph.
Upstream ==
    /\ accepted \cap submits = {}
    /\ \A k, l \in DOMAIN released : released[k] = released[l] => k = l
    /\ \A k, l \in DOMAIN RaftEnvMsgC :
          RaftEnvMsgC[k] = RaftEnvMsgC[l] /\ RaftEnvMsgC[k] # Tick => k = l
    /\ Range(released) \cup held \cup (Range(RaftEnvMsgC) \ {Tick}) \subseteq accepted
    /\ held \cap Range(released) = {}
    /\ Range(RaftEnvMsgC) \cap (held \cup Range(released)) = {}
    /\ pc = "send" /\ arg[1] # Tick =>
          arg[1] \in accepted \ (Range(RaftEnvMsgC) \cup held \cup Range(released))

\* the cutter does not run between the two halves of serveRequest's Cut
Exclusive == ~Racing \/ Configs = {}

LEMMA TxsOfSeq ==
    ASSUME NEW s, s \in Seq(Batches) \/ s \in Seq(Blocks)
    PROVE  /\ TxsOf(s) \in Seq(Seq(Envelopes)) /\ Len(TxsOf(s)) = Len(s) /\ DOMAIN TxsOf(s) = DOMAIN s
           /\ \A i \in DOMAIN s : TxsOf(s)[i] = s[i].txs
<1>1. Len(s) \in Nat /\ DOMAIN s = 1..Len(s)
  OBVIOUS
<1>2. \A i \in 1..Len(s) : s[i] \in Batches \/ s[i] \in Blocks
  OBVIOUS
<1>3. \A i \in 1..Len(s) : s[i].txs \in Seq(Envelopes)
  BY <1>2 DEF Batches, Blocks, Envelopes
<1>4. TxsOf(s) \in [1..Len(s) -> Seq(Envelopes)] /\ \A i \in 1..Len(s) : TxsOf(s)[i] = s[i].txs
  BY <1>1, <1>3 DEF TxsOf
<1>5. TxsOf(s) \in Seq(Seq(Envelopes)) /\ Len(TxsOf(s)) = Len(s)
  BY <1>1, <1>4
<1> QED
  BY <1>1, <1>4, <1>5

\* sequences with the same elements are the same
LEMMA SameSeq ==
    ASSUME NEW S, NEW s \in Seq(S), NEW t \in Seq(S), Len(s) = Len(t),
           \A i \in 1..Len(s) : s[i] = t[i]
    PROVE  s = t
OBVIOUS

LEMMA TxsOfAppend ==
    ASSUME NEW s \in Seq(Blocks), NEW b \in Blocks
    PROVE  TxsOf(Append(s, b)) = Append(TxsOf(s), b.txs)
<1>1. /\ Append(s, b) \in Seq(Blocks) /\ Len(Append(s, b)) = Len(s) + 1
      /\ Len(s) \in Nat /\ DOMAIN s = 1..Len(s) /\ DOMAIN Append(s, b) = 1..(Len(s) + 1)
      /\ Append(s, b)[Len(s) + 1] = b /\ \A i \in 1..Len(s) : Append(s, b)[i] = s[i]
  BY AppendSeq
<1> DEFINE u == TxsOf(s)
           v == TxsOf(Append(s, b))
<1>2. /\ u \in Seq(Seq(Envelopes)) /\ Len(u) = Len(s) /\ \A i \in 1..Len(s) : u[i] = s[i].txs
      /\ b.txs \in Seq(Envelopes)
  BY <1>1, TxsOfSeq, Zenon DEF Blocks, Envelopes
<1>3. /\ v \in Seq(Seq(Envelopes)) /\ Len(v) = Len(s) + 1
      /\ \A i \in 1..(Len(s) + 1) : v[i] = Append(s, b)[i].txs
  BY <1>1, TxsOfSeq, Zenon
<1> DEFINE x == b.txs
<1> HIDE DEF u, v
<1>4. /\ Append(u, x) \in Seq(Seq(Envelopes)) /\ Len(Append(u, x)) = Len(s) + 1
      /\ Append(u, x)[Len(s) + 1] = x /\ \A i \in 1..Len(s) : Append(u, x)[i] = u[i]
  BY <1>2, AppendSeq
<1>5. \A i \in 1..Len(v) : v[i] = Append(u, x)[i]
  <2> SUFFICES ASSUME NEW i \in 1..(Len(s) + 1) PROVE v[i] = Append(u, x)[i]
    BY <1>3, Zenon
  <2>1. CASE i = Len(s) + 1
    BY <1>1, <1>3, <1>4, <2>1
  <2>2. CASE i # Len(s) + 1
    <3>1. i \in 1..Len(s)
      BY <1>1, <2>2
    <3> QED
      BY <1>1, <1>2, <1>3, <1>4, <3>1, Zenon
  <2> QED
    BY <2>1, <2>2, Zenon
<1>6. v = Append(u, x)
  BY <1>3, <1>4, <1>5, SameSeq
<1> QED
  BY <1>6 DEF u, v

LEMMA TxsOfTail ==
    ASSUME NEW s \in Seq(Batches), s # <<>>
    PROVE  TxsOf(Tail(s)) = Tail(TxsOf(s)) /\ TxsOf(s) # <<>> /\ TxsOf(s)[1] = Head(s).txs
<1>1. /\ Tail(s) \in Seq(Batches) /\ Len(Tail(s)) = Len(s) - 1 /\ Len(s) \in Nat \ {0}
      /\ Head(s) = s[1] /\ DOMAIN s = 1..Len(s) /\ DOMAIN Tail(s) = 1..(Len(s) - 1)
      /\ \A i \in 1..(Len(s) - 1) : Tail(s)[i] = s[i + 1]
  OBVIOUS
<1> DEFINE u == TxsOf(s)
           v == TxsOf(Tail(s))
<1>2. /\ u \in Seq(Seq(Envelopes)) /\ Len(u) = Len(s) /\ \A i \in 1..Len(s) : u[i] = s[i].txs
  BY <1>1, TxsOfSeq
<1>3. /\ v \in Seq(Seq(Envelopes)) /\ Len(v) = Len(s) - 1
      /\ \A i \in 1..(Len(s) - 1) : v[i] = Tail(s)[i].txs
  BY <1>1, TxsOfSeq, Zenon
<1> HIDE DEF u, v
<1>4. /\ u # <<>> /\ Tail(u) \in Seq(Seq(Envelopes)) /\ Len(Tail(u)) = Len(s) - 1
      /\ \A i \in 1..(Len(s) - 1) : Tail(u)[i] = u[i + 1]
  BY <1>1, <1>2
<1>5. \A i \in 1..Len(v) : v[i] = Tail(u)[i]
  <2> SUFFICES ASSUME NEW i \in 1..(Len(s) - 1) PROVE v[i] = Tail(u)[i]
    BY <1>3, Zenon
  <2>1. v[i] = s[i + 1].txs /\ i + 1 \in 1..Len(s)
    BY <1>1, <1>3
  <2> QED
    BY <1>2, <1>4, <2>1
<1>6. v = Tail(u)
  BY <1>3, <1>4, <1>5, SameSeq, Zenon
<1>7. u[1] = Head(s).txs
  BY <1>1, <1>2
<1> QED
  BY <1>4, <1>6, <1>7 DEF u, v

\* the elements of a sequence
LEMMA RangeSeq ==
    ASSUME NEW S, NEW s \in Seq(S)
    PROVE  /\ Range(s) = {s[i] : i \in 1..Len(s)} /\ Range(s) \subseteq S
           /\ \A i \in 1..Len(s) : s[i] \in Range(s)
BY DEF Range

LEMMA ConcatAt ==
    ASSUME NEW S, NEW s \in Seq(S), NEW t \in Seq(S)
    PROVE  /\ Len(s) \in Nat /\ Len(t) \in Nat /\ DOMAIN (s \o t) = 1..(Len(s) + Len(t))
           /\ DOMAIN s = 1..Len(s) /\ DOMAIN t = 1..Len(t)
           /\ \A i \in 1..(Len(s) + Len(t)) : (s \o t)[i] = IF i <= Len(s) THEN s[i] ELSE t[i - Len(s)]
OBVIOUS

LEMMA RangeConcat ==
    ASSUME NEW S, NEW s \in Seq(S), NEW t \in Seq(S)
    PROVE  Range(s \o t) = Range(s) \cup Range(t)
<1> DEFINE w == s \o t
<1>1. /\ Len(s) \in Nat /\ Len(t) \in Nat /\ DOMAIN w = 1..(Len(s) + Len(t))
      /\ DOMAIN s = 1..Len(s) /\ DOMAIN t = 1..Len(t)
      /\ \A i \in 1..(Len(s) + Len(t)) : w[i] = IF i <= Len(s) THEN s[i] ELSE t[i - Len(s)]
  OBVIOUS
<1>2. /\ \A i \in 1..Len(s) : i \in DOMAIN w /\ w[i] = s[i]
      /\ \A i \in 1..Len(t) : Len(s) + i \in DOMAIN w /\ w[Len(s) + i] = t[i]
  BY <1>1
<1> HIDE DEF w
<1>3. ASSUME NEW x \in Range(s) PROVE x \in Range(w)
  BY <1>1, <1>2 DEF Range
<1>4. ASSUME NEW x \in Range(t) PROVE x \in Range(w)
  <2>1. PICK i \in 1..Len(t) : x = t[i]
    BY <1>1 DEF Range
  <2> QED
    BY <1>2, <2>1 DEF Range
<1>5. ASSUME NEW x \in Range(w) PROVE x \in Range(s) \cup Range(t)
  <2>1. PICK i \in 1..(Len(s) + Len(t)) : x = w[i]
    BY <1>1 DEF Range
  <2>2. CASE i <= Len(s)
    BY <1>1, <2>1, <2>2 DEF Range
  <2>3. CASE ~(i <= Len(s))
    <3>1. i - Len(s) \in DOMAIN t /\ w[i] = t[i - Len(s)]
      BY <1>1, <2>3
    <3> QED
      BY <2>1, <3>1 DEF Range
  <2> QED
    BY <2>2, <2>3
<1>6. Range(w) = Range(s) \cup Range(t)
  BY <1>3, <1>4, <1>5
<1> QED
  BY <1>6 DEF w

LEMMA RangeTail ==
    ASSUME NEW S, NEW s \in Seq(S), s # <<>>
    PROVE  Head(s) \in Range(s) /\ Range(Tail(s)) \subseteq Range(s)
BY HeadTailSeq DEF Range

---------------------------------------------------------------------------
(* The actions along the way.                                              *)

LEMMA WayTypes ==
    ASSUME TypeInv
    PROVE  /\ \A k \in Stages : Way[k] \in Seq(Seq(Envelopes))
           /\ Way[1] = TxsOf(created) /\ Way[3] = CommitC /\ Way[4] = out
           /\ pc \in {"cut", "commit", "submit"} => Way[2] = TxsOf(arg)
           /\ pc \notin {"cut", "commit", "submit"} => Way[2] = <<>>
           /\ pc = "cut" => Way[5] = <<>>
           /\ pc # "cut" => Way[5] = <<ReadyBatch>>
<1>1. /\ Way[1] = TxsOf(created) /\ Way[3] = CommitC /\ Way[4] = out
      /\ pc \in {"cut", "commit", "submit"} => Way[2] = TxsOf(arg)
      /\ pc \notin {"cut", "commit", "submit"} => Way[2] = <<>>
      /\ pc = "cut" => Way[5] = <<>>
      /\ pc # "cut" => Way[5] = <<ReadyBatch>>
  BY DEF Way
<1>2. Seq(Txs) \subseteq Seq(Envelopes)
  BY SeqSubset DEF Envelopes
<1>3. Seq(Seq(Txs)) \subseteq Seq(Seq(Envelopes))
  BY <1>2, SeqSubset
<1>4. /\ created \in Seq(Blocks) /\ (pc \in {"cut", "commit", "submit"} => arg \in Seq(Batches))
      /\ CommitC \in Seq(Seq(Txs)) /\ out \in Seq(Seq(Txs)) /\ ReadyBatch \in Seq(Txs)
  BY DEF TypeInv, ServeOK, CutterOK
<1>5. Way[1] \in Seq(Seq(Envelopes)) /\ Way[3] \in Seq(Seq(Envelopes)) /\ Way[4] \in Seq(Seq(Envelopes))
  BY <1>1, <1>3, <1>4, TxsOfSeq
<1>6. <<>> \in Seq(Seq(Envelopes)) /\ <<ReadyBatch>> \in Seq(Seq(Envelopes))
  BY <1>2, <1>4, SingleSeq
<1>7. Way[2] \in Seq(Seq(Envelopes))
  BY <1>1, <1>4, <1>6, TxsOfSeq, Zenon
<1>8. Way[5] \in Seq(Seq(Envelopes))
  BY <1>1, <1>6, Zenon
<1> QED
  BY <1>1, <1>5, <1>7, <1>8, SMTT(40) DEF Stages

\* the stages after a step
LEMMA WayNext ==
    /\ Way'[1] = TxsOf(created') /\ Way'[3] = CommitC' /\ Way'[4] = out'
    /\ pc' \in {"cut", "commit", "submit"} => Way'[2] = TxsOf(arg')
    /\ pc' \notin {"cut", "commit", "submit"} => Way'[2] = <<>>
    /\ pc' = "cut" => Way'[5] = <<>>
    /\ pc' # "cut" => Way'[5] = <<ReadyBatch'>>
BY DEF Way

\* Steps that release nothing and order no configuration.
LEMMA FlowMoves ==
    ASSUME Flow, UNCHANGED released, accepted' \cap Configs = accepted \cap Configs,
           Once(Way) => Once(Way'), InOrder(Way, released) => InOrder(Way', released),
           Within(Way, Ordered) => Within(Way', Ordered)
    PROVE  Flow'
<1>1. Ordered' = Ordered
  BY DEF Ordered
<1> QED
  BY <1>1 DEF Flow

LEMMA FlowSame ==
    ASSUME Flow, UNCHANGED released, accepted' \cap Configs = accepted \cap Configs,
           \A p \in Places(Way') : p \in Places(Way) /\ BatchAt(Way', p) = BatchAt(Way, p)
    PROVE  Flow'
<1>1. /\ Once(Way) => Once(Way')
      /\ InOrder(Way, released) => InOrder(Way', released)
      /\ Within(Way, Ordered) => Within(Way', Ordered)
  BY Dropped
<1> QED
  BY <1>1, FlowMoves

LEMMA FlowShifts ==
    ASSUME TypeInv, Flow, released' = released, accepted' = accepted,
           NEW t, NEW s, Adjacent(t, s), Way[s] # <<>>,
           Way'[t] = Append(Way[t], Way[s][1]),
           Way'[s] \in {Tail(Way[s]), <<>>, <<<<>>>>},
           \A k \in Stages \ {t, s} : Way'[k] = Way[k]
    PROVE  Flow'
<1>1. Way[t] \in Seq(Seq(Envelopes)) /\ Way[s] \in Seq(Seq(Envelopes))
  <2>1. s \in Stages /\ t \in Stages
    BY DEF Stages, Adjacent
  <2> QED
    BY <2>1, WayTypes
<1>2. /\ Once(Way) => Once(Way')
      /\ InOrder(Way, released) => InOrder(Way', released)
      /\ Within(Way, Ordered) => Within(Way', Ordered)
  <2> DEFINE T == Seq(Envelopes)
  <2>1. Shift(Way, Way', t, s, T)
    BY <1>1 DEF Shift
  <2> HIDE DEF T
  <2> QED
    BY <2>1, Shifted, Zenon
<1> QED
  BY <1>2, FlowMoves

\* Steps off the way.
Off == /\ UNCHANGED <<created, CommitC, out, ReadyBatch, released>>
       /\ \/ pc' = pc /\ arg' = arg
          \/ pc \in {"select", "send"} /\ pc' \in {"select", "send"}

LEMMA FlowOff ==
    ASSUME Flow, Off, accepted' \cap Configs = accepted \cap Configs
    PROVE  Flow'
<1>1. Way' = Way
  BY DEF Off, Way
<1> QED
  BY <1>1, FlowSame DEF Off

LEMMA SubmitFlow == ASSUME TypeInv, Flow, Upstream, Submit PROVE Flow'
<1>1. PICK m \in submits : submits' = submits \ {m} /\ (Refuse(m) \/ OrderNormal(m) \/ OrderConfig(m))
  BY DEF Submit
<1>2. /\ UNCHANGED <<RaftEnvMsgC, held, out, CommitC, released, created>>
      /\ UNCHANGED ReadyBatch /\ pc = "select"
  BY <1>1 DEF Submit, Refuse, OrderNormal, OrderConfig
<1>3. CASE Refuse(m)
  BY <1>2, <1>3, FlowOff DEF Refuse, Off
<1>4. CASE OrderNormal(m)
  <2>1. m \notin Configs
    BY <1>4, ChainAssumption DEF OrderNormal
  <2>2. accepted' \cap Configs = accepted \cap Configs
    BY <1>4, <2>1 DEF OrderNormal, Accept
  <2>3. Off
    BY <1>2, <1>4 DEF OrderNormal, Off
  <2> QED
    BY <2>2, <2>3, FlowOff
<1>5. CASE OrderConfig(m)
  <2> DEFINE R == ReadyBatch
  <2>1. /\ pc' = "cut" /\ m \in Configs /\ accepted' = accepted \cup {m}
        /\ arg' = (IF R = <<>> THEN <<>> ELSE <<Batch(R)>>) \o <<ConfigBatch(m)>>
    BY <1>5 DEF OrderConfig, Accept
  <2>2. m \notin Ordered
    <3>1. m \notin accepted /\ Range(released) \subseteq accepted
      BY DEF Upstream
    <3> QED
      BY <3>1 DEF Ordered
  <2>3. Way[2] = <<>> /\ Way[5] = <<R>> /\ Way'[5] = <<>> /\ \A k \in {1, 3, 4} : Way'[k] = Way[k]
    BY <1>2, <2>1, WayTypes, WayNext
  <2>4. Way'[2] = (IF R = <<>> THEN <<>> ELSE <<R>>) \o <<<<m>>>>
    <3>1. Way'[2] = TxsOf(arg')
      BY <2>1, WayNext
    <3>2. ConfigBatch(m).txs = <<m>> /\ Batch(R).txs = R
      BY DEF ConfigBatch, Batch
    <3>3. CASE R = <<>>
      <4>1. arg' = <<ConfigBatch(m)>>
        BY <2>1, <3>3, PairSeq
      <4>2. TxsOf(arg') = <<<<m>>>>
        BY <3>2, <4>1 DEF TxsOf
      <4> QED
        BY <3>1, <3>3, <4>2, PairSeq
    <3>4. CASE R # <<>>
      <4>1. arg' = <<Batch(R), ConfigBatch(m)>>
        BY <2>1, <3>4, PairSeq
      <4>2. TxsOf(arg') = <<R, <<m>>>>
        BY <3>2, <4>1 DEF TxsOf
      <4> QED
        BY <3>1, <3>4, <4>2, PairSeq
    <3> QED
      BY <3>3, <3>4
  <2> HIDE DEF R
  <2>5. Once(Way') /\ Within(Way', Ordered \cup {m})
    BY <2>2, <2>3, <2>4, Overtaken, Zenon DEF Flow
  <2>6. Ordered' = Ordered \cup {m} /\ accepted' \cap Configs # {}
    BY <1>2, <2>1 DEF Ordered
  <2> QED
    BY <2>5, <2>6 DEF Flow
<1> QED
  BY <1>1, <1>3, <1>4, <1>5

LEMMA ResetBatchFlow == ASSUME TypeInv, Flow, ResetBatch PROVE Flow'
<1>1. /\ pc = "cut" /\ pc' = "submit" /\ ReadyBatch' = <<>>
      /\ UNCHANGED <<arg, out, CommitC, released, created, accepted>>
  BY DEF ResetBatch, AfterCut
<1>2. (\A k \in 1..4 : Way'[k] = Way[k]) /\ Way'[5] = <<<<>>>>
  BY <1>1, WayTypes, WayNext
<1>3. ASSUME NEW p \in Places(Way') PROVE p \in Places(Way) /\ BatchAt(Way', p) = BatchAt(Way, p)
  <2>1. p \in Stages \X Nat /\ p[2] \in DOMAIN Way'[p[1]] /\ Way'[p[1]][p[2]] # <<>>
    BY <1>3 DEF Places
  <2>2. p[1] # 5
    BY <1>2, <2>1
  <2>3. Way'[p[1]] = Way[p[1]]
    BY <1>2, <2>1, <2>2 DEF Stages
  <2> QED
    BY <2>1, <2>3 DEF Places, BatchAt
<1> QED
  BY <1>1, <1>3, FlowSame

LEMMA TakeBatchFlow == ASSUME TypeInv, Flow, TakeBatch PROVE Flow'
<1>1. /\ pc = "select" /\ pc' = "commit" /\ arg' = <<Batch(Head(CommitC))>> /\ CommitC # <<>>
      /\ CommitC' = Tail(CommitC) /\ UNCHANGED <<ReadyBatch, out, released, created, accepted>>
  BY DEF TakeBatch
<1>2. /\ Way[3] = CommitC /\ Way'[3] = Tail(CommitC) /\ Way[2] = <<>> /\ Way'[2] = TxsOf(arg')
      /\ Way'[1] = Way[1] /\ Way'[4] = Way[4] /\ Way'[5] = Way[5]
  BY <1>1, WayTypes, WayNext, Zenon
<1>3. CommitC \in Seq(Seq(Txs))
  BY DEF TypeInv, CutterOK
<1>4. Way'[2] = Append(Way[2], Way[3][1])
  <2>1. Head(CommitC) = CommitC[1]
    BY <1>1, <1>3, HeadTailSeq
  <2>2. TxsOf(arg') = <<Head(CommitC)>>
    BY <1>1 DEF TxsOf, Batch
  <2>3. Append(<<>>, CommitC[1]) = <<CommitC[1]>>
    OBVIOUS
  <2> QED
    BY <1>2, <2>1, <2>2, <2>3
<1>5. \A k \in Stages \ {2, 3} : Way'[k] = Way[k]
  BY <1>2 DEF Stages
<1> QED
  <2>1. /\ Adjacent(2, 3) /\ Way[3] # <<>> /\ Way'[3] \in {Tail(Way[3]), <<>>, <<<<>>>>}
        /\ released' = released /\ accepted' = accepted
    BY <1>1, <1>2 DEF Adjacent
  <2> QED
    BY <1>4, <1>5, <2>1, FlowShifts, Zenon

LEMMA ProposeFlow == ASSUME TypeInv, Flow, Propose PROVE Flow'
<1> DEFINE block == [num |-> c.bc + 1, txs |-> Head(arg).txs, config |-> Head(arg).config]
<1>1. /\ UNCHANGED <<CommitC, out, ReadyBatch, released, accepted>>
      /\ pc \in {"commit", "submit"} /\ arg \in Seq(Batches) /\ arg # <<>>
  BY DEF Propose, cutter, TypeInv, ServeOK
<1>2. \/ pc' = "panic" /\ created' = created
      \/ pc' = "panic" /\ created' = Append(created, block) /\ c.bc # NoCreator
      \/ /\ created' = Append(created, block) /\ c.bc # NoCreator /\ arg' = Tail(arg)
         /\ \/ Len(arg) = 1 /\ pc' = "select"
            \/ Len(arg) > 1 /\ pc' = pc
  BY DEF Propose
<1>3. /\ Way[1] = TxsOf(created) /\ Way[2] = TxsOf(arg) /\ Way'[1] = TxsOf(created')
      /\ Way'[3] = Way[3] /\ Way'[4] = Way[4] /\ Way'[5] = Way[5]
  BY <1>1, <1>2, WayTypes, WayNext, SMTT(40)
<1>4. /\ Way[2] # <<>> /\ Way[2][1] = Head(arg).txs /\ TxsOf(Tail(arg)) = Tail(Way[2])
      /\ Way[2] \in Seq(Seq(Envelopes)) /\ Len(Way[2]) = Len(arg)
  BY <1>1, <1>3, TxsOfTail, TxsOfSeq
<1>5. CASE pc' = "panic" /\ created' = created
  <2>1. Way'[2] = <<>> /\ Way'[1] = Way[1]
    BY <1>3, <1>5, WayNext
  <2>2. ASSUME NEW p \in Places(Way') PROVE p \in Places(Way) /\ BatchAt(Way', p) = BatchAt(Way, p)
    <3>1. p \in Stages \X Nat /\ p[2] \in DOMAIN Way'[p[1]] /\ Way'[p[1]][p[2]] # <<>>
      BY <2>2 DEF Places
    <3>2. p[1] # 2
      BY <2>1, <3>1
    <3>3. Way'[p[1]] = Way[p[1]]
      BY <1>3, <2>1, <3>1, <3>2 DEF Stages
    <3> QED
      BY <3>1, <3>3 DEF Places, BatchAt
  <2> QED
    BY <1>1, <2>2, FlowSame
<1>6. CASE created' = Append(created, block) /\ c.bc # NoCreator
  <2>1. block \in Blocks /\ created \in Seq(Blocks)
    <3>1. Head(arg) \in Batches /\ c \in ChainState /\ created \in Seq(Blocks)
      BY <1>1, HeadTailSeq DEF TypeInv, ServeOK
    <3>2. Head(arg).txs \in Seq(Txs \cup Configs) /\ Head(arg).config \in {"no", "plain", "member"}
      BY <3>1 DEF Batches
    <3>3. c.bc + 1 \in Nat \ {0}
      BY <1>6, <3>1 DEF ChainState
    <3> QED
      BY <3>1, <3>2, <3>3 DEF Blocks
  <2>2. block.txs = Head(arg).txs
    OBVIOUS
  <2> HIDE DEF block
  <2>3. Way'[1] = Append(Way[1], Way[2][1])
    BY <1>3, <1>4, <1>6, <2>1, <2>2, TxsOfAppend
  <2>4. Way'[2] \in {Tail(Way[2]), <<>>, <<<<>>>>}
    <3>1. CASE pc' \in {"panic", "select"}
      BY <3>1, WayNext
    <3>2. CASE pc' = pc /\ arg' = Tail(arg)
      BY <1>1, <1>4, <3>2, WayNext, Zenon
    <3> QED
      BY <1>2, <3>1, <3>2
  <2>5. \A k \in Stages \ {1, 2} : Way'[k] = Way[k]
    BY <1>3 DEF Stages
  <2>6. Adjacent(1, 2) /\ Way[2] # <<>> /\ released' = released /\ accepted' = accepted
    BY <1>1, <1>4 DEF Adjacent
  <2> QED
    BY <2>3, <2>4, <2>5, <2>6, FlowShifts, Zenon
<1> QED
  BY <1>2, <1>5, <1>6

LEMMA ApplyFlow == ASSUME TypeInv, Flow, Apply PROVE Flow'
<1>1. /\ pc = "select" /\ pc' \in {"select", "panic"} /\ ReadyBatch' \in {ReadyBatch, <<>>}
      /\ UNCHANGED <<CommitC, out, released, created, accepted>>
  BY Zenon DEF Apply, AfterCut
<1>2. (\A k \in 1..4 : Way'[k] = Way[k]) /\ Way[5] = <<ReadyBatch>> /\ Way'[5] = <<ReadyBatch'>>
  BY <1>1, WayTypes, WayNext
<1>3. ASSUME NEW p \in Places(Way') PROVE p \in Places(Way) /\ BatchAt(Way', p) = BatchAt(Way, p)
  <2>1. p \in Stages \X Nat /\ p[2] \in DOMAIN Way'[p[1]] /\ Way'[p[1]][p[2]] # <<>>
    BY <1>3 DEF Places
  <2>2. CASE p[1] # 5 \/ ReadyBatch' = ReadyBatch
    <3>1. Way'[p[1]] = Way[p[1]]
      BY <1>2, <2>1, <2>2 DEF Stages
    <3> QED
      BY <2>1, <3>1 DEF Places, BatchAt
  <2>3. CASE p[1] = 5 /\ ReadyBatch' = <<>>
    BY <1>2, <2>1, <2>3
  <2> QED
    BY <1>1, <2>2, <2>3
<1> QED
  BY <1>1, <1>3, FlowSame

LEMMA SendBatchesFlow == ASSUME TypeInv, Flow, SendBatches PROVE Flow'
<1>1. /\ UNCHANGED <<pc, arg, ReadyBatch, released, created, accepted>>
      /\ CommitC' = CommitC \o out /\ out' = <<>> /\ out # <<>>
  BY DEF SendBatches
<1>2. CommitC \in Seq(Seq(Txs)) /\ out \in Seq(Seq(Txs)) /\ Len(out) <= 1
  BY DEF TypeInv, CutterOK
<1>3. CommitC \o out = Append(CommitC, out[1])
  <2>1. Len(out) = 1 /\ out[1] \in Seq(Txs)
    <3>1. Len(out) \in Nat \ {0} /\ Head(out) \in Seq(Txs) /\ Head(out) = out[1]
      BY <1>1, <1>2, HeadTailSeq
    <3>2. \A n \in Nat \ {0} : n <= 1 => n = 1
      OBVIOUS
    <3> QED
      BY <1>2, <3>1, <3>2, Zenon
  <2> DEFINE x == out[1]
  <2>2. out = <<x>>
    <3>1. <<x>> \in Seq(Seq(Txs)) /\ Len(<<x>>) = 1 /\ <<x>>[1] = x
      BY <2>1, SingleSeq
    <3>2. \A i \in 1..Len(out) : out[i] = <<x>>[i]
      BY <2>1, <3>1
    <3> HIDE DEF x
    <3> QED
      BY <1>2, <2>1, <3>1, <3>2, SameSeq
  <2> HIDE DEF x
  <2>3. CommitC \o <<x>> = Append(CommitC, x)
    BY <1>2
  <2> QED
    BY <2>2, <2>3, Zenon DEF x
<1>4. /\ Way[3] = CommitC /\ Way'[3] = CommitC' /\ Way[4] = out /\ Way'[4] = <<>>
      /\ Way'[1] = Way[1] /\ Way'[2] = Way[2] /\ Way'[5] = Way[5]
  BY <1>1 DEF Way
<1>5. \A k \in Stages \ {3, 4} : Way'[k] = Way[k]
  BY <1>4 DEF Stages
<1>6. Way'[3] = Append(Way[3], Way[4][1]) /\ Way[4] # <<>>
  BY <1>1, <1>3, <1>4
<1>7. /\ Adjacent(3, 4) /\ Way'[4] \in {Tail(Way[4]), <<>>, <<<<>>>>}
      /\ released' = released /\ accepted' = accepted
  BY <1>1, <1>4 DEF Adjacent
<1> QED
  BY <1>5, <1>6, <1>7, FlowShifts, Zenon

LEMMA ProcessEnvMsgFlow == ASSUME Exclusive, TypeInv, Flow, Upstream, ProcessEnvMsg PROVE Flow'
<1> DEFINE m == Head(RaftEnvMsgC)
           R == ReadyBatch
           S == accepted \cap Configs
<1>1. /\ RaftEnvMsgC # <<>> /\ out = <<>> /\ pc # "cut"
      /\ UNCHANGED <<pc, arg, CommitC, created>> /\ accepted' = accepted
  BY Bounds, Zenon DEF ProcessEnvMsg, Exclusive, TypeInv, Sound
<1>2. /\ Way[4] = <<>> /\ Way[5] = <<R>> /\ Way'[4] = out' /\ Way'[5] = <<ReadyBatch'>>
      /\ \A k \in 1..3 : Way'[k] = Way[k]
  BY <1>1 DEF Way
<1>3. /\ R \in Seq(Txs) /\ released \in Seq(Txs) /\ held \subseteq Txs
      /\ RaftEnvMsgC \in Seq(Txs \cup {Tick}) /\ m \in Txs \cup {Tick}
  BY <1>1, HeadTailSeq DEF TypeInv, CutterOK
<1>4. CASE m = Tick
  <2>1. /\ ReadyBatch' = <<>> /\ released' = released
        /\ out' = IF R = <<>> THEN <<>> ELSE <<R>>
    BY <1>4, Zenon DEF ProcessEnvMsg, AfterCut
  <2>2. CASE R = <<>>
    <3>1. Off
      BY <1>1, <2>1, <2>2 DEF Off
    <3> QED
      BY <1>1, <3>1, FlowOff
  <2>3. CASE R # <<>>
    <3>1. Append(<<>>, R) = <<R>> /\ <<R>>[1] = R
      OBVIOUS
    <3>2. Way'[4] = Append(Way[4], Way[5][1])
      BY <1>2, <2>1, <2>3, <3>1
    <3>3. \A k \in Stages \ {4, 5} : Way'[k] = Way[k]
      BY <1>2 DEF Stages
    <3>4. Adjacent(4, 5) /\ Way[5] # <<>> /\ Way'[5] \in {Tail(Way[5]), <<>>, <<<<>>>>}
      BY <1>2, <2>1 DEF Adjacent
    <3> QED
      BY <1>1, <2>1, <3>2, <3>3, <3>4, FlowShifts, Zenon
  <2> QED
    BY <2>2, <2>3
<1>5. CASE m # Tick
  <2>1. PICK r \in Orders(held \cup {m}) :
           /\ released' = released \o r
           /\ ReadyBatch' = AfterCut(Full(R \o r), R \o r)
           /\ out' = IF Full(R \o r) THEN <<R \o r>> ELSE <<>>
    BY <1>5, Zenon DEF ProcessEnvMsg
  <2>2. r \in Seq(held \cup {m}) /\ DOMAIN r = 1..Len(r) /\ \A i, j \in 1..Len(r) : r[i] = r[j] => i = j
    BY <2>1, OrdersSeq
  <2>3. r \in Seq(Txs)
    <3>1. held \cup {m} \subseteq Txs
      BY <1>3, <1>5
    <3> HIDE DEF m
    <3> QED
      BY <2>2, <3>1, SeqSubset
  <2>4. \A j \in 1..Len(r) : r[j] \notin Range(released) \cup S
    <3>1. \A j \in 1..Len(r) : r[j] \in held \cup {m} /\ r[j] \in Txs
      BY <2>2, <2>3
    <3>2. m \in Range(RaftEnvMsgC)
      BY <1>1, <1>3, RangeTail
    <3>3. (held \cup {m}) \cap Range(released) = {}
      BY <3>2 DEF Upstream
    <3>4. Txs \cap S = {}
      BY ChainAssumption
    <3> HIDE DEF m, S
    <3> QED
      BY <3>1, <3>3, <3>4
  <2> DEFINE W == [k \in Stages |-> IF k = 5 THEN <<R \o r>> ELSE Way[k]]
  <2>5. W[5] = <<R \o r>> /\ \A k \in 1..4 : W[k] = Way[k]
    BY DEF Stages
  <2> HIDE DEF W
  <2>6. /\ Once(Way) => Once(W)
        /\ S = {} /\ InOrder(Way, released) => InOrder(W, released \o r)
        /\ Within(W, Range(released \o r) \cup S)
    <3>1. Within(Way, Range(released) \cup S)
      BY DEF Flow, Ordered
    <3> HIDE DEF R, S
    <3> QED
      BY <1>2, <1>3, <2>2, <2>3, <2>4, <2>5, <3>1, Extended, Zenon
  <2>7. R \o r \in Seq(Txs)
    BY <1>3, <2>3, ConcatSeq
  <2> DEFINE x == R \o r
  <2> HIDE DEF R
  <2>8. /\ Once(W) => Once(Way')
        /\ InOrder(W, released') => InOrder(Way', released')
        /\ Within(W, Range(released') \cup S) => Within(Way', Range(released') \cup S)
    <3>1. CASE Full(x)
      <4>1. Way'[4] = <<x>> /\ Way'[5] = <<<<>>>>
        BY <1>2, <2>1, <3>1 DEF AfterCut
      <4> HIDE DEF x, S
      <4>2. W[4] = <<>> /\ W[5] = <<x>> /\ W[5][1] = x
        BY <1>2, <2>5 DEF x
      <4>3. Append(<<>>, x) = <<x>>
        OBVIOUS
      <4>4. Way'[4] = Append(W[4], W[5][1]) /\ Way'[5] \in {Tail(W[5]), <<>>, <<<<>>>>}
        BY <4>1, <4>2, <4>3
      <4>5. W[4] \in Seq({x}) /\ W[5] \in Seq({x}) /\ W[5] # <<>>
        BY <4>2
      <4>6. \A k \in Stages \ {4, 5} : Way'[k] = W[k]
        BY <1>2, <2>5 DEF Stages
      <4>7. Adjacent(4, 5)
        BY DEF Adjacent
      <4> DEFINE V == Way'
                 rel == released'
                 A == Range(rel) \cup S
                 T == {x}
      <4> HIDE DEF V, rel, A, T
      <4>8. /\ V[4] = Append(W[4], W[5][1]) /\ V[5] \in {Tail(W[5]), <<>>, <<<<>>>>}
            /\ \A k \in Stages \ {4, 5} : V[k] = W[k]
        BY <4>4, <4>6 DEF V
      <4>9. /\ Once(W) => Once(V)
            /\ InOrder(W, rel) => InOrder(V, rel)
            /\ Within(W, A) => Within(V, A)
        <5>1. Shift(W, V, 4, 5, T)
          BY <4>5, <4>7, <4>8 DEF T, Shift
        <5> QED
          BY <5>1, Shifted
      <4> QED
        BY <4>9 DEF V, rel, A
    <3>2. CASE ~Full(x)
      <4>1. Way'[4] = <<>> /\ Way'[5] = <<x>>
        BY <1>2, <2>1, <3>2, Zenon DEF AfterCut
      <4>2. \A k \in Stages : Way'[k] = W[k]
        <5> HIDE DEF x, S
        <5>1. \A k \in Stages \ {4, 5} : Way'[k] = W[k]
          BY <1>2, <2>5 DEF Stages
        <5>2. W[4] = <<>> /\ W[5] = <<x>>
          BY <1>2, <2>5 DEF x
        <5> QED
          BY ONLY <4>1, <5>1, <5>2, Zenon
      <4>3. \A p \in Places(Way') : p \in Places(W) /\ BatchAt(Way', p) = BatchAt(W, p)
        BY <4>2 DEF Places, BatchAt
      <4> HIDE DEF S
      <4> QED
        BY <4>3, Dropped
    <3> QED
      BY <3>1, <3>2
  <2>9. Ordered' = Range(released') \cup S /\ accepted' \cap Configs = S
    BY <1>1 DEF Ordered
  <2> HIDE DEF S
  <2>10. Once(Way') /\ Within(Way', Ordered')
    BY <2>1, <2>6, <2>8, <2>9 DEF Flow
  <2>11. ASSUME S = {} PROVE InOrder(Way', released')
    <3>1. InOrder(Way, released)
      BY <2>11 DEF Flow, S
    <3> QED
      BY <2>1, <2>6, <2>8, <2>11, <3>1
  <2> QED
    BY <2>9, <2>10, <2>11 DEF Flow
<1> QED
  BY <1>4, <1>5

---------------------------------------------------------------------------
(* Up to the release.                                                      *)

LEMMA UpstreamSame ==
    ASSUME Upstream, UNCHANGED <<RaftEnvMsgC, held, released>>, accepted \subseteq accepted',
           accepted' \cap submits' = {}, pc' = "send" => pc = "send" /\ arg' = arg
    PROVE  Upstream'
BY DEF Upstream

LEMMA SubmitUpstream == ASSUME TypeInv, Upstream, Submit PROVE Upstream'
<1>1. PICK m \in submits : submits' = submits \ {m} /\ (Refuse(m) \/ OrderNormal(m) \/ OrderConfig(m))
  BY DEF Submit
<1>2. UNCHANGED <<RaftEnvMsgC, held, released>> /\ pc = "select"
  BY DEF Submit
<1>3. m \notin accepted /\ accepted \cap submits = {}
  BY DEF Upstream
<1>4. CASE Refuse(m)
  BY <1>1, <1>2, <1>3, <1>4, UpstreamSame DEF Refuse
<1>5. CASE OrderNormal(m)
  <2>1. pc' = "send" /\ arg' = <<m>> /\ accepted' = accepted \cup {m} /\ m \in Txs
    BY <1>5 DEF OrderNormal, Accept
  <2>2. arg'[1] = m /\ m \in accepted' /\ m # Tick
    BY <2>1, ChainAssumption
  <2>3. m \notin Range(RaftEnvMsgC) \cup held \cup Range(released)
    BY <1>3, <2>2, Zenon DEF Upstream
  <2>4. accepted' \cap submits' = {} /\ accepted \subseteq accepted'
    BY <1>1, <1>3, <2>1
  <2> QED
    BY <1>2, <2>2, <2>3, <2>4, Zenon DEF Upstream
<1>6. CASE OrderConfig(m)
  BY <1>1, <1>2, <1>3, <1>6, UpstreamSame DEF OrderConfig, Accept
<1> QED
  BY <1>1, <1>4, <1>5, <1>6

LEMMA SendEnvMsgUpstream == ASSUME TypeInv, Upstream, SendEnvMsg PROVE Upstream'
<1> DEFINE q == RaftEnvMsgC
           w == q \o arg
           n == Len(q)
<1>1. /\ pc = "send" /\ pc' = "select" /\ RaftEnvMsgC' = w
      /\ UNCHANGED <<submits, held, released, accepted>>
  BY DEF SendEnvMsg
<1>2. q \in Seq(Txs \cup {Tick}) /\ arg \in Seq(Txs \cup {Tick}) /\ Len(arg) = 1 /\ held \subseteq Txs
      /\ released \in Seq(Txs)
  BY <1>1 DEF TypeInv, ServeOK, CutterOK
<1>3. /\ n \in Nat /\ DOMAIN q = 1..n /\ DOMAIN w = 1..(n + 1) /\ w[n + 1] = arg[1]
      /\ \A i \in 1..n : w[i] = q[i] /\ q[i] \in Range(q)
  <2>1. /\ n \in Nat /\ DOMAIN q = 1..n /\ DOMAIN w = 1..(n + 1)
        /\ \A i \in 1..(n + 1) : w[i] = IF i <= n THEN q[i] ELSE arg[i - n]
    <3>1. /\ Len(q) \in Nat /\ Len(arg) \in Nat /\ DOMAIN w = 1..(Len(q) + Len(arg))
          /\ DOMAIN q = 1..Len(q)
          /\ \A i \in 1..(Len(q) + Len(arg)) : w[i] = IF i <= Len(q) THEN q[i] ELSE arg[i - Len(q)]
      <4> DEFINE S == Txs \cup {Tick}
      <4>1. q \in Seq(S) /\ arg \in Seq(S)
        BY <1>2
      <4> HIDE DEF S, q
      <4> QED
        BY <4>1, ConcatAt
    <3> HIDE DEF w
    <3> QED
      BY <1>2, <3>1
  <2>2. \A i \in 1..n : q[i] \in Range(q)
    BY <1>2, RangeSeq
  <2>3. w[n + 1] = arg[1]
    BY <2>1
  <2>4. \A i \in 1..n : w[i] = q[i]
    BY <2>1
  <2> QED
    BY <2>1, <2>2, <2>3, <2>4
<1>4. Range(w) = Range(q) \cup {arg[1]}
  <2>1. Range(arg) = {arg[1]}
    BY <1>2 DEF Range
  <2> QED
    BY <1>2, <2>1, RangeConcat
<1> HIDE DEF w, n
<1>5. arg[1] = Tick \/ arg[1] \in accepted \ (Range(q) \cup held \cup Range(released))
  BY <1>1 DEF Upstream
<1>6. \A k, l \in DOMAIN w : w[k] = w[l] /\ w[k] # Tick => k = l
  <2> SUFFICES ASSUME NEW k \in 1..(n + 1), NEW l \in 1..(n + 1), w[k] = w[l], w[k] # Tick PROVE k = l
    BY <1>3
  <2>1. CASE k \in 1..n /\ l \in 1..n
    BY <1>3, <2>1, Zenon DEF Upstream
  <2>2. CASE k \in 1..n /\ l = n + 1
    BY <1>3, <1>5, <2>2
  <2>3. CASE k = n + 1 /\ l \in 1..n
    BY <1>3, <1>5, <2>3
  <2>4. CASE k = n + 1 /\ l = n + 1
    BY <2>4
  <2> QED
    BY <1>3, <2>1, <2>2, <2>3, <2>4
<1>7. Tick \notin held \cup Range(released)
  BY <1>2, ChainAssumption, RangeSeq
<1>8. Range(w) \cap (held \cup Range(released)) = {} /\ Range(w) \ {Tick} \subseteq accepted
  BY <1>4, <1>5, <1>7 DEF Upstream
<1>9. pc' # "send" /\ RaftEnvMsgC' = w
  BY <1>1
<1> HIDE DEF q
<1> QED
  BY <1>1, <1>6, <1>8, <1>9, Zenon DEF Upstream

LEMMA ProcessEnvMsgUpstream == ASSUME TypeInv, Upstream, ProcessEnvMsg PROVE Upstream'
<1> DEFINE q == RaftEnvMsgC
           m == Head(q)
           t == Tail(q)
<1>1. /\ q # <<>> /\ RaftEnvMsgC' = t /\ UNCHANGED <<submits, pc, arg, accepted>>
  BY Zenon DEF ProcessEnvMsg
<1>2. q \in Seq(Txs \cup {Tick}) /\ held \subseteq Txs /\ released \in Seq(Txs)
  BY DEF TypeInv, CutterOK
<1>3. /\ Len(q) \in Nat \ {0} /\ DOMAIN q = 1..Len(q) /\ DOMAIN t = 1..(Len(q) - 1) /\ m = q[1]
      /\ \A i \in 1..(Len(q) - 1) : t[i] = q[i + 1]
      /\ m \in Txs \cup {Tick} /\ m \in Range(q) /\ Range(t) \subseteq Range(q)
  BY <1>1, <1>2, HeadTailSeq, RangeTail
<1> HIDE DEF m, t
<1>4. \A k, l \in DOMAIN t : t[k] = t[l] /\ t[k] # Tick => k = l
  <2> SUFFICES ASSUME NEW k \in 1..(Len(q) - 1), NEW l \in 1..(Len(q) - 1), t[k] = t[l], t[k] # Tick
               PROVE  k = l
    BY <1>3
  <2>1. k + 1 \in DOMAIN q /\ l + 1 \in DOMAIN q /\ q[k + 1] = q[l + 1] /\ q[k + 1] # Tick
    BY <1>3
  <2>2. k + 1 = l + 1
    BY <2>1 DEF Upstream
  <2> QED
    BY <2>2
<1>5. m # Tick => m \notin Range(t)
  <2> SUFFICES ASSUME m # Tick, m \in Range(t) PROVE FALSE
    OBVIOUS
  <2>1. PICK i \in 1..(Len(q) - 1) : m = t[i]
    BY <1>3 DEF Range
  <2>2. i + 1 \in DOMAIN q /\ 1 \in DOMAIN q /\ q[i + 1] = q[1] /\ q[1] # Tick
    BY <1>3, <2>1
  <2>3. i + 1 = 1
    BY <2>2 DEF Upstream
  <2> QED
    BY <2>3
<1>6. CASE m = Tick
  <2>1. UNCHANGED <<held, released>>
    BY <1>6, Zenon DEF ProcessEnvMsg, m
  <2> QED
    BY <1>1, <1>3, <1>4, <2>1 DEF Upstream
<1>7. CASE m # Tick
  <2>1. PICK r \in Orders(held \cup {m}) : /\ held' = (held \cup {m}) \ {r[i] : i \in DOMAIN r}
                                          /\ released' = released \o r
    BY <1>7, Zenon DEF ProcessEnvMsg, m
  <2>2. r \in Seq(held \cup {m}) /\ DOMAIN r = 1..Len(r) /\ \A i, j \in 1..Len(r) : r[i] = r[j] => i = j
    BY OrdersSeq
  <2>3. r \in Seq(Txs) /\ Range(r) \subseteq held \cup {m} /\ {r[i] : i \in DOMAIN r} = Range(r)
    <3>1. held \cup {m} \subseteq Txs
      BY <1>2, <1>3, <1>7
    <3>2. r \in Seq(Txs)
      BY <2>2, <3>1, SeqSubset
    <3>3. Range(r) \subseteq held \cup {m}
      BY <2>2, RangeSeq, Zenon
    <3> QED
      BY <3>2, <3>3 DEF Range
  <2>4. Range(released') = Range(released) \cup Range(r)
    BY <1>2, <2>1, <2>3, RangeConcat, SMTT(40)
  <2>5. /\ m \in accepted /\ m \notin held /\ m \notin Range(released)
        /\ held \cap Range(released) = {} /\ Range(t) \cap (held \cup {m} \cup Range(released)) = {}
    <3>1. /\ Range(q) \ {Tick} \subseteq accepted /\ held \cap Range(released) = {}
          /\ Range(q) \cap (held \cup Range(released)) = {}
      BY Zenon DEF Upstream
    <3>2. m \in Range(q) /\ Range(t) \subseteq Range(q) /\ m # Tick /\ m \notin Range(t)
      BY <1>3, <1>5, <1>7, Zenon
    <3> HIDE DEF q
    <3>3. m \in accepted /\ m \notin held /\ m \notin Range(released)
      BY <3>1, <3>2, Zenon
    <3>4. Range(t) \cap (held \cup {m} \cup Range(released)) = {}
      BY <3>1, <3>2, Zenon
    <3> QED
      BY <3>1, <3>3, <3>4
  <2>6. \A k, l \in DOMAIN released' : released'[k] = released'[l] => k = l
    <3> DEFINE w == released \o r
               n == Len(released)
    <3>1. /\ n \in Nat /\ Len(r) \in Nat /\ DOMAIN w = 1..(n + Len(r)) /\ DOMAIN released = 1..n
          /\ \A i \in 1..n : w[i] = released[i] /\ released[i] \in Range(released)
          /\ \A i \in 1..Len(r) : r[i] \in Range(r)
          /\ \A i \in 1..(n + Len(r)) : ~(i <= n) => i - n \in 1..Len(r) /\ w[i] = r[i - n]
      BY <1>2, <2>3, RangeSeq
    <3> HIDE DEF w, n
    <3>2. Range(r) \cap Range(released) = {}
      BY <2>3, <2>5
    <3> SUFFICES ASSUME NEW k \in 1..(n + Len(r)), NEW l \in 1..(n + Len(r)), w[k] = w[l] PROVE k = l
      BY <2>1, <3>1 DEF w
    <3>3. CASE k <= n /\ l <= n
      BY <3>1, <3>3, SMTT(40) DEF Upstream
    <3>4. CASE ~(k <= n) /\ ~(l <= n)
      <4>1. k - n = l - n
        BY <2>2, <3>1, <3>4
      <4> QED
        BY <3>1, <4>1
    <3>5. CASE k <= n /\ ~(l <= n)
      <4>1. w[k] \in Range(released) /\ w[l] \in Range(r)
        BY <3>1, <3>5
      <4> QED
        BY <3>2, <4>1
    <3>6. CASE ~(k <= n) /\ l <= n
      <4>1. w[l] \in Range(released) /\ w[k] \in Range(r)
        BY <3>1, <3>6
      <4> QED
        BY <3>2, <4>1
    <3> QED
      BY <3>3, <3>4, <3>5, <3>6
  <2>7. /\ held' = (held \cup {m}) \ Range(r) /\ Range(released) \cup held \cup {m} \subseteq accepted
        /\ Range(t) \ {Tick} \subseteq accepted /\ accepted \cap submits = {}
    BY <1>3, <2>1, <2>3, <2>5, Zenon DEF Upstream
  <2>8. pc = "send" /\ arg[1] # Tick => arg[1] \in accepted \ (Range(t) \cup held \cup {m} \cup Range(released))
    BY <1>3, Zenon DEF Upstream
  <2>9. /\ held' \cup Range(released') = held \cup {m} \cup Range(released)
        /\ held' \cap Range(released') = {}
    BY <2>3, <2>4, <2>5, <2>7, Zenon
  <2> QED
    BY <1>1, <1>4, <2>5, <2>6, <2>7, <2>8, <2>9, Zenon DEF Upstream
<1> QED
  BY <1>6, <1>7

---------------------------------------------------------------------------
(* The invariant, and what follows from it.                                *)

FlowInv == TypeInv /\ Flow /\ Upstream

LEMMA InitFlow == Init => FlowInv
<1> SUFFICES ASSUME Init PROVE FlowInv
  OBVIOUS
<1>1. /\ created = <<>> /\ CommitC = <<>> /\ out = <<>> /\ ReadyBatch = <<>> /\ pc = "select"
      /\ RaftEnvMsgC = <<>> /\ held = {} /\ released = <<>> /\ accepted = {}
  BY DEF Init
<1>2. /\ Way[1] = <<>> /\ Way[2] = <<>> /\ Way[3] = <<>> /\ Way[4] = <<>> /\ Way[5] = <<<<>>>>
  <2>1. TxsOf(<<>>) = <<>>
    <3>1. <<>> \in Seq(Blocks)
      OBVIOUS
    <3>2. TxsOf(<<>>) \in Seq(Seq(Envelopes)) /\ Len(TxsOf(<<>>)) = 0
      BY <3>1, TxsOfSeq, Zenon
    <3> QED
      BY <3>2
  <2> HIDE DEF TxsOf
  <2>2. Way = <<<<>>, <<>>, <<>>, <<>>, <<<<>>>>>>
    BY <1>1, <2>1 DEF Way
  <2> QED
    BY <2>2
<1>3. Places(Way) = {}
  <2> SUFFICES ASSUME NEW p \in Places(Way) PROVE FALSE
    OBVIOUS
  <2>1. p \in Stages \X Nat /\ p[2] \in DOMAIN Way[p[1]] /\ Way[p[1]][p[2]] # <<>>
    BY DEF Places
  <2>2. p[1] \in {1, 2, 3, 4, 5}
    BY <2>1 DEF Stages
  <2> QED
    BY <1>2, <2>1, <2>2
<1>4. Flow
  BY <1>3, Zenon DEF Flow, Once, InOrder, Within
<1>5. Upstream
  <2>1. Range(<<>>) = {}
    BY DEF Range
  <2> QED
    BY <1>1, <2>1 DEF Upstream
<1> QED
  BY <1>4, <1>5, InitTypes DEF FlowInv

\* The steps of the other goroutines, of the timer and of raft.
LEMMA AsideFlow ==
    ASSUME Flow, Upstream,
           TimerCase \/ TimerFires \/ Proposer \/ ProposeConfChange \/ Raft \/ Ready \/ UNCHANGED vars
    PROVE  Flow' /\ Upstream'
<1>1. /\ UNCHANGED <<RaftEnvMsgC, held, ReadyBatch, out, CommitC, released>>
      /\ UNCHANGED <<submits, created, accepted>>
      /\ \/ pc' = pc /\ arg' = arg
         \/ pc = "select" /\ pc' = "send" /\ arg' = <<Tick>>
  BY DEF TimerCase, TimerFires, Proposer, ProposeConfChange, Raft, Ready, vars, cutter
<1>2. Flow'
  BY <1>1, FlowOff DEF Off
<1>3. Upstream'
  <2>1. CASE pc' = pc /\ arg' = arg
    BY <1>1, <2>1, UpstreamSame, Zenon DEF Upstream
  <2>2. CASE arg' = <<Tick>>
    <3>1. arg'[1] = Tick
      BY <2>2
    <3> QED
      BY <1>1, <3>1, Zenon DEF Upstream
  <2> QED
    BY <1>1, <2>1, <2>2
<1> QED
  BY <1>2, <1>3

LEMMA FlowStep == ASSUME Exclusive PROVE FlowInv /\ [Next]_vars => FlowInv'
<1> SUFFICES ASSUME TypeInv, Flow, Upstream, [Next]_vars PROVE Flow' /\ Upstream'
  BY TypeStep DEF FlowInv
<1>1. CASE Submit
  BY <1>1, SubmitFlow, SubmitUpstream
<1>2. CASE ResetBatch
  <2>1. Upstream'
    BY <1>2, UpstreamSame, Zenon DEF ResetBatch, Upstream
  <2> QED
    BY <1>2, <2>1, ResetBatchFlow
<1>3. CASE SendEnvMsg
  <2>1. Off /\ UNCHANGED accepted
    BY <1>3 DEF SendEnvMsg, Off
  <2>2. Flow'
    BY <2>1, FlowOff
  <2> QED
    BY <1>3, <2>2, SendEnvMsgUpstream
<1>4. CASE TakeBatch
  <2>1. Upstream'
    BY <1>4, UpstreamSame, Zenon DEF TakeBatch, Upstream
  <2> QED
    BY <1>4, <2>1, TakeBatchFlow
<1>5. CASE Propose
  <2>1. /\ UNCHANGED <<RaftEnvMsgC, held, released>> /\ UNCHANGED <<submits, accepted>>
        /\ pc' # "send"
    BY <1>5 DEF Propose, cutter
  <2>2. Upstream'
    BY <2>1, UpstreamSame, Zenon DEF Upstream
  <2> QED
    BY <1>5, <2>2, ProposeFlow
<1>6. CASE Apply
  <2>1. /\ UNCHANGED <<RaftEnvMsgC, held, released>> /\ UNCHANGED <<submits, accepted>>
        /\ pc' # "send"
    BY <1>6, Zenon DEF Apply
  <2>2. Upstream'
    BY <2>1, UpstreamSame, Zenon DEF Upstream
  <2> QED
    BY <1>6, <2>2, ApplyFlow
<1>7. CASE ProcessEnvMsg
  BY <1>7, ProcessEnvMsgFlow, ProcessEnvMsgUpstream
<1>8. CASE SendBatches
  <2>1. Upstream'
    BY <1>8, UpstreamSame, Zenon DEF SendBatches, Upstream
  <2> QED
    BY <1>8, <2>1, SendBatchesFlow
<1>9. CASE TimerCase \/ TimerFires \/ Proposer \/ ProposeConfChange \/ Raft \/ Ready \/ UNCHANGED vars
  BY <1>9, AsideFlow
<1> QED
  BY <1>1, <1>2, <1>3, <1>4, <1>5, <1>6, <1>7, <1>8, <1>9 DEF Next, Idle

\* the blocks are the first stage
LEMMA BlockPlaces ==
    ASSUME TypeInv, NEW i \in DOMAIN created, NEW x \in DOMAIN created[i].txs
    PROVE  /\ <<1, i>> \in Places(Way) /\ BatchAt(Way, <<1, i>>) = created[i].txs
           /\ i \in Nat
<1>1. created \in Seq(Blocks)
  BY DEF TypeInv, ServeOK
<1>2. Way[1] = TxsOf(created) /\ DOMAIN TxsOf(created) = DOMAIN created /\ TxsOf(created)[i] = created[i].txs
  BY <1>1, WayTypes, TxsOfSeq, Zenon
<1>3. i \in Nat /\ created[i].txs # <<>>
  BY <1>1
<1> QED
  BY <1>2, <1>3 DEF Places, BatchAt, Stages

\* When the cutter does not run between the two halves of serveRequest's Cut, or when there
\* are no configurations, an envelope gets into at most one block: for every number of
\* envelopes, leaderships and blocks of other leaders, whatever the sizes of the channels.
THEOREM OneBlockEach == ASSUME Exclusive PROVE Spec => []AtMostOneBlock
<1>1. FlowInv => AtMostOneBlock
  <2> SUFFICES ASSUME FlowInv, NEW i \in DOMAIN created, NEW j \in DOMAIN created,
                      NEW x \in DOMAIN created[i].txs, NEW y \in DOMAIN created[j].txs,
                      created[i].txs[x] = created[j].txs[y]
               PROVE  i = j /\ x = y
    BY DEF AtMostOneBlock
  <2> DEFINE p == <<1, i>>
             q == <<1, j>>
  <2>1. /\ p \in Places(Way) /\ BatchAt(Way, p) = created[i].txs
        /\ q \in Places(Way) /\ BatchAt(Way, q) = created[j].txs
    BY BlockPlaces DEF FlowInv
  <2>2. p = q => i = j
    OBVIOUS
  <2> HIDE DEF p, q
  <2>3. p = q /\ x = y
    BY <2>1 DEF FlowInv, Flow, Once
  <2> QED
    BY <2>2, <2>3
<1> QED
  BY <1>1, InitFlow, FlowStep, PTL DEF Spec

\* When the cutter does not run between the two halves of serveRequest's Cut, and as long as
\* no configuration is ordered, the blocks keep the order in which the graph released the
\* transactions, across leaderships too.
THEOREM BlocksInOrder == ASSUME Exclusive PROVE Spec => []ReleaseOrder
<1>1. FlowInv => ReleaseOrder
  <2> SUFFICES ASSUME FlowInv, accepted \cap Configs = {},
                      NEW i \in DOMAIN created, NEW j \in DOMAIN created,
                      NEW x \in DOMAIN created[i].txs, NEW y \in DOMAIN created[j].txs,
                      i < j \/ (i = j /\ x < y)
               PROVE  Pos(created[i].txs[x]) < Pos(created[j].txs[y])
    BY DEF ReleaseOrder
  <2> DEFINE p == <<1, i>>
             q == <<1, j>>
             u == created[i].txs[x]
             v == created[j].txs[y]
  <2>1. /\ p \in Places(Way) /\ BatchAt(Way, p) = created[i].txs /\ i \in Nat
        /\ q \in Places(Way) /\ BatchAt(Way, q) = created[j].txs /\ j \in Nat
    BY BlockPlaces DEF FlowInv
  <2>2. Precedes(p, q) \/ (p = q /\ x < y)
    BY DEF Precedes
  <2> HIDE DEF p, q
  <2>3. u \in Range(released) /\ v \in Range(released)
    BY <2>1, Zenon DEF FlowInv, Flow, Within, Ordered
  <2>4. \A k, l \in DOMAIN released : released[k] = u /\ released[l] = v => k < l
    <3>1. InOrder(Way, released)
      BY Zenon DEF FlowInv, Flow
    <3>2. x \in DOMAIN BatchAt(Way, p) /\ y \in DOMAIN BatchAt(Way, q)
      BY <2>1, Zenon
    <3>3. \A k, l \in DOMAIN released :
             released[k] = BatchAt(Way, p)[x] /\ released[l] = BatchAt(Way, q)[y] => k < l
      BY ONLY <2>1, <2>2, <3>1, <3>2, Zenon DEF InOrder
    <3> QED
      BY ONLY <2>1, <3>3, Zenon
  <2> HIDE DEF u, v
  <2>5. \A t \in Range(released) : Pos(t) \in DOMAIN released /\ released[Pos(t)] = t
    BY DEF Pos, Range
  <2> QED
    BY <2>3, <2>4, <2>5 DEF u, v
<1> QED
  BY <1>1, InitFlow, FlowStep, PTL DEF Spec
=============================================================================
