---------------------------- MODULE Pbuf_proofs -----------------------------
(***************************************************************************)
(* Proofs about Pbuf, for every pool, size of the buffers, length of       *)
(* packets and number of references a caller may hold.                     *)
(*                                                                         *)
(* What makes the invariant inductive is the shape of the chains: no chain *)
(* comes back to a buffer (Acyclic), none continues with the same buffer   *)
(* as another one (Linear), and a free buffer continues with none          *)
(* (FreeInv).  Then a buffer has at most one reference from a chain, and   *)
(* RefInv counts it without a cardinality.  That no buffer is lost and     *)
(* that no total is larger than the pool need no step of their own: both   *)
(* follow from the shape, by a largest set of buffers that would not       *)
(* have it.                                                                *)
(***************************************************************************)
EXTENDS Pbuf, FiniteSetTheorems, TLAPS

\* The types of the fields, as far as a step can see them
Types ==
  /\ next \in [Pbufs -> Pbufs \cup {NULL}]
  /\ len \in [Pbufs -> 0..BufSize] /\ tot_len \in [Pbufs -> Int]
  /\ ref \in [Pbufs -> Int] /\ held \in [Pbufs -> 0..MaxHeld]

\* Some buffer of every set of buffers continues outside of the set.
Acyclic == \A T \in SUBSET Pbufs : T # {} => \E x \in T : next[x] \notin T

\* No two buffers continue with the same one.
Linear == \A x, y \in Pbufs : next[x] = next[y] /\ next[x] # NULL => x = y

RefInv == \A x \in Pbufs : ref[x] = held[x] + (IF Whole(x) THEN 0 ELSE 1)

FreeInv ==
  \A x \in Pbufs : ref[x] = 0 => next[x] = NULL /\ len[x] = 0 /\ tot_len[x] = 0

Shape == Types /\ Acyclic /\ Linear /\ RefInv /\ FreeInv

IInv == Shape /\ TotLenIsTrue

----------------------------------------------------------------------------
(* Numbers, and the functions that Walk() and Sum() choose.                *)

\* The bounds are natural numbers and the buffers a finite set of them.
LEMMA Constants ==
  /\ PoolSize \in Nat \ {0} /\ BufSize \in Nat \ {0} /\ MaxHeld \in Nat \ {0} /\ MaxLength \in Nat
  /\ IsFiniteSet(Pbufs) /\ Cardinality(Pbufs) = PoolSize
  /\ NULL \notin Pbufs /\ Pbufs \subseteq Nat
<1>1. /\ PoolSize \in Nat \ {0} /\ BufSize \in Nat \ {0} /\ MaxHeld \in Nat \ {0}
      /\ MaxLength \in Nat
  BY PbufAssumption
<1>2. IsFiniteSet(Pbufs) /\ Cardinality(Pbufs) = PoolSize
  BY <1>1, FS_Interval DEF Pbufs
<1> QED BY <1>1, <1>2 DEF Pbufs, NULL

\* There is a least number in a set that is not empty.
LEMMA LeastNat ==
  ASSUME NEW T, T \subseteq Nat, T # {}
  PROVE  \E x \in T : \A y \in T : x <= y
<1>1. IsWellFoundedOn(OpToRel(<, Nat), Nat)
  BY NatLessThanWellFounded
<1>2. PICK x \in T : \A y \in T : ~(<<y, x>> \in OpToRel(<, Nat))
  BY <1>1, WFMin
<1>3. \A y \in T : ~(y < x)
  BY <1>2 DEF OpToRel
<1> QED BY <1>3

\* Least() finds it.
LEMMA LeastFacts ==
  ASSUME NEW T, T \subseteq Nat, T # {}
  PROVE  Least(T) \in T /\ \A y \in T : Least(T) <= y
BY LeastNat DEF Least

\* The first n buffers of the chain that starts with p
IsWalk(p, n, g) ==
  g = [k \in 0..n |-> IF k = 0 THEN p ELSE IF g[k - 1] = NULL THEN NULL ELSE next[g[k - 1]]]

\* There is such a function: that for n continues that for n - 1.
LEMMA WalkExists ==
  ASSUME NEW p
  PROVE  \A n \in Nat : \E g : IsWalk(p, n, g)
<1> DEFINE Good(n) == \E g : IsWalk(p, n, g)
           T == {n \in Nat : ~Good(n)}
<1> SUFFICES ASSUME T # {} PROVE FALSE
  OBVIOUS
<1>1. PICK n \in T : \A y \in T : n <= y
  <2> HIDE DEF Good
  <2> QED BY LeastNat
<1>2. CASE n = 0
  <2>1. IsWalk(p, 0, [k \in 0..0 |-> p])
    BY DEF IsWalk
  <2> QED BY <1>1, <1>2, <2>1
<1>3. CASE n # 0
  <2>1. n \in Nat /\ n - 1 \in Nat /\ n - 1 < n
    BY <1>3
  <2>2. n - 1 \notin T
    BY <1>1, <2>1
  <2>3. PICK g : IsWalk(p, n - 1, g)
    BY <2>1, <2>2
  <2> DEFINE v == IF g[n - 1] = NULL THEN NULL ELSE next[g[n - 1]]
             h == [k \in 0..n |-> IF k = n THEN v ELSE g[k]]
             val(f, k) == IF k = 0 THEN p ELSE IF f[k - 1] = NULL THEN NULL ELSE next[f[k - 1]]
  <2>4. \A k \in 0..(n - 1) : g[k] = val(g, k)
    BY <2>3 DEF IsWalk
  <2>5. \A k \in 0..n : h[k] = val(h, k)
    <3> SUFFICES ASSUME NEW k \in 0..n PROVE h[k] = val(h, k)
      OBVIOUS
    <3>1. k # 0 => h[k - 1] = g[k - 1]
      BY <2>1
    <3>2. CASE k = n
      BY <1>3, <2>1, <3>1, <3>2
    <3>3. CASE k # n
      <4>1. k \in 0..(n - 1) /\ h[k] = g[k]
        BY <2>1, <3>3
      <4> QED BY <2>4, <3>1, <4>1
    <3> QED BY <3>2, <3>3
  <2>6. IsWalk(p, n, h)
    <3>1. h = [k \in 0..n |-> h[k]]
      OBVIOUS
    <3> HIDE DEF h
    <3> QED BY <2>5, <3>1 DEF IsWalk
  <2> QED BY <1>1, <2>6
<1> QED BY <1>2, <1>3

\* The walk starts with p and follows the chain; at its end it stays at NULL.
LEMMA WalkFacts ==
  ASSUME Types, NEW p \in Pbufs \cup {NULL}
  PROVE  /\ Walk(p)[0] = p
         /\ \A k \in 0..PoolSize : Walk(p)[k] \in Pbufs \cup {NULL}
         /\ \A k \in 0..(PoolSize - 1) :
              Walk(p)[k + 1] = IF Walk(p)[k] = NULL THEN NULL ELSE next[Walk(p)[k]]
<1> DEFINE w == Walk(p)
<1>0. PoolSize \in Nat
  BY Constants
<1>1. IsWalk(p, PoolSize, w)
  <2>1. \E g : IsWalk(p, PoolSize, g)
    BY <1>0, WalkExists
  <2> QED BY <2>1 DEF Walk, IsWalk
<1>2. \A k \in 0..PoolSize :
        w[k] = IF k = 0 THEN p ELSE IF w[k - 1] = NULL THEN NULL ELSE next[w[k - 1]]
  BY <1>1 DEF IsWalk
<1> HIDE DEF w
<1>3. w[0] = p
  BY <1>0, <1>2
<1>4. \A k \in 0..(PoolSize - 1) : w[k + 1] = IF w[k] = NULL THEN NULL ELSE next[w[k]]
  <2> SUFFICES ASSUME NEW k \in 0..(PoolSize - 1)
               PROVE  w[k + 1] = IF w[k] = NULL THEN NULL ELSE next[w[k]]
    OBVIOUS
  <2>1. k + 1 \in 0..PoolSize /\ k + 1 # 0 /\ (k + 1) - 1 = k
    BY <1>0
  <2> QED BY <1>2, <2>1
<1> DEFINE T == {k \in Nat : k <= PoolSize /\ w[k] \notin Pbufs \cup {NULL}}
<1>5. T = {}
  <2> SUFFICES ASSUME T # {} PROVE FALSE
    OBVIOUS
  <2>1. PICK k \in T : \A y \in T : k <= y
    BY LeastNat
  <2>2. k # 0
    BY <1>3, <2>1
  <2>3. k - 1 \in Nat /\ k - 1 \in 0..(PoolSize - 1) /\ (k - 1) + 1 = k /\ k - 1 < k /\ k - 1 <= PoolSize
    BY <1>0, <2>1, <2>2
  <2>4. k - 1 \notin T
    BY <2>1, <2>3
  <2>5. w[k - 1] \in Pbufs \cup {NULL}
    BY <2>3, <2>4
  <2>6. w[k] = IF w[k - 1] = NULL THEN NULL ELSE next[w[k - 1]]
    BY <1>4, <2>3
  <2> QED BY <2>1, <2>5, <2>6 DEF Types
<1>6. \A k \in 0..PoolSize : w[k] \in Pbufs \cup {NULL}
  BY <1>0, <1>5
<1> QED BY <1>3, <1>4, <1>6 DEF w

\* A walk that has met its end has met it ever after.
LEMMA NullStays ==
  ASSUME Types, NEW p \in Pbufs \cup {NULL},
         NEW i \in 0..PoolSize, NEW j \in 0..PoolSize, i <= j, Walk(p)[i] = NULL
  PROVE  Walk(p)[j] = NULL
<1> DEFINE w == Walk(p)
<1>0. PoolSize \in Nat /\ i \in Nat /\ j \in Nat
  BY Constants
<1>1. \A k \in 0..(PoolSize - 1) : w[k + 1] = IF w[k] = NULL THEN NULL ELSE next[w[k]]
  BY WalkFacts
<1>2. w[i] = NULL
  OBVIOUS
<1> HIDE DEF w
<1> DEFINE T == {k \in Nat : i <= k /\ k <= PoolSize /\ w[k] # NULL}
<1>3. T = {}
  <2> SUFFICES ASSUME T # {} PROVE FALSE
    OBVIOUS
  <2>1. PICK k \in T : \A y \in T : k <= y
    BY LeastNat
  <2>2. k # i
    BY <1>2, <2>1
  <2>3. k - 1 \in Nat /\ i <= k - 1 /\ k - 1 \in 0..(PoolSize - 1) /\ (k - 1) + 1 = k
        /\ k - 1 < k /\ k - 1 <= PoolSize
    BY <1>0, <2>1, <2>2
  <2>4. k - 1 \notin T
    BY <2>1, <2>3
  <2>5. w[k - 1] = NULL
    BY <2>3, <2>4
  <2> QED BY <1>1, <2>1, <2>3, <2>5
<1> QED BY <1>0, <1>3 DEF w

\* A walk does not meet a buffer twice: the buffers in between would all
\* continue among themselves.
LEMMA WalkDistinct ==
  ASSUME Types, Acyclic, NEW p \in Pbufs \cup {NULL},
         NEW i \in 0..PoolSize, NEW j \in 0..PoolSize, i < j, Walk(p)[i] # NULL
  PROVE  Walk(p)[i] # Walk(p)[j]
<1> DEFINE w == Walk(p)
           T == {w[k] : k \in i..(j - 1)}
<1> SUFFICES ASSUME w[i] = w[j] PROVE FALSE
  OBVIOUS
<1>0. PoolSize \in Nat /\ i \in Nat /\ j \in Nat
  BY Constants
<1>1. \A k \in i..(j - 1) : w[k] \in Pbufs
  <2> SUFFICES ASSUME NEW k \in i..(j - 1) PROVE w[k] \in Pbufs
    OBVIOUS
  <2>1. k \in 0..PoolSize /\ k <= j
    BY <1>0
  <2>2. w[k] # NULL
    BY <2>1, NullStays
  <2> QED BY <2>1, <2>2, WalkFacts
<1>2. \A k \in i..(j - 1) : next[w[k]] \in T
  <2> SUFFICES ASSUME NEW k \in i..(j - 1) PROVE next[w[k]] \in T
    OBVIOUS
  <2>1. k \in 0..(PoolSize - 1) /\ (k + 1 = j \/ k + 1 \in i..(j - 1)) /\ i \in i..(j - 1)
    BY <1>0
  <2>2. w[k + 1] = next[w[k]]
    BY <1>1, <2>1, WalkFacts, Constants
  <2>3. w[k + 1] \in T
    <3> HIDE DEF w
    <3> QED BY <2>1
  <2> QED BY <2>2, <2>3
<1> HIDE DEF w
<1>3. T \in SUBSET Pbufs /\ w[i] \in T
  BY <1>0, <1>1
<1>4. PICK x \in T : next[x] \notin T
  <2> HIDE DEF T
  <2> QED BY <1>3 DEF Acyclic
<1> QED BY <1>2, <1>4

\* As there are only PoolSize buffers, the walk has met its end by then.
LEMMA WalkEnds ==
  ASSUME Types, Acyclic, NEW p \in Pbufs \cup {NULL}
  PROVE  Walk(p)[PoolSize] = NULL
<1> DEFINE w == Walk(p)
           f == [k \in 0..PoolSize |-> w[k]]
<1> SUFFICES ASSUME w[PoolSize] # NULL PROVE FALSE
  OBVIOUS
<1>0. PoolSize \in Nat \ {0}
  BY Constants
<1>1. \A k \in 0..PoolSize : w[k] # NULL /\ w[k] \in Pbufs
  <2> SUFFICES ASSUME NEW k \in 0..PoolSize PROVE w[k] # NULL /\ w[k] \in Pbufs
    OBVIOUS
  <2>1. k <= PoolSize /\ PoolSize \in 0..PoolSize
    BY <1>0
  <2>2. w[k] # NULL
    BY <2>1, NullStays
  <2> QED BY <2>2, WalkFacts
<1>2. \A i, j \in 0..PoolSize : i < j => w[i] # w[j]
  BY <1>1, WalkDistinct
<1> HIDE DEF w
<1>3. f \in [0..PoolSize -> Pbufs]
  BY <1>1
<1>4. IsFiniteSet(0..PoolSize) /\ Cardinality(0..PoolSize) = PoolSize + 1
  BY <1>0, FS_Interval
<1>5. \E x, y \in 0..PoolSize : x # y /\ f[x] = f[y]
  <2> HIDE DEF f
  <2>1. Cardinality(Pbufs) < Cardinality(0..PoolSize)
    BY <1>0, <1>4, Constants
  <2> QED BY <1>3, <1>4, <2>1, Constants, FS_PigeonHole
<1>6. PICK x, y \in 0..PoolSize : x # y /\ w[x] = w[y]
  BY <1>5
<1>7. x < y \/ y < x
  BY <1>0, <1>6
<1> QED BY <1>2, <1>6, <1>7

\* The chain of p: it begins with p, each buffer of it is followed by the next
\* one, and exactly one is followed by none.
LEMMA ChainFacts ==
  ASSUME Types, Acyclic, NEW p \in Pbufs
  PROVE  /\ Chain(p) \subseteq Pbufs /\ p \in Chain(p)
         /\ \A x \in Chain(p) : next[x] # NULL => next[x] \in Chain(p)
         /\ \A x \in Chain(p) : x = p \/ \E y \in Chain(p) : next[y] = x
         /\ \E z \in Chain(p) : \A x \in Chain(p) : next[x] = NULL <=> x = z
<1> DEFINE w == Walk(p)
           C == Chain(p)
<1>0. PoolSize \in Nat \ {0} /\ NULL \notin Pbufs
  BY Constants
<1>1. w[0] = p /\ w[PoolSize] = NULL /\ \A k \in 0..PoolSize : w[k] \in Pbufs \cup {NULL}
  BY WalkFacts, WalkEnds
<1>2. \A k \in 0..(PoolSize - 1) : w[k + 1] = IF w[k] = NULL THEN NULL ELSE next[w[k]]
  BY WalkFacts
<1>3. \A x : x \in C <=> x # NULL /\ \E k \in 0..PoolSize : x = w[k]
  BY DEF Chain
<1>4. \A i, j \in 0..PoolSize : i <= j /\ w[i] = NULL => w[j] = NULL
  BY NullStays
<1> HIDE DEF w, C
<1>5. C \subseteq Pbufs /\ p \in C
  <2>1. 0 \in 0..PoolSize
    BY <1>0
  <2> QED BY <1>0, <1>1, <1>3, <2>1
<1>6. \A x \in C : \E k \in 0..(PoolSize - 1) : x = w[k] /\ w[k + 1] = next[x]
  <2> SUFFICES ASSUME NEW x \in C
               PROVE  \E k \in 0..(PoolSize - 1) : x = w[k] /\ w[k + 1] = next[x]
    OBVIOUS
  <2>1. PICK k \in 0..PoolSize : x = w[k] /\ x # NULL
    BY <1>3
  <2>2. k # PoolSize
    BY <1>1, <2>1
  <2>3. k \in 0..(PoolSize - 1)
    BY <1>0, <2>2
  <2> QED BY <1>2, <2>1, <2>3
<1>7. \A x \in C : next[x] # NULL => next[x] \in C
  <2> SUFFICES ASSUME NEW x \in C, next[x] # NULL PROVE next[x] \in C
    OBVIOUS
  <2>1. PICK k \in 0..(PoolSize - 1) : x = w[k] /\ w[k + 1] = next[x]
    BY <1>6
  <2>2. k + 1 \in 0..PoolSize
    BY <1>0
  <2> QED BY <1>3, <2>1, <2>2
<1>8. \A x \in C : x = p \/ \E y \in C : next[y] = x
  <2> SUFFICES ASSUME NEW x \in C, x # p PROVE \E y \in C : next[y] = x
    OBVIOUS
  <2>1. PICK k \in 0..PoolSize : x = w[k] /\ x # NULL
    BY <1>3
  <2>2. k # 0
    BY <1>1, <2>1
  <2>3. k - 1 \in 0..(PoolSize - 1) /\ k - 1 \in 0..PoolSize /\ (k - 1) + 1 = k
    BY <1>0, <2>2
  <2>4. w[k] = IF w[k - 1] = NULL THEN NULL ELSE next[w[k - 1]]
    BY <1>2, <2>3
  <2> QED BY <1>3, <2>1, <2>3, <2>4
<1>9. PICK z \in C : next[z] = NULL
  <2>1. PICK z \in C : next[z] \notin C
    BY <1>5 DEF Acyclic
  <2> QED BY <1>7, <2>1
<1>10. \A x \in C : next[x] = NULL => x = z
  <2> SUFFICES ASSUME NEW x \in C, next[x] = NULL PROVE x = z
    OBVIOUS
  <2>1. PICK k \in 0..(PoolSize - 1) : x = w[k] /\ w[k + 1] = NULL
    BY <1>6
  <2>2. PICK m \in 0..(PoolSize - 1) : z = w[m] /\ w[m + 1] = NULL
    BY <1>6, <1>9
  <2>3. w[k] # NULL /\ w[m] # NULL
    BY <1>3, <2>1, <2>2
  <2>4. /\ {k, m, k + 1, m + 1} \subseteq 0..PoolSize
        /\ (k < m => k + 1 <= m) /\ (m < k => m + 1 <= k) /\ (k = m \/ k < m \/ m < k)
    BY <1>0
  <2>5. ~(k < m) /\ ~(m < k)
    BY <1>4, <2>1, <2>2, <2>3, <2>4
  <2> QED BY <2>1, <2>2, <2>4, <2>5
<1> QED BY <1>5, <1>7, <1>8, <1>9, <1>10 DEF C

\* No chain contains the buffer before it.
LEMMA NotBehind ==
  ASSUME Types, Acyclic, NEW q \in Pbufs, next[q] # NULL
  PROVE  q \notin Chain(next[q])
<1> DEFINE p == next[q]
           w == Walk(p)
<1> SUFFICES ASSUME q \in Chain(p) PROVE FALSE
  OBVIOUS
<1>0. PoolSize \in Nat /\ p \in Pbufs /\ q # NULL
  BY Constants DEF Types
<1>1. PICK k \in 0..PoolSize : q = w[k]
  BY DEF Chain
<1>2. k # PoolSize
  BY <1>0, <1>1, WalkEnds
<1>3. k \in 0..(PoolSize - 1) /\ k + 1 \in 0..PoolSize /\ 0 \in 0..PoolSize /\ 0 < k + 1
  BY <1>0, <1>2
<1>4. w[0] = p /\ w[k + 1] = p
  BY <1>0, <1>1, <1>3, WalkFacts
<1>5. w[0] # w[k + 1]
  BY <1>0, <1>3, <1>4, WalkDistinct
<1> QED BY <1>4, <1>5

\* No buffer of a chain that is held is free.
LEMMA ChainLive ==
  ASSUME Shape, NEW h \in Pbufs, held[h] > 0
  PROVE  \A x \in Chain(h) : ref[x] # 0
<1> SUFFICES ASSUME NEW x \in Chain(h) PROVE ref[x] # 0
  OBVIOUS
<1>0. Types /\ Acyclic /\ RefInv
  BY DEF Shape
<1>1. x \in Pbufs /\ (x = h \/ ~Whole(x))
  BY <1>0, ChainFacts DEF Whole
<1>2. held[x] \in Nat /\ ref[x] = held[x] + (IF Whole(x) THEN 0 ELSE 1)
  BY <1>0, <1>1, Constants DEF RefInv, Types
<1> QED BY <1>1, <1>2

\* What pbuf_free() deallocates: the beginning of the chain, as long as each
\* buffer has one reference only.
LEMMA ReleasedFacts ==
  ASSUME Types, Acyclic, NEW p \in Pbufs
  PROVE  /\ Released(p) \subseteq Chain(p) /\ Released(p) \subseteq Pbufs
         /\ \A x \in Released(p) : ref[x] = 1
         /\ p \in Released(p) <=> ref[p] = 1
         /\ p \notin Released(p) => Released(p) = {}
         /\ \A x \in Released(p) : next[x] # NULL /\ ref[next[x]] = 1 => next[x] \in Released(p)
         /\ \A x \in Released(p) : x = p \/ \E y \in Released(p) : next[y] = x
<1> DEFINE w == Walk(p)
           E == {n \in 0..PoolSize : w[n] = NULL \/ ref[w[n]] # 1}
           stop == Least(E)
           R == Released(p)
<1>0. PoolSize \in Nat \ {0} /\ NULL \notin Pbufs
  BY Constants
<1>1. w[0] = p /\ w[PoolSize] = NULL /\ \A k \in 0..PoolSize : w[k] \in Pbufs \cup {NULL}
  BY WalkFacts, WalkEnds
<1>2. \A k \in 0..(PoolSize - 1) : w[k + 1] = IF w[k] = NULL THEN NULL ELSE next[w[k]]
  BY WalkFacts
<1>3. \A x : x \in Chain(p) <=> x # NULL /\ \E k \in 0..PoolSize : x = w[k]
  BY DEF Chain
<1>4. R = {w[n] : n \in 0..(stop - 1)}
  BY DEF Released
<1> HIDE DEF w, R
<1>5. stop \in E /\ \A n \in E : stop <= n
  <2>1. PoolSize \in E /\ E \subseteq Nat
    BY <1>0, <1>1
  <2> HIDE DEF E
  <2> QED BY <2>1, LeastFacts
<1> HIDE DEF stop
<1>6. \A n \in 0..(stop - 1) : /\ n \in 0..(PoolSize - 1) /\ n \in 0..PoolSize /\ n + 1 \in 0..PoolSize
                               /\ w[n] \in Pbufs /\ ref[w[n]] = 1 /\ w[n + 1] = next[w[n]]
  <2> SUFFICES ASSUME NEW n \in 0..(stop - 1)
               PROVE  /\ n \in 0..(PoolSize - 1) /\ n \in 0..PoolSize /\ n + 1 \in 0..PoolSize
                      /\ w[n] \in Pbufs /\ ref[w[n]] = 1 /\ w[n + 1] = next[w[n]]
    OBVIOUS
  <2>1. n \in 0..(PoolSize - 1) /\ n \in 0..PoolSize /\ n + 1 \in 0..PoolSize /\ ~(stop <= n)
    BY <1>0, <1>5
  <2>2. n \notin E
    BY <1>5, <2>1
  <2> QED BY <1>0, <1>1, <1>2, <2>1, <2>2
<1>7. stop \in Nat /\ (w[stop] = NULL \/ ref[w[stop]] # 1)
  BY <1>0, <1>5
<1>8. R \subseteq Chain(p) /\ R \subseteq Pbufs /\ \A x \in R : ref[x] = 1
  <2> HIDE DEF E
  <2> QED BY <1>0, <1>3, <1>4, <1>6
<1>9. CASE stop = 0
  <2>1. R = {}
    BY <1>4, <1>9
  <2>2. ref[p] # 1
    BY <1>0, <1>1, <1>7, <1>9
  <2> QED BY <2>1, <2>2 DEF R
<1>10. CASE stop # 0
  <2>1. 0 \in 0..(stop - 1)
    BY <1>7, <1>10
  <2>2. p \in R
    BY <1>1, <1>4, <2>1
  <2>3. \A x \in R : next[x] # NULL /\ ref[next[x]] = 1 => next[x] \in R
    <3> SUFFICES ASSUME NEW x \in R, next[x] # NULL, ref[next[x]] = 1 PROVE next[x] \in R
      OBVIOUS
    <3>1. PICK n \in 0..(stop - 1) : x = w[n]
      BY <1>4
    <3>2. w[n + 1] = next[x]
      BY <1>6, <3>1
    <3>3. n + 1 # stop
      BY <1>7, <3>2
    <3>4. n + 1 \in 0..(stop - 1)
      BY <1>7, <3>3
    <3> QED BY <1>4, <3>2, <3>4
  <2>4. \A x \in R : x = p \/ \E y \in R : next[y] = x
    <3> SUFFICES ASSUME NEW x \in R, x # p PROVE \E y \in R : next[y] = x
      OBVIOUS
    <3>1. PICK n \in 0..(stop - 1) : x = w[n]
      BY <1>4
    <3>2. n # 0
      BY <1>1, <3>1
    <3>3. n - 1 \in 0..(stop - 1) /\ (n - 1) + 1 = n
      BY <1>7, <3>2
    <3>4. w[n - 1] \in R
      BY <1>4, <3>3
    <3> QED BY <1>6, <3>1, <3>3, <3>4
  <2> QED BY <1>8, <2>2, <2>3, <2>4 DEF R
<1> QED BY <1>8, <1>9, <1>10 DEF R

----------------------------------------------------------------------------
(* Steps that only take links away.                                        *)

\* With fewer links the shape stays.
LEMMA FewerLinks ==
  ASSUME Types, Acyclic, Linear, \A x \in Pbufs : next'[x] = NULL \/ next'[x] = next[x]
  PROVE  /\ Acyclic' /\ Linear'
         /\ \A x \in Pbufs : Whole(x) => Whole(x)'
         /\ \A x, y \in Pbufs : next[y] = x => (Whole(x)' <=> next'[y] # x)
<1>0. NULL \notin Pbufs
  BY Constants
<1>1. Acyclic'
  <2> SUFFICES ASSUME NEW T \in SUBSET Pbufs, T # {} PROVE \E x \in T : next'[x] \notin T
    BY DEF Acyclic
  <2>1. PICK x \in T : next[x] \notin T
    BY DEF Acyclic
  <2> QED BY <1>0, <2>1
<1>2. Linear'
  BY DEF Linear
<1>3. \A x \in Pbufs : Whole(x) => Whole(x)'
  BY <1>0 DEF Whole
<1>4. \A x, y \in Pbufs : next[y] = x => (Whole(x)' <=> next'[y] # x)
  BY <1>0 DEF Whole, Linear
<1> QED BY <1>1, <1>2, <1>3, <1>4

\* Each buffer that is not deallocated loses one reference if the freed one or
\* a deallocated one led to it, and it was not its last.
LEMMA RefAfterFacts ==
  ASSUME Types, Acyclic, NEW p \in Pbufs
  PROVE  /\ RefAfterFree(p) \in [Pbufs -> Int]
         /\ \A x \in Released(p) : RefAfterFree(p)[x] = 0
         /\ \A x \in Pbufs \ Released(p) :
              IF x = p \/ \E y \in Released(p) : next[y] = x
                THEN RefAfterFree(p)[x] = ref[x] - 1 /\ ref[x] # 1
                ELSE RefAfterFree(p)[x] = ref[x]
<1> DEFINE R == Released(p)
<1>0. \A x \in Pbufs : ref[x] \in Int
  BY DEF Types
<1>1. /\ R \subseteq Pbufs /\ (p \in R <=> ref[p] = 1)
      /\ \A x \in R : next[x] # NULL /\ ref[next[x]] = 1 => next[x] \in R
  BY ReleasedFacts
<1>2. RefAfterFree(p) = [x \in Pbufs |-> IF x \in R THEN 0
                                         ELSE IF x = p \/ \E y \in R : next[y] = x THEN ref[x] - 1
                                         ELSE ref[x]]
  BY DEF RefAfterFree
<1> HIDE DEF R
<1>3. RefAfterFree(p) \in [Pbufs -> Int]
  BY <1>0, <1>2
<1>4. \A x \in Pbufs \ R : x = p \/ (\E y \in R : next[y] = x) => ref[x] # 1
  BY <1>1, Constants
<1> QED BY <1>1, <1>2, <1>3, <1>4 DEF R

\* What Cleared() leaves
LEMMA ClearedFacts ==
  ASSUME NEW f, NEW gone, NEW x \in Pbufs
  PROVE  Cleared(f, gone)[x] = IF x \in gone THEN 0 ELSE f[x]
BY DEF Cleared

\* pbuf_free() keeps the invariant.
LEMMA FreeKeeps ==
  ASSUME IInv, NEW p \in Pbufs, pbuf_free(p)
  PROVE  IInv'
<1> DEFINE R == Released(p)
<1>0. Types /\ Acyclic /\ Linear /\ RefInv /\ FreeInv /\ TotLenIsTrue
  BY DEF IInv, Shape
<1>1. /\ R \subseteq Pbufs /\ (\A x \in R : ref[x] = 1) /\ (p \in R <=> ref[p] = 1)
      /\ (p \notin R => R = {})
      /\ \A x \in R : x = p \/ \E y \in R : next[y] = x
  BY <1>0, ReleasedFacts
<1>2. /\ ref' \in [Pbufs -> Int] /\ \A x \in R : ref'[x] = 0
      /\ \A x \in Pbufs \ R : IF x = p \/ \E y \in R : next[y] = x
                                THEN ref'[x] = ref[x] - 1 /\ ref[x] # 1 ELSE ref'[x] = ref[x]
  BY <1>0, RefAfterFacts DEF pbuf_free
<1>3. /\ held[p] > 0 /\ held' = [held EXCEPT ![p] = @ - 1]
      /\ next' = Cleared(next, R) /\ len' = Cleared(len, R) /\ tot_len' = Cleared(tot_len, R)
  BY DEF pbuf_free
<1> HIDE DEF R
<1>4. \A x \in Pbufs : /\ next'[x] = IF x \in R THEN NULL ELSE next[x]
                       /\ len'[x] = IF x \in R THEN 0 ELSE len[x]
                       /\ tot_len'[x] = IF x \in R THEN 0 ELSE tot_len[x]
                       /\ held'[x] = IF x = p THEN held[p] - 1 ELSE held[x]
  BY <1>0, <1>3, ClearedFacts DEF NULL, Types
<1>5. Types'
  <2>1. /\ next' \in [Pbufs -> Pbufs \cup {NULL}]
    BY <1>0, <1>3 DEF Types, Cleared, NULL
  <2>2. len' \in [Pbufs -> 0..BufSize]
    BY <1>0, <1>3, Constants DEF Types, Cleared
  <2>3. tot_len' \in [Pbufs -> Int]
    BY <1>0, <1>3 DEF Types, Cleared
  <2>4. held' \in [Pbufs -> 0..MaxHeld]
    <3>1. held[p] - 1 \in 0..MaxHeld
      BY <1>0, <1>3, Constants DEF Types
    <3> QED BY <1>0, <1>3, <3>1 DEF Types
  <2> QED BY <1>2, <2>1, <2>2, <2>3, <2>4 DEF Types
<1>6. /\ Acyclic' /\ Linear'
      /\ \A x \in Pbufs : Whole(x) => Whole(x)'
      /\ \A x, y \in Pbufs : next[y] = x => (Whole(x)' <=> next'[y] # x)
  BY <1>0, <1>4, FewerLinks
<1>7. \A x \in Pbufs : ref[x] \in Int /\ held[x] \in Nat
  BY <1>0, Constants DEF Types
<1>8. \A x \in Pbufs : ref[x] = held[x] + (IF Whole(x) THEN 0 ELSE 1)
  BY <1>0 DEF RefInv
<1>9. RefInv'
  <2> SUFFICES ASSUME NEW x \in Pbufs
               PROVE  ref'[x] = held'[x] + (IF Whole(x)' THEN 0 ELSE 1)
    BY DEF RefInv
  <2>1. CASE x \in R /\ x = p
    <3>1. ref[x] = 1 /\ held[x] = 1 /\ Whole(x)
      BY <1>1, <1>3, <1>7, <1>8, <2>1
    <3> QED BY <1>2, <1>4, <1>6, <2>1, <3>1
  <2>2. CASE x \in R /\ x # p
    <3>1. PICK y \in R : next[y] = x
      BY <1>1, <2>2
    <3>2. y \in Pbufs /\ ~Whole(x) /\ next'[y] # x
      BY <1>1, <1>4, <3>1, Constants DEF Whole
    <3>3. Whole(x)'
      BY <1>6, <3>1, <3>2
    <3>4. ref[x] = 1 /\ held[x] = 0
      BY <1>1, <1>7, <1>8, <2>2, <3>2
    <3> QED BY <1>2, <1>4, <2>2, <3>3, <3>4
  <2>3. CASE x \notin R /\ x = p
    <3>1. R = {} /\ ref'[x] = ref[x] - 1
      BY <1>1, <1>2, <2>3
    <3>2. Whole(x)' <=> Whole(x)
      BY <1>4, <3>1 DEF Whole
    <3> QED BY <1>4, <1>7, <1>8, <2>3, <3>1, <3>2
  <2>4. CASE x \notin R /\ x # p /\ \E y \in R : next[y] = x
    <3>1. PICK y \in R : next[y] = x
      BY <2>4
    <3>2. y \in Pbufs /\ ~Whole(x) /\ next'[y] # x
      BY <1>1, <1>4, <3>1, Constants DEF Whole
    <3>3. Whole(x)' /\ ref'[x] = ref[x] - 1 /\ held'[x] = held[x]
      BY <1>2, <1>4, <1>6, <2>4, <3>1, <3>2
    <3> QED BY <1>7, <1>8, <3>2, <3>3
  <2>5. CASE x \notin R /\ x # p /\ ~\E y \in R : next[y] = x
    <3>1. Whole(x)' <=> Whole(x)
      BY <1>4, <2>5, Constants DEF Whole
    <3>2. ref'[x] = ref[x] /\ held'[x] = held[x]
      BY <1>2, <1>4, <2>5
    <3> QED BY <1>8, <3>1, <3>2
  <2> QED BY <2>1, <2>2, <2>3, <2>4, <2>5
<1>10. FreeInv'
  <2> SUFFICES ASSUME NEW x \in Pbufs, ref'[x] = 0
               PROVE  next'[x] = NULL /\ len'[x] = 0 /\ tot_len'[x] = 0
    BY DEF FreeInv
  <2>1. CASE x \in R
    BY <1>4, <2>1
  <2>2. CASE x \notin R
    <3>1. ref[x] = 0
      BY <1>2, <1>7, <2>2
    <3> QED BY <1>0, <1>4, <2>2, <3>1 DEF FreeInv
  <2> QED BY <2>1, <2>2
<1>11. TotLenIsTrue'
  <2> SUFFICES ASSUME NEW x \in Pbufs
               PROVE  tot_len'[x] = len'[x] + (IF next'[x] = NULL THEN 0 ELSE tot_len'[next'[x]])
    BY DEF TotLenIsTrue
  <2>1. CASE x \in R
    BY <1>4, <2>1
  <2>2. CASE x \notin R
    <3>1. next[x] # NULL => next[x] \in Pbufs /\ next[x] \notin R
      <4> SUFFICES ASSUME next[x] # NULL, next[x] \in R PROVE FALSE
        BY <1>0 DEF Types
      <4>1. next[x] \in Pbufs /\ ~Whole(next[x])
        BY <1>1 DEF Whole
      <4>2. next[x] # p
        BY <1>1, <1>3, <1>7, <1>8, <4>1
      <4>3. PICK y \in R : next[y] = next[x]
        BY <1>1, <4>2
      <4> QED BY <1>0, <1>1, <2>2, <4>3 DEF Linear
    <3> QED BY <1>0, <1>4, <2>2, <3>1 DEF TotLenIsTrue
  <2> QED BY <2>1, <2>2
<1> QED BY <1>5, <1>6, <1>9, <1>10, <1>11 DEF IInv, Shape

\* The buffers that are deallocated when the chain ends with q
Gone(q) == IF next[q] = NULL THEN {} ELSE Released(next[q])

\* What is deallocated behind q: it does not contain q, and who leads to it is
\* q or part of it.
LEMMA GoneFacts ==
  ASSUME Shape, NEW q \in Pbufs
  PROVE  /\ Gone(q) \subseteq Pbufs /\ q \notin Gone(q) /\ \A x \in Gone(q) : ref[x] = 1 /\ held[x] = 0
         /\ \A x \in Gone(q) : \E y \in Gone(q) \cup {q} : next[y] = x
         /\ \A x \in Gone(q) : next[q] # NULL /\ x \in Chain(next[q])
<1> DEFINE R == Gone(q)
<1>0. Types /\ Acyclic /\ Linear /\ RefInv /\ FreeInv
  BY DEF Shape
<1>1. CASE next[q] = NULL
  BY <1>1 DEF Gone
<1>2. CASE next[q] # NULL
  <2> DEFINE p == next[q]
  <2>1. p \in Pbufs /\ R = Released(p)
    BY <1>0, <1>2 DEF Types, Gone
  <2>2. q \notin Chain(p)
    BY <1>0, <1>2, NotBehind
  <2>3. /\ R \subseteq Chain(p) /\ R \subseteq Pbufs /\ \A x \in R : ref[x] = 1
        /\ \A x \in R : x = p \/ \E y \in R : next[y] = x
    BY <1>0, <2>1, ReleasedFacts
  <2>4. \A x \in R : \E y \in R \cup {q} : next[y] = x
    BY <2>3
  <2>5. \A x \in R : ~Whole(x)
    BY <2>3, <2>4 DEF Whole
  <2>6. \A x \in R : held[x] = 0
    <3> SUFFICES ASSUME NEW x \in R PROVE held[x] = 0
      OBVIOUS
    <3>1. x \in Pbufs /\ ref[x] = 1 /\ ~Whole(x)
      BY <2>3, <2>5
    <3>2. ref[x] = held[x] + 1 /\ held[x] \in Int
      BY <1>0, <3>1, Constants DEF RefInv, Types
    <3> QED BY <3>1, <3>2
  <2> QED BY <1>2, <2>2, <2>3, <2>4, <2>6
<1> QED BY <1>1, <1>2

\* A packet that is cut after q keeps the invariant when the new totals fit.
LEMMA CutKeeps ==
  ASSUME IInv, NEW q \in Pbufs, ref[q] # 0, NEW n \in 0..BufSize,
         NEW totals \in [Pbufs -> Int], CutAfter(q, n, totals), held' = held,
         \A x \in Pbufs : ref[x] = 0 => totals[x] = 0,
         \A x \in Pbufs \ Gone(q) : x # q =>
           totals[x] = len[x] + (IF next[x] = NULL THEN 0 ELSE IF next[x] = q THEN n ELSE totals[next[x]])
  PROVE  IInv'
<1> DEFINE R == Gone(q)
           lost(x) == next[q] = x \/ \E y \in R : next[y] = x
<1>0. Types /\ Acyclic /\ Linear /\ RefInv /\ FreeInv /\ TotLenIsTrue
  BY DEF IInv, Shape
<1>1. /\ R \subseteq Pbufs /\ q \notin R /\ (\A x \in R : ref[x] = 1 /\ held[x] = 0)
      /\ \A x \in R : \E y \in R \cup {q} : next[y] = x
  BY GoneFacts DEF IInv
<1>2. /\ ref' \in [Pbufs -> Int] /\ \A x \in R : ref'[x] = 0
      /\ \A x \in Pbufs \ R : IF lost(x) THEN ref'[x] = ref[x] - 1 /\ ref[x] # 1
                                         ELSE ref'[x] = ref[x]
  <2>1. CASE next[q] = NULL
    <3>1. ref' = ref /\ R = {}
      BY <2>1 DEF CutAfter, Gone
    <3>2. \A x \in Pbufs : ~lost(x)
      BY <2>1, <3>1, Constants
    <3> HIDE DEF lost, R
    <3> QED BY <1>0, <3>1, <3>2 DEF Types
  <2>2. CASE next[q] # NULL
    <3>1. ref' = RefAfterFree(next[q]) /\ R = Released(next[q]) /\ next[q] \in Pbufs
      BY <1>0, <2>2 DEF CutAfter, Gone, Types
    <3> HIDE DEF R
    <3> QED BY <1>0, <3>1, RefAfterFacts
  <2> QED BY <2>1, <2>2
<1>3. /\ next' = [Cleared(next, R) EXCEPT ![q] = NULL]
      /\ len' = [Cleared(len, R) EXCEPT ![q] = n]
      /\ tot_len' = [Cleared(totals, R) EXCEPT ![q] = n]
  BY DEF CutAfter, Gone
<1> HIDE DEF R
<1>4. \A x \in Pbufs : /\ next'[x] = IF x \in R \/ x = q THEN NULL ELSE next[x]
                       /\ len'[x] = IF x = q THEN n ELSE IF x \in R THEN 0 ELSE len[x]
                       /\ tot_len'[x] = IF x = q THEN n ELSE IF x \in R THEN 0 ELSE totals[x]
  BY <1>3 DEF NULL, Cleared
<1>5. Types'
  <2>1. next' \in [Pbufs -> Pbufs \cup {NULL}]
    BY <1>0, <1>3 DEF Types, Cleared, NULL
  <2>2. len' \in [Pbufs -> 0..BufSize]
    BY <1>0, <1>3, Constants DEF Types, Cleared
  <2>3. tot_len' \in [Pbufs -> Int]
    BY <1>3 DEF Cleared
  <2> QED BY <1>0, <1>2, <2>1, <2>2, <2>3 DEF Types
<1>6. /\ Acyclic' /\ Linear'
      /\ \A x \in Pbufs : Whole(x) => Whole(x)'
      /\ \A x, y \in Pbufs : next[y] = x => (Whole(x)' <=> next'[y] # x)
  BY <1>0, <1>4, FewerLinks
<1>7. \A x \in Pbufs : ref[x] \in Int /\ held[x] \in Nat
  BY <1>0, Constants DEF Types
<1>8. \A x \in Pbufs : ref[x] = held[x] + (IF Whole(x) THEN 0 ELSE 1)
  BY <1>0 DEF RefInv
<1>9. \A x \in Pbufs : x \in R \/ lost(x) => ~Whole(x) /\ Whole(x)'
  <2> SUFFICES ASSUME NEW x \in Pbufs, x \in R \/ lost(x) PROVE ~Whole(x) /\ Whole(x)'
    OBVIOUS
  <2>1. PICK y \in R \cup {q} : next[y] = x
    BY <1>1
  <2>2. y \in Pbufs /\ next'[y] # x
    BY <1>1, <1>4, <2>1, Constants
  <2> QED BY <1>6, <2>1, <2>2 DEF Whole
<1>10. \A x \in Pbufs : ~lost(x) => (Whole(x)' <=> Whole(x))
  BY <1>4, Constants DEF Whole
<1> HIDE DEF lost
<1>11. RefInv'
  <2> SUFFICES ASSUME NEW x \in Pbufs
               PROVE  ref'[x] = held[x] + (IF Whole(x)' THEN 0 ELSE 1)
    BY DEF RefInv
  <2>1. CASE x \in R
    BY <1>1, <1>2, <1>9, <2>1
  <2>2. CASE x \notin R /\ lost(x)
    BY <1>2, <1>7, <1>8, <1>9, <2>2
  <2>3. CASE x \notin R /\ ~lost(x)
    BY <1>2, <1>8, <1>10, <2>3
  <2> QED BY <2>1, <2>2, <2>3
<1>12. FreeInv'
  <2> SUFFICES ASSUME NEW x \in Pbufs, ref'[x] = 0
               PROVE  next'[x] = NULL /\ len'[x] = 0 /\ tot_len'[x] = 0
    BY DEF FreeInv
  <2>1. CASE x \in R
    BY <1>1, <1>4, <2>1
  <2>2. CASE x \notin R
    <3>1. ref[x] = 0
      BY <1>2, <1>7, <2>2
    <3> QED BY <1>0, <1>4, <2>2, <3>1 DEF FreeInv
  <2> QED BY <2>1, <2>2
<1>13. TotLenIsTrue'
  <2> SUFFICES ASSUME NEW x \in Pbufs
               PROVE  tot_len'[x] = len'[x] + (IF next'[x] = NULL THEN 0 ELSE tot_len'[next'[x]])
    BY DEF TotLenIsTrue
  <2>1. CASE x = q
    BY <1>4, <2>1
  <2>2. CASE x \in R
    BY <1>1, <1>4, <2>2
  <2>3. CASE x \notin R /\ x # q
    <3>1. next[x] # NULL => next[x] \in Pbufs /\ next[x] \notin R
      BY <1>0, <1>1, <2>3 DEF Types, Linear
    <3>2. totals[x] = len[x] + (IF next[x] = NULL THEN 0 ELSE IF next[x] = q THEN n ELSE totals[next[x]])
      BY <2>3 DEF R
    <3> QED BY <1>4, <2>3, <3>1, <3>2
  <2> QED BY <2>1, <2>2, <2>3
<1> QED BY <1>5, <1>6, <1>11, <1>12, <1>13 DEF IInv, Shape

\* pbuf_dechain() keeps the invariant.
LEMMA DechainKeeps ==
  ASSUME IInv, NEW p \in Pbufs, pbuf_dechain(p)
  PROVE  IInv'
<1>0. Types /\ RefInv /\ FreeInv /\ TotLenIsTrue
  BY DEF IInv, Shape
<1>1. held[p] > 0 /\ Whole(p) /\ next[p] # NULL /\ held' = held
  BY DEF pbuf_dechain
<1>2. tot_len[p] = len[p] + tot_len[next[p]] /\ tot_len[p] \in Int /\ len[p] \in 0..BufSize
  BY <1>0, <1>1 DEF TotLenIsTrue, Types
<1>3. next[p] \in Pbufs /\ tot_len[next[p]] \in Int /\ BufSize \in Nat
  BY <1>0, <1>1, Constants DEF Types
<1>4. tot_len[p] - len[p] = tot_len[next[p]]
  BY <1>2, <1>3
<1>5. [tot_len EXCEPT ![next[p]] = tot_len[p] - len[p]] = tot_len
  BY <1>0, <1>3, <1>4 DEF Types
<1>6. CutAfter(p, len[p], tot_len)
  BY <1>5 DEF pbuf_dechain
<1>7. ref[p] # 0
  BY <1>0, <1>1, Constants DEF RefInv, Types
<1>8. \A x \in Pbufs : ref[x] = 0 => tot_len[x] = 0
  BY <1>0 DEF FreeInv
<1>9. \A x \in Pbufs \ Gone(p) : x # p =>
        tot_len[x] = len[x] + (IF next[x] = NULL THEN 0
                               ELSE IF next[x] = p THEN len[p] ELSE tot_len[next[x]])
  BY <1>0, <1>1 DEF TotLenIsTrue, Whole
<1>10. tot_len \in [Pbufs -> Int]
  BY <1>0 DEF Types
<1> QED BY <1>1, <1>2, <1>6, <1>7, <1>8, <1>9, <1>10, CutKeeps

\* pbuf_ref() keeps the invariant: the buffer is in the chain of one that is
\* held, so it is not free.
LEMMA RefKeeps ==
  ASSUME IInv, NEW p \in Pbufs, pbuf_ref(p)
  PROVE  IInv'
<1>0. Types /\ Acyclic /\ Linear /\ RefInv /\ FreeInv /\ TotLenIsTrue
  BY DEF IInv, Shape
<1>1. /\ held[p] < MaxHeld /\ ref' = [ref EXCEPT ![p] = @ + 1] /\ held' = [held EXCEPT ![p] = @ + 1]
      /\ UNCHANGED <<next, len, tot_len>>
  BY DEF pbuf_ref
<1>2. Types'
  <2>1. held[p] + 1 \in 0..MaxHeld /\ ref[p] + 1 \in Int
    BY <1>0, <1>1, Constants DEF Types
  <2> QED BY <1>0, <1>1, <2>1 DEF Types
<1>3. Acyclic' /\ Linear' /\ TotLenIsTrue'
  BY <1>0, <1>1 DEF Acyclic, Linear, TotLenIsTrue
<1>4. RefInv'
  <2> SUFFICES ASSUME NEW x \in Pbufs PROVE ref'[x] = held'[x] + (IF Whole(x) THEN 0 ELSE 1)
    BY <1>1 DEF RefInv, Whole
  <2>1. ref[x] = held[x] + (IF Whole(x) THEN 0 ELSE 1) /\ ref[x] \in Int /\ held[x] \in Int
    BY <1>0, Constants DEF RefInv, Types
  <2>2. /\ ref'[x] = IF x = p THEN ref[x] + 1 ELSE ref[x]
        /\ held'[x] = IF x = p THEN held[x] + 1 ELSE held[x]
    BY <1>0, <1>1 DEF Types
  <2> QED BY <2>1, <2>2
<1>5. ref[p] # 0
  <2>1. PICK h \in Pbufs : held[h] > 0 /\ p \in Chain(h)
    BY DEF pbuf_ref
  <2> QED BY <2>1, ChainLive DEF IInv
<1>6. FreeInv'
  <2> SUFFICES ASSUME NEW x \in Pbufs, ref'[x] = 0
               PROVE  next[x] = NULL /\ len[x] = 0 /\ tot_len[x] = 0
    BY <1>1 DEF FreeInv
  <2>1. ref[p] = held[p] + (IF Whole(p) THEN 0 ELSE 1) /\ held[p] \in Nat /\ ref \in [Pbufs -> Int]
    BY <1>0, Constants DEF RefInv, Types
  <2>2. x # p
    BY <1>1, <2>1
  <2>3. ref[x] = 0
    BY <1>1, <2>1, <2>2
  <2> QED BY <1>0, <2>3 DEF FreeInv
<1> QED BY <1>2, <1>3, <1>4, <1>6 DEF IInv, Shape

----------------------------------------------------------------------------
(* Steps that join chains.                                                 *)

\* The chain h, which is whole, then leads to t, which was whole.
LEMMA LinkFacts ==
  ASSUME IInv, NEW h \in Pbufs, NEW t \in Pbufs, held[h] > 0, held[t] > 0,
         Whole(h), Whole(t), Chain(h) \cap Chain(t) = {},
         tot_len' = Lengthened(h, t),
         next' = [x \in Pbufs |-> IF x \in Chain(h) /\ next[x] = NULL THEN t ELSE next[x]],
         len' = len
  PROVE  /\ next' \in [Pbufs -> Pbufs \cup {NULL}] /\ tot_len' \in [Pbufs -> Int]
         /\ Acyclic' /\ Linear' /\ TotLenIsTrue'
         /\ \A x \in Pbufs : Whole(x)' <=> Whole(x) /\ x # t
         /\ \A x \in Pbufs : ref[x] = 0 => next'[x] = NULL /\ tot_len'[x] = 0
<1> DEFINE C == Chain(h)
           D == Chain(t)
<1>0. Types /\ Acyclic /\ Linear /\ RefInv /\ FreeInv /\ TotLenIsTrue /\ NULL \notin Pbufs
  BY Constants DEF IInv, Shape
<1>1. /\ C \subseteq Pbufs /\ h \in C
      /\ (\A x \in C : next[x] # NULL => next[x] \in C)
      /\ \A x \in C : x = h \/ \E y \in C : next[y] = x
  BY <1>0, ChainFacts
<1>2. PICK z \in C : \A x \in C : next[x] = NULL <=> x = z
  BY <1>0, ChainFacts
<1>3. D \subseteq Pbufs /\ t \in D /\ \A x \in D : next[x] # NULL => next[x] \in D
  BY <1>0, ChainFacts
<1>4. C \cap D = {}
  OBVIOUS
<1> HIDE DEF C, D
<1>5. \A x \in Pbufs : next'[x] = IF x = z THEN t ELSE next[x]
  BY <1>1, <1>2 DEF C
<1>6. \A x \in Pbufs : tot_len'[x] = IF x \in C THEN tot_len[x] + tot_len[t] ELSE tot_len[x]
  BY DEF Lengthened, C
<1>7. next[z] = NULL /\ z \in Pbufs /\ t \notin C
  BY <1>1, <1>2, <1>3, <1>4
<1>8. next' \in [Pbufs -> Pbufs \cup {NULL}]
  BY <1>0 DEF Types
<1>9. tot_len' \in [Pbufs -> Int]
  BY <1>0 DEF Types, Lengthened
<1>10. Acyclic'
  <2> SUFFICES ASSUME NEW T \in SUBSET Pbufs, T # {}, \A x \in T : next'[x] \in T PROVE FALSE
    BY DEF Acyclic
  <2>1. PICK x \in T : next[x] \notin T
    BY <1>0 DEF Acyclic
  <2>2. t \in T
    BY <1>5, <2>1
  <2> DEFINE U == T \cap D
  <2>3. U \in SUBSET Pbufs /\ U # {}
    BY <1>3, <2>2
  <2>4. \A y \in U : next[y] \in U
    <3> SUFFICES ASSUME NEW y \in U PROVE next[y] \in U
      OBVIOUS
    <3>1. y # z /\ y \in Pbufs
      BY <1>2, <1>4
    <3>2. next[y] \in T
      BY <1>5, <3>1
    <3> QED BY <1>0, <1>3, <3>2
  <2> HIDE DEF U
  <2> QED BY <1>0, <2>3, <2>4 DEF Acyclic
<1>11. Linear'
  BY <1>0, <1>5, <1>7 DEF Linear, Whole
<1>12. \A x \in Pbufs : Whole(x)' <=> Whole(x) /\ x # t
  BY <1>0, <1>5, <1>7 DEF Whole
<1>13. \A x \in Pbufs \ C : next[x] \notin C
  <2> SUFFICES ASSUME NEW x \in Pbufs \ C, next[x] \in C PROVE FALSE
    OBVIOUS
  <2>1. next[x] # h
    BY DEF Whole
  <2>2. PICK y \in C : next[y] = next[x]
    BY <1>1, <2>1
  <2> QED BY <1>0, <1>1, <2>2 DEF Linear
<1>14. TotLenIsTrue'
  <2> SUFFICES ASSUME NEW x \in Pbufs
               PROVE  tot_len'[x] = len[x] + (IF next'[x] = NULL THEN 0 ELSE tot_len'[next'[x]])
    BY DEF TotLenIsTrue
  <2>0. BufSize \in Nat /\ tot_len \in [Pbufs -> Int] /\ next[x] \in Pbufs \cup {NULL}
        /\ len[x] \in 0..BufSize
    BY <1>0, Constants DEF Types
  <2>1. /\ tot_len[x] = len[x] + (IF next[x] = NULL THEN 0 ELSE tot_len[next[x]])
        /\ tot_len[x] \in Int /\ len[x] \in Int /\ tot_len[t] \in Int
        /\ next[x] # NULL => next[x] \in Pbufs /\ tot_len[next[x]] \in Int
    <3>1. tot_len[x] = len[x] + (IF next[x] = NULL THEN 0 ELSE tot_len[next[x]])
      BY <1>0 DEF TotLenIsTrue
    <3> QED BY <2>0, <3>1
  <2>2. CASE x = z
    <3>1. tot_len'[x] = len[x] + tot_len[t]
      BY <1>6, <1>7, <2>1, <2>2
    <3>2. next'[x] = t /\ tot_len'[t] = tot_len[t]
      BY <1>5, <1>6, <1>7, <2>2
    <3> QED BY <1>0, <3>1, <3>2
  <2>3. CASE x \in C /\ x # z
    <3>1. next[x] # NULL /\ next[x] \in C
      BY <1>1, <1>2, <2>3
    <3>2. tot_len'[next[x]] = tot_len[next[x]] + tot_len[t] /\ tot_len'[x] = tot_len[x] + tot_len[t]
      BY <1>1, <1>6, <2>3, <3>1
    <3> QED BY <1>5, <2>1, <2>3, <3>1, <3>2
  <2>4. CASE x \notin C
    <3>1. x # z /\ next[x] \notin C
      BY <1>13, <2>4
    <3> QED BY <1>5, <1>6, <2>1, <2>4, <3>1
  <2> QED BY <2>2, <2>3, <2>4
<1>15. \A x \in C : ref[x] # 0
  BY ChainLive DEF IInv, C
<1>16. \A x \in Pbufs : ref[x] = 0 => next'[x] = NULL /\ tot_len'[x] = 0
  BY <1>0, <1>5, <1>6, <1>15 DEF FreeInv
<1> QED BY <1>8, <1>9, <1>10, <1>11, <1>12, <1>14, <1>16

\* pbuf_cat() keeps the invariant.
LEMMA CatKeeps ==
  ASSUME IInv, NEW h \in Pbufs, NEW t \in Pbufs, pbuf_cat(h, t)
  PROVE  IInv'
<1>0. Types /\ RefInv /\ FreeInv
  BY DEF IInv, Shape
<1>1. ref' = ref /\ len' = len /\ held[t] > 0 /\ held' = [held EXCEPT ![t] = @ - 1] /\ Whole(t)
  BY DEF pbuf_cat
<1>2. /\ next' \in [Pbufs -> Pbufs \cup {NULL}] /\ tot_len' \in [Pbufs -> Int]
      /\ Acyclic' /\ Linear' /\ TotLenIsTrue'
      /\ \A x \in Pbufs : Whole(x)' <=> Whole(x) /\ x # t
      /\ \A x \in Pbufs : ref[x] = 0 => next'[x] = NULL /\ tot_len'[x] = 0
  BY LinkFacts DEF pbuf_cat
<1>3. Types'
  <2>1. held[t] - 1 \in 0..MaxHeld
    BY <1>0, <1>1, Constants DEF Types
  <2> QED BY <1>0, <1>1, <1>2, <2>1 DEF Types
<1>4. RefInv'
  <2> SUFFICES ASSUME NEW x \in Pbufs PROVE ref[x] = held'[x] + (IF Whole(x)' THEN 0 ELSE 1)
    BY <1>1 DEF RefInv
  <2>1. ref[x] = held[x] + (IF Whole(x) THEN 0 ELSE 1) /\ held[x] \in Int
    BY <1>0, Constants DEF RefInv, Types
  <2>2. held'[x] = IF x = t THEN held[x] - 1 ELSE held[x]
    BY <1>0, <1>1 DEF Types
  <2> QED BY <1>1, <1>2, <2>1, <2>2
<1>5. FreeInv'
  BY <1>0, <1>1, <1>2 DEF FreeInv
<1> QED BY <1>2, <1>3, <1>4, <1>5 DEF IInv, Shape

\* pbuf_chain() keeps the invariant.
LEMMA ChainKeeps ==
  ASSUME IInv, NEW h \in Pbufs, NEW t \in Pbufs, pbuf_chain(h, t)
  PROVE  IInv'
<1>0. Types /\ RefInv /\ FreeInv
  BY DEF IInv, Shape
<1>1. held' = held /\ len' = len /\ held[t] > 0 /\ ref' = [ref EXCEPT ![t] = @ + 1] /\ Whole(t)
  BY DEF pbuf_chain
<1>2. /\ next' \in [Pbufs -> Pbufs \cup {NULL}] /\ tot_len' \in [Pbufs -> Int]
      /\ Acyclic' /\ Linear' /\ TotLenIsTrue'
      /\ \A x \in Pbufs : Whole(x)' <=> Whole(x) /\ x # t
      /\ \A x \in Pbufs : ref[x] = 0 => next'[x] = NULL /\ tot_len'[x] = 0
  BY LinkFacts DEF pbuf_chain
<1>3. Types'
  <2>1. ref[t] + 1 \in Int
    BY <1>0 DEF Types
  <2> QED BY <1>0, <1>1, <1>2, <2>1 DEF Types
<1>4. \A x \in Pbufs : /\ ref'[x] = IF x = t THEN ref[x] + 1 ELSE ref[x]
                       /\ ref[x] = held[x] + (IF Whole(x) THEN 0 ELSE 1) /\ held[x] \in Nat
  BY <1>0, <1>1, Constants DEF Types, RefInv
<1>5. RefInv'
  <2> SUFFICES ASSUME NEW x \in Pbufs PROVE ref'[x] = held[x] + (IF Whole(x)' THEN 0 ELSE 1)
    BY <1>1 DEF RefInv
  <2> QED BY <1>1, <1>2, <1>4
<1>6. \A x \in Pbufs : ref'[x] = 0 => ref[x] = 0
  BY <1>4
<1>7. FreeInv'
  BY <1>0, <1>1, <1>2, <1>6 DEF FreeInv
<1> QED BY <1>2, <1>3, <1>5, <1>7 DEF IInv, Shape

----------------------------------------------------------------------------
(* pbuf_realloc().                                                         *)

\* g[i] is the sum of f[0] .. f[i - 1].
IsSum(f, n, g) == g = [i \in 0..n |-> IF i = 0 THEN 0 ELSE g[i - 1] + f[i - 1]]

Sums(f, n) == CHOOSE g : IsSum(f, n, g)

\* The sums exist: those of n values continue those of n - 1.
LEMMA SumsExist ==
  ASSUME NEW f
  PROVE  \A n \in Nat : \E g : IsSum(f, n, g)
<1> DEFINE Good(n) == \E g : IsSum(f, n, g)
           T == {n \in Nat : ~Good(n)}
<1> SUFFICES ASSUME T # {} PROVE FALSE
  OBVIOUS
<1>1. PICK n \in T : \A y \in T : n <= y
  <2> HIDE DEF Good
  <2> QED BY LeastNat
<1>2. CASE n = 0
  <2>1. IsSum(f, 0, [k \in 0..0 |-> 0])
    BY DEF IsSum
  <2> QED BY <1>1, <1>2, <2>1
<1>3. CASE n # 0
  <2>1. n \in Nat /\ n - 1 \in Nat /\ n - 1 < n
    BY <1>3
  <2>2. n - 1 \notin T
    BY <1>1, <2>1
  <2>3. PICK g : IsSum(f, n - 1, g)
    BY <2>1, <2>2
  <2> DEFINE v == g[n - 1] + f[n - 1]
             h == [k \in 0..n |-> IF k = n THEN v ELSE g[k]]
             val(e, k) == IF k = 0 THEN 0 ELSE e[k - 1] + f[k - 1]
  <2>4. \A k \in 0..(n - 1) : g[k] = val(g, k)
    BY <2>3 DEF IsSum
  <2>5. \A k \in 0..n : h[k] = val(h, k)
    <3> SUFFICES ASSUME NEW k \in 0..n PROVE h[k] = val(h, k)
      OBVIOUS
    <3>1. k # 0 => h[k - 1] = g[k - 1]
      BY <2>1
    <3>2. CASE k = n
      BY <1>3, <2>1, <3>1, <3>2
    <3>3. CASE k # n
      <4>1. k \in 0..(n - 1) /\ h[k] = g[k]
        BY <2>1, <3>3
      <4> QED BY <2>4, <3>1, <4>1
    <3> QED BY <3>2, <3>3
  <2>6. IsSum(f, n, h)
    <3>1. h = [k \in 0..n |-> h[k]]
      OBVIOUS
    <3> HIDE DEF h
    <3> QED BY <2>5, <3>1 DEF IsSum
  <2> QED BY <1>1, <2>6
<1> QED BY <1>2, <1>3

\* What the chosen sums are
LEMMA SumsFacts ==
  ASSUME NEW f, NEW n \in Nat
  PROVE  /\ Sum(f, n) = Sums(f, n)[n] /\ Sums(f, n)[0] = 0
         /\ \A i \in 0..n : i # 0 => Sums(f, n)[i] = Sums(f, n)[i - 1] + f[i - 1]
<1>1. Sum(f, n) = Sums(f, n)[n]
  BY DEF Sum, Sums, IsSum
<1>2. IsSum(f, n, Sums(f, n))
  <2>1. \E g : IsSum(f, n, g)
    BY SumsExist
  <2> QED BY <2>1 DEF Sums
<1>3. \A i \in 0..n : Sums(f, n)[i] = IF i = 0 THEN 0 ELSE Sums(f, n)[i - 1] + f[i - 1]
  <2> DEFINE s == Sums(f, n)
  <2> HIDE DEF s
  <2>1. IsSum(f, n, s)
    BY <1>2 DEF s
  <2>2. \A i \in 0..n : s[i] = IF i = 0 THEN 0 ELSE s[i - 1] + f[i - 1]
    BY <2>1 DEF IsSum
  <2> QED BY <2>2 DEF s
<1>4. 0 \in 0..n
  OBVIOUS
<1> QED BY <1>1, <1>3, <1>4

\* Sums of different lengths agree where they both are: Sum() is a sum.
LEMMA SumFacts ==
  ASSUME NEW f
  PROVE  Sum(f, 0) = 0 /\ \A n \in Nat : Sum(f, n + 1) = Sum(f, n) + f[n]
<1>1. Sum(f, 0) = 0
  BY SumsFacts
<1>2. ASSUME NEW n \in Nat PROVE Sum(f, n + 1) = Sum(f, n) + f[n]
  <2> DEFINE s == Sums(f, n)
             t == Sums(f, n + 1)
             T == {i \in Nat : i <= n /\ s[i] # t[i]}
  <2>1. s[0] = 0 /\ \A i \in 0..n : i # 0 => s[i] = s[i - 1] + f[i - 1]
    BY SumsFacts
  <2>2. t[0] = 0 /\ \A i \in 0..(n + 1) : i # 0 => t[i] = t[i - 1] + f[i - 1]
    <3>1. n + 1 \in Nat
      OBVIOUS
    <3> QED BY <3>1, SumsFacts
  <2>3. Sum(f, n) = s[n] /\ Sum(f, n + 1) = t[n + 1]
    <3>1. n + 1 \in Nat
      OBVIOUS
    <3> QED BY <3>1, SumsFacts
  <2> HIDE DEF s, t
  <2>4. T = {}
    <3> SUFFICES ASSUME T # {} PROVE FALSE
      OBVIOUS
    <3>1. PICK i \in T : \A j \in T : i <= j
      BY LeastNat
    <3>2. i # 0
      BY <2>1, <2>2, <3>1
    <3>3. i - 1 \in Nat /\ i - 1 <= n /\ i - 1 < i /\ i \in 0..n /\ i \in 0..(n + 1)
      BY <3>1, <3>2
    <3>4. i - 1 \notin T
      BY <3>1, <3>3
    <3>5. s[i - 1] = t[i - 1]
      BY <3>3, <3>4
    <3> QED BY <2>1, <2>2, <3>1, <3>2, <3>3, <3>5
  <2>5. s[n] = t[n]
    BY <2>4
  <2>6. n + 1 \in 0..(n + 1) /\ n + 1 # 0 /\ (n + 1) - 1 = n
    OBVIOUS
  <2>7. t[n + 1] = t[n] + f[n]
    BY <2>2, <2>6
  <2> QED BY <2>3, <2>5, <2>7
<1> QED BY <1>1, <1>2

\* Data of the n-th buffer of the chain p
Data(p) == [n \in 0..PoolSize |-> IF Walk(p)[n] = NULL THEN 0 ELSE len[Walk(p)[n]]]

\* The total of a packet is what its first buffers hold and the total of the rest.
LEMMA TotalSplit ==
  ASSUME Shape, TotLenIsTrue, NEW p \in Pbufs
  PROVE  \A i \in 0..PoolSize :
           /\ Sum(Data(p), i) \in Int
           /\ tot_len[p] = Sum(Data(p), i) + (IF Walk(p)[i] = NULL THEN 0 ELSE tot_len[Walk(p)[i]])
<1> DEFINE w == Walk(p)
           S(i) == Sum(Data(p), i)
           rest(i) == IF w[i] = NULL THEN 0 ELSE tot_len[w[i]]
           T == {i \in Nat : i <= PoolSize /\ ~(S(i) \in Int /\ tot_len[p] = S(i) + rest(i))}
<1>0. Types /\ PoolSize \in Nat /\ NULL \notin Pbufs /\ BufSize \in Nat
  BY Constants DEF Shape
<1>1. w[0] = p /\ \A k \in 0..PoolSize : w[k] \in Pbufs \cup {NULL}
  BY <1>0, WalkFacts
<1>2. \A k \in 0..(PoolSize - 1) : w[k + 1] = IF w[k] = NULL THEN NULL ELSE next[w[k]]
  BY <1>0, WalkFacts
<1>3. S(0) = 0 /\ \A k \in 0..PoolSize : S(k + 1) = S(k) + (IF w[k] = NULL THEN 0 ELSE len[w[k]])
  <2> DEFINE d == Data(p)
  <2>1. \A k \in 0..PoolSize : k \in Nat /\ d[k] = IF w[k] = NULL THEN 0 ELSE len[w[k]]
    BY <1>0 DEF Data
  <2> HIDE DEF d, w
  <2>2. Sum(d, 0) = 0 /\ \A n \in Nat : Sum(d, n + 1) = Sum(d, n) + d[n]
    BY SumFacts
  <2>3. \A k \in 0..PoolSize : Sum(d, k + 1) = Sum(d, k) + (IF w[k] = NULL THEN 0 ELSE len[w[k]])
    BY <2>1, <2>2
  <2> QED BY <2>2, <2>3 DEF d
<1> HIDE DEF w, S
<1>4. T = {}
  <2> SUFFICES ASSUME T # {} PROVE FALSE
    OBVIOUS
  <2>1. PICK i \in T : \A j \in T : i <= j
    <3> HIDE DEF rest
    <3> QED BY LeastNat
  <2>2. i # 0
    BY <1>0, <1>1, <1>3, <2>1 DEF Types
  <2> DEFINE k == i - 1
  <2>3. k \in Nat /\ k <= PoolSize /\ k < i /\ k \in 0..(PoolSize - 1) /\ k \in 0..PoolSize /\ k + 1 = i
    BY <1>0, <2>1, <2>2
  <2> HIDE DEF k
  <2>4. S(k) \in Int /\ tot_len[p] = S(k) + rest(k)
    BY <2>1, <2>3
  <2>5. S(i) = S(k) + (IF w[k] = NULL THEN 0 ELSE len[w[k]])
    BY <1>3, <2>3
  <2>6. w[i] = IF w[k] = NULL THEN NULL ELSE next[w[k]]
    BY <1>2, <2>3
  <2>7. CASE w[k] = NULL
    BY <2>1, <2>4, <2>5, <2>6, <2>7
  <2>8. CASE w[k] # NULL
    <3>1. w[k] \in Pbufs
      BY <1>1, <2>3, <2>8
    <3>2. /\ tot_len[w[k]] = len[w[k]] + rest(i)
          /\ len[w[k]] \in Int /\ rest(i) \in Int
      <4>1. tot_len[w[k]] = len[w[k]] + rest(i)
        BY <2>6, <2>8, <3>1 DEF TotLenIsTrue
      <4>2. len[w[k]] \in Int
        BY <1>0, <3>1 DEF Types
      <4>3. rest(i) \in Int
        BY <1>0, <2>6, <2>8, <3>1 DEF Types
      <4> QED BY <4>1, <4>2, <4>3
    <3>3. S(i) = S(k) + len[w[k]] /\ rest(k) = tot_len[w[k]]
      BY <2>5, <2>8
    <3> HIDE DEF rest
    <3>4. S(i) \in Int /\ tot_len[p] = S(i) + rest(i)
      BY <2>4, <3>2, <3>3
    <3> QED BY <2>1, <3>4
  <2> QED BY <2>7, <2>8
<1>5. \A i \in 0..PoolSize : S(i) \in Int /\ tot_len[p] = S(i) + rest(i)
  BY <1>0, <1>4
<1> QED BY <1>5 DEF S, w

\* Where pbuf_realloc() cuts: the last buffer that stays is one of the packet,
\* with what is left for it.
LEMMA LastFacts ==
  ASSUME Shape, TotLenIsTrue, NEW p \in Pbufs, NEW new_len \in Nat, new_len < tot_len[p],
         NEW last, last = Least({n \in 0..PoolSize : new_len <= Sum(Data(p), n + 1)})
  PROVE  /\ last \in 0..(PoolSize - 1) /\ Walk(p)[last] \in Pbufs
         /\ new_len - Sum(Data(p), last) \in 0..BufSize
<1> DEFINE w == Walk(p)
           d == Data(p)
           E == {n \in 0..PoolSize : new_len <= Sum(d, n + 1)}
<1>0. Types /\ Acyclic /\ PoolSize \in Nat /\ NULL \notin Pbufs /\ BufSize \in Nat
  BY Constants DEF Shape
<1>1. w[0] = p /\ w[PoolSize] = NULL /\ \A k \in 0..PoolSize : w[k] \in Pbufs \cup {NULL}
  BY <1>0, WalkFacts, WalkEnds
<1>2. \A i \in 0..PoolSize : /\ Sum(d, i) \in Int
                             /\ w[i] = NULL => tot_len[p] = Sum(d, i)
  <2> SUFFICES ASSUME NEW i \in 0..PoolSize
               PROVE  Sum(d, i) \in Int /\ (w[i] = NULL => tot_len[p] = Sum(d, i))
    OBVIOUS
  <2>1. /\ Sum(Data(p), i) \in Int
        /\ tot_len[p] = Sum(Data(p), i) + (IF Walk(p)[i] = NULL THEN 0 ELSE tot_len[Walk(p)[i]])
    BY TotalSplit
  <2>2. Sum(d, i) \in Int /\ tot_len[p] = Sum(d, i) + (IF w[i] = NULL THEN 0 ELSE tot_len[w[i]])
    BY <2>1
  <2> HIDE DEF d, w
  <2> QED BY <2>2
<1>3. Sum(d, 0) = 0 /\ \A n \in Nat : Sum(d, n + 1) = Sum(d, n) + d[n]
  <2> HIDE DEF d
  <2> QED BY SumFacts
<1>4. \A n \in 0..PoolSize : d[n] \in 0..BufSize /\ (w[n] = NULL => d[n] = 0)
  BY <1>0, <1>1 DEF Data, Types
<1>5. last = Least(E)
  OBVIOUS
<1> HIDE DEF w, d
<1>6. Sum(d, PoolSize) = tot_len[p] /\ Sum(d, PoolSize + 1) = tot_len[p] /\ tot_len[p] \in Int
  <2>1. PoolSize \in 0..PoolSize
    BY <1>0
  <2>2. Sum(d, PoolSize) = tot_len[p] /\ tot_len[p] \in Int /\ d[PoolSize] = 0
    BY <1>1, <1>2, <1>4, <2>1
  <2> QED BY <1>0, <1>3, <2>2
<1>7. last \in E /\ \A n \in E : last <= n
  <2>1. PoolSize \in E /\ E \subseteq Nat
    BY <1>0, <1>6
  <2> HIDE DEF E
  <2> QED BY <1>5, <2>1, LeastFacts
<1>8. last \in 0..PoolSize /\ last \in Nat /\ new_len <= Sum(d, last) + d[last]
  BY <1>3, <1>7
<1>9. last # 0 => Sum(d, last) < new_len
  <2> SUFFICES ASSUME last # 0 PROVE Sum(d, last) < new_len
    OBVIOUS
  <2>1. last - 1 \in 0..PoolSize /\ ~(last <= last - 1) /\ (last - 1) + 1 = last
    BY <1>0, <1>8
  <2>2. last - 1 \notin E
    BY <1>7, <2>1
  <2>3. ~(new_len <= Sum(d, last))
    BY <2>1, <2>2
  <2> QED BY <1>2, <1>8, <2>3
<1>10. w[last] # NULL
  <2> SUFFICES ASSUME w[last] = NULL PROVE FALSE
    OBVIOUS
  <2>1. Sum(d, last) = tot_len[p] /\ last # 0
    BY <1>0, <1>1, <1>2, <1>8
  <2> QED BY <1>6, <1>9, <2>1
<1>11. last \in 0..(PoolSize - 1) /\ w[last] \in Pbufs
  BY <1>0, <1>1, <1>8, <1>10
<1>12. new_len - Sum(d, last) \in 0..BufSize
  <2>1. Sum(d, last) \in Int /\ d[last] \in 0..BufSize /\ Sum(d, last) <= new_len
    BY <1>2, <1>3, <1>4, <1>8, <1>9
  <2> QED BY <1>0, <1>8, <2>1
<1> QED BY <1>11, <1>12 DEF w, d

\* pbuf_realloc() keeps the invariant.
LEMMA ReallocKeeps ==
  ASSUME IInv, NEW p \in Pbufs, NEW new_len \in Nat, pbuf_realloc(p, new_len)
  PROVE  IInv'
<1> DEFINE w == Walk(p)
           last == Least({n \in 0..PoolSize : new_len <= Sum(Data(p), n + 1)})
           kept == {w[n] : n \in 0..(last - 1)}
           q == w[last]
           s == Sum(Data(p), last)
           shrink == tot_len[p] - new_len
           totals == [x \in Pbufs |-> IF x \in kept THEN tot_len[x] - shrink ELSE tot_len[x]]
<1>0. Shape /\ TotLenIsTrue /\ Types /\ Acyclic /\ Linear /\ RefInv /\ FreeInv
  BY DEF IInv, Shape
<1>1. /\ held[p] > 0 /\ Whole(p) /\ new_len < tot_len[p] /\ held' = held
      /\ CutAfter(q, new_len - s, totals)
  BY DEF pbuf_realloc, Data
<1>2. last \in 0..(PoolSize - 1) /\ q \in Pbufs /\ new_len - s \in 0..BufSize
  <2> HIDE DEF s, w
  <2> HIDE DEF last
  <2>1. last = Least({n \in 0..PoolSize : new_len <= Sum(Data(p), n + 1)})
    BY DEF last
  <2> QED BY <1>0, <1>1, <2>1, LastFacts DEF s, w
<1>3. s \in Int /\ tot_len[p] = s + tot_len[q] /\ q # NULL
  <2>1. last \in 0..PoolSize /\ q # NULL
    BY <1>2, Constants
  <2> HIDE DEF last
  <2> QED BY <1>0, <2>1, TotalSplit
<1>4. w[0] = p /\ \A k \in 0..PoolSize : w[k] \in Pbufs \cup {NULL}
  BY <1>0, WalkFacts
<1>5. \A k \in 0..(PoolSize - 1) : w[k + 1] = IF w[k] = NULL THEN NULL ELSE next[w[k]]
  BY <1>0, WalkFacts
<1>6. \A i, j \in 0..PoolSize : i <= j /\ w[i] = NULL => w[j] = NULL
  BY <1>0, NullStays
<1>7. kept \subseteq Chain(p) \cup {NULL} /\ q \in Chain(p)
  <2> HIDE DEF last
  <2> QED BY <1>2, <1>3, Constants DEF Chain
<1> HIDE DEF w, last, s
<1>8. \A k \in 0..last : w[k] \in Pbufs /\ w[k] # NULL
  BY <1>2, <1>3, <1>4, <1>6, Constants
<1>9. \A x \in Chain(p) : ref[x] # 0
  BY <1>0, <1>1, ChainLive
<1>10. totals \in [Pbufs -> Int] /\ tot_len \in [Pbufs -> Int] /\ shrink \in Int
  <2>1. shrink \in Int
    BY <1>0 DEF Types
  <2> HIDE DEF shrink
  <2> QED BY <1>0, <2>1 DEF Types
<1>11. \A x \in Pbufs : ref[x] = 0 => totals[x] = 0
  <2> SUFFICES ASSUME NEW x \in Pbufs, ref[x] = 0 PROVE totals[x] = 0
    OBVIOUS
  <2>1. x \notin kept
    BY <1>7, <1>9, Constants
  <2> HIDE DEF kept
  <2> QED BY <1>0, <2>1 DEF FreeInv
<1>12. \A x \in Pbufs : next[x] \in kept \cup {q} => x \in kept
  <2> SUFFICES ASSUME NEW x \in Pbufs, next[x] \in kept \cup {q} PROVE x \in kept
    OBVIOUS
  <2>1. PICK j \in 0..last : next[x] = w[j]
    BY <1>2
  <2>2. j # 0
    BY <1>1, <1>4, <2>1 DEF Whole
  <2>3. j - 1 \in 0..(last - 1) /\ j - 1 \in 0..last /\ j - 1 \in 0..(PoolSize - 1) /\ (j - 1) + 1 = j
    BY <1>2, <2>2, Constants
  <2>4. w[j] = next[w[j - 1]] /\ w[j - 1] \in Pbufs /\ w[j] # NULL
    BY <1>5, <1>8, <2>3
  <2>5. x = w[j - 1]
    BY <1>0, <2>1, <2>4 DEF Linear
  <2> QED BY <2>3, <2>5
<1>13. \A x \in kept : x \in Pbufs /\ next[x] # NULL /\ next[x] \in kept \cup {q}
  <2> SUFFICES ASSUME NEW k \in 0..(last - 1)
               PROVE  w[k] \in Pbufs /\ next[w[k]] # NULL /\ next[w[k]] \in kept \cup {q}
    OBVIOUS
  <2>1. k \in 0..last /\ k + 1 \in 0..last /\ k \in 0..(PoolSize - 1) /\ (k + 1 = last \/ k + 1 \in 0..(last - 1))
    BY <1>2, Constants
  <2>2. w[k] \in Pbufs /\ w[k] # NULL /\ w[k + 1] # NULL
    BY <1>8, <2>1
  <2>3. w[k + 1] = next[w[k]]
    BY <1>5, <2>1, <2>2
  <2> QED BY <2>1, <2>2, <2>3
<1> DEFINE n == new_len - s
<1>14. n \in 0..BufSize /\ n = tot_len[q] - shrink /\ tot_len[q] \in Int
  BY <1>2, <1>3, <1>10
<1> HIDE DEF kept, q, n, shrink
<1>15. \A x \in Pbufs : x # q =>
         totals[x] = len[x] + (IF next[x] = NULL THEN 0 ELSE IF next[x] = q THEN n ELSE totals[next[x]])
  <2> SUFFICES ASSUME NEW x \in Pbufs, x # q
               PROVE  totals[x] = len[x] + (IF next[x] = NULL THEN 0
                                            ELSE IF next[x] = q THEN n ELSE totals[next[x]])
    OBVIOUS
  <2>1. tot_len[x] = len[x] + (IF next[x] = NULL THEN 0 ELSE tot_len[next[x]])
    BY <1>0 DEF TotLenIsTrue
  <2>2. len[x] \in Int /\ next[x] \in Pbufs \cup {NULL}
    BY <1>0, Constants DEF Types
  <2>3. \A y \in Pbufs : /\ totals[y] = IF y \in kept THEN tot_len[y] - shrink ELSE tot_len[y]
                         /\ tot_len[y] \in Int
    BY <1>10
  <2> HIDE DEF totals
  <2>4. CASE x \in kept
    <3>1. next[x] # NULL /\ next[x] \in Pbufs /\ next[x] \in kept \cup {q}
      BY <1>13, <2>2, <2>4
    <3>2. tot_len[x] = len[x] + tot_len[next[x]] /\ totals[x] = tot_len[x] - shrink
      BY <2>1, <2>3, <2>4, <3>1
    <3>3. CASE next[x] = q
      BY <1>10, <1>14, <2>2, <3>1, <3>2, <3>3
    <3>4. CASE next[x] # q
      <4>1. totals[next[x]] = tot_len[next[x]] - shrink /\ tot_len[next[x]] \in Int
        BY <2>3, <3>1, <3>4
      <4> QED BY <1>10, <2>2, <3>1, <3>2, <3>4, <4>1
    <3> QED BY <3>3, <3>4
  <2>5. CASE x \notin kept
    <3>1. next[x] # q /\ next[x] \notin kept
      BY <1>12, <2>5
    <3> QED BY <2>1, <2>2, <2>3, <2>5, <3>1
  <2> QED BY <2>4, <2>5
<1>16. ref[q] # 0
  BY <1>7, <1>9
<1>17. CutAfter(q, n, totals) /\ q \in Pbufs
  BY <1>1, <1>2 DEF n
<1> HIDE DEF totals
<1> QED BY <1>1, <1>10, <1>11, <1>14, <1>15, <1>16, <1>17, CutKeeps

----------------------------------------------------------------------------
(* pbuf_alloc().                                                           *)

\* Data of n full buffers
Full(n) == n * BufSize

\* One more buffer is BufSize more.
LEMMA FullFacts ==
  /\ Full(0) = 0 /\ Full(1) = BufSize
  /\ \A n \in Nat : Full(n) \in Nat /\ Full(n + 1) = Full(n) + BufSize
  /\ \A m, n \in Nat : m < n => Full(m) + BufSize <= Full(n)
<1>0. BufSize \in Nat
  BY Constants
<1>1. Full(0) = 0 /\ Full(1) = BufSize
  BY <1>0 DEF Full
<1>2. \A n \in Nat : Full(n) \in Nat /\ Full(n + 1) = Full(n) + BufSize
  BY <1>0 DEF Full
<1>3. ASSUME NEW m \in Nat, NEW n \in Nat, m < n PROVE Full(m) + BufSize <= Full(n)
  <2>1. n - (m + 1) \in Nat
    BY <1>3
  <2>2. n * BufSize = (m + 1) * BufSize + (n - (m + 1)) * BufSize
    BY <1>0, <1>3
  <2>3. (n - (m + 1)) * BufSize \in Nat /\ (m + 1) * BufSize = m * BufSize + BufSize
        /\ m * BufSize \in Nat
    BY <1>0, <2>1
  <2> QED BY <1>0, <2>2, <2>3 DEF Full
<1> QED BY <1>1, <1>2, <1>3

\* A packet gets just as many buffers as its data takes, and at least one.
LEMMA NeededFacts ==
  ASSUME NEW length \in Nat
  PROVE  /\ Needed(length) \in Nat \ {0}
         /\ length <= Full(Needed(length) - 1) + BufSize
         /\ Full(Needed(length) - 1) <= length
<1>0. BufSize \in Nat \ {0}
  BY Constants
<1>1. CASE length = 0
  <2>1. Needed(length) = 1 /\ Needed(length) - 1 = 0
    BY <1>1 DEF Needed
  <2>2. Full(Needed(length) - 1) = 0
    BY <2>1, FullFacts
  <2> QED BY <1>0, <1>1, <2>1, <2>2
<1>2. CASE length # 0
  <2> DEFINE a == length + BufSize - 1
             k == a \div BufSize
             r == a % BufSize
  <2>1. Needed(length) = k
    BY <1>2 DEF Needed
  <2>2. a \in Nat /\ a >= BufSize
    BY <1>0, <1>2
  <2> HIDE DEF a
  <2>3. k \in Nat /\ r \in Nat /\ r < BufSize /\ a = k * BufSize + r
    BY <1>0, <2>2
  <2> HIDE DEF k, r
  <2>4. k # 0
    BY <1>0, <2>2, <2>3
  <2>5. k - 1 \in Nat /\ (k - 1) + 1 = k
    BY <2>3, <2>4
  <2>6. Full(k) = Full(k - 1) + BufSize /\ Full(k - 1) \in Nat /\ Full(k) = k * BufSize
    BY <2>5, FullFacts DEF Full
  <2>7. a = Full(k - 1) + BufSize + r /\ a = length + BufSize - 1
    BY <2>3, <2>6 DEF a
  <2>8. Full(k - 1) + r = length - 1
    BY <1>0, <2>3, <2>6, <2>7
  <2>9. length = Full(k - 1) + r + 1 /\ r + 1 <= BufSize
    BY <1>0, <2>3, <2>6, <2>8
  <2>10. k \in Nat \ {0} /\ length <= Full(k - 1) + BufSize /\ Full(k - 1) <= length
    BY <1>0, <2>3, <2>4, <2>6, <2>9
  <2> QED BY <2>1, <2>10
<1> QED BY <1>1, <1>2

\* The elements of S below p
Below(S, p) == {x \in S : x < p}

\* Numbering a set of buffers from below: each number is given once.
LEMMA RankFacts ==
  ASSUME NEW S \in SUBSET Pbufs
  PROVE  /\ IsFiniteSet(S) /\ Cardinality(S) \in Nat
         /\ \A p \in S : Cardinality(Below(S, p)) \in 0..(Cardinality(S) - 1)
         /\ \A p, q \in S : Cardinality(Below(S, p)) = Cardinality(Below(S, q)) => p = q
         /\ \A n \in 0..(Cardinality(S) - 1) : \E p \in S : Cardinality(Below(S, p)) = n
<1> DEFINE m == Cardinality(S)
           f == [p \in S |-> Cardinality(Below(S, p))]
<1>0. IsFiniteSet(S) /\ m \in Nat /\ S \subseteq Nat
  BY Constants, FS_Subset, FS_CardinalityType
<1>1. \A p : /\ Below(S, p) \subseteq S /\ IsFiniteSet(Below(S, p))
             /\ Cardinality(Below(S, p)) \in Nat /\ Cardinality(Below(S, p)) <= m
             /\ Cardinality(Below(S, p)) = m => Below(S, p) = S
  <2> SUFFICES ASSUME NEW p
               PROVE  /\ Below(S, p) \subseteq S /\ IsFiniteSet(Below(S, p))
                      /\ Cardinality(Below(S, p)) \in Nat /\ Cardinality(Below(S, p)) <= m
                      /\ Cardinality(Below(S, p)) = m => Below(S, p) = S
    OBVIOUS
  <2>1. Below(S, p) \in SUBSET S
    BY DEF Below
  <2>2. IsFiniteSet(Below(S, p)) /\ Cardinality(Below(S, p)) <= m
        /\ (m = Cardinality(Below(S, p)) => S = Below(S, p))
    BY <1>0, <2>1, FS_Subset
  <2> QED BY <2>1, <2>2, FS_CardinalityType
<1>2. \A p \in S : Cardinality(Below(S, p)) \in 0..(m - 1)
  <2> SUFFICES ASSUME NEW p \in S PROVE Cardinality(Below(S, p)) \in 0..(m - 1)
    OBVIOUS
  <2>1. Below(S, p) # S
    BY <1>0 DEF Below
  <2>2. Cardinality(Below(S, p)) # m
    BY <1>1, <2>1
  <2> HIDE DEF m
  <2> QED BY <1>0, <1>1, <2>2
<1>3. ASSUME NEW p \in S, NEW q \in S, p < q
      PROVE  Cardinality(Below(S, p)) # Cardinality(Below(S, q))
  <2>1. Below(S, p) \in SUBSET Below(S, q)
    <3>1. \A x \in S : x < p => x < q
      BY <1>0, <1>3
    <3> QED BY <3>1 DEF Below
  <2>2. p \in Below(S, q) /\ p \notin Below(S, p)
    BY <1>0, <1>3 DEF Below
  <2>3. Cardinality(Below(S, q)) = Cardinality(Below(S, p)) => Below(S, q) = Below(S, p)
    BY <1>1, <2>1, FS_Subset
  <2> QED BY <2>2, <2>3
<1>4. \A p, q \in S : Cardinality(Below(S, p)) = Cardinality(Below(S, q)) => p = q
  <2> SUFFICES ASSUME NEW p \in S, NEW q \in S,
                      Cardinality(Below(S, p)) = Cardinality(Below(S, q)), p # q
               PROVE  FALSE
    OBVIOUS
  <2>1. p < q \/ q < p
    BY <1>0
  <2> QED BY <1>3, <2>1
<1>5. f \in Injection(S, 0..(m - 1))
  <2>1. f \in [S -> 0..(m - 1)]
    BY <1>2
  <2>2. \A p, q \in S : f[p] = f[q] => p = q
    BY <1>4
  <2> HIDE DEF f, m
  <2> QED BY <2>1, <2>2 DEF Injection, IsInjective
<1>6. IsFiniteSet(0..(m - 1)) /\ Cardinality(0..(m - 1)) = m
  <2> HIDE DEF m
  <2>1. 0 \in Int /\ m - 1 \in Int
    BY <1>0
  <2>2. IsFiniteSet(0..(m - 1)) /\ Cardinality(0..(m - 1)) = IF 0 > m - 1 THEN 0 ELSE (m - 1) - 0 + 1
    BY <2>1, FS_Interval
  <2> QED BY <1>0, <2>2
<1>7. f \in Surjection(S, 0..(m - 1))
  <2> DEFINE I == 0..(m - 1)
  <2>1. Cardinality(S) = Cardinality(I) /\ IsFiniteSet(I) /\ f \in Injection(S, I)
    BY <1>5, <1>6
  <2> HIDE DEF f, I
  <2>2. Cardinality(S) = Cardinality(I) <=> f \in Surjection(S, I)
    BY <2>1, FS_Injection
  <2> QED BY <2>1, <2>2 DEF I
<1>8. \A n \in 0..(m - 1) : \E p \in S : f[p] = n
  <2> HIDE DEF f, m
  <2> QED BY <1>7 DEF Surjection
<1> QED BY <1>0, <1>2, <1>4, <1>8

\* pbuf_alloc() keeps the invariant.
LEMMA AllocKeeps ==
  ASSUME IInv, NEW length \in Nat, pbuf_alloc(length)
  PROVE  IInv'
<1> DEFINE F == Free
           k == Needed(length)
           idx(p) == Cardinality(Below(F, p))
           nth(n) == NthFree(n)
           new == {p \in F : idx(p) < k}
           rest(p) == length - Full(idx(p))
<1>0. Types /\ Acyclic /\ Linear /\ RefInv /\ FreeInv /\ TotLenIsTrue /\ NULL \notin Pbufs
      /\ BufSize \in Nat \ {0} /\ MaxHeld \in Nat \ {0}
  BY Constants DEF IInv, Shape
<1>1. /\ k <= Cardinality(F)
      /\ next' = [p \in Pbufs |-> IF p \notin new THEN next[p]
                                  ELSE IF idx(p) = k - 1 THEN NULL ELSE nth(idx(p) + 1)]
      /\ tot_len' = [p \in Pbufs |-> IF p \in new THEN rest(p) ELSE tot_len[p]]
      /\ len' = [p \in Pbufs |-> IF p \in new THEN Lesser(rest(p), BufSize) ELSE len[p]]
      /\ ref' = [p \in Pbufs |-> IF p \in new THEN 1 ELSE ref[p]]
      /\ held' = [held EXCEPT ![nth(0)] = 1]
  BY DEF pbuf_alloc, Below, Full
<1>2. \A n : nth(n) = CHOOSE p \in F : idx(p) = n
  BY DEF NthFree, Below
<1>3. F = {p \in Pbufs : ref[p] = 0}
  BY DEF Free
<1> HIDE DEF F, nth
<1>4. /\ Cardinality(F) \in Nat
      /\ \A p \in F : idx(p) \in 0..(Cardinality(F) - 1)
      /\ \A p, q \in F : idx(p) = idx(q) => p = q
      /\ \A n \in 0..(Cardinality(F) - 1) : \E p \in F : idx(p) = n
  <2>1. F \in SUBSET Pbufs
    BY <1>3
  <2> QED BY <2>1, RankFacts
<1>5. /\ k \in Nat \ {0} /\ length <= Full(k - 1) + BufSize /\ Full(k - 1) <= length
  BY NeededFacts
<1> HIDE DEF k, idx
<1>6. \A n \in 0..(k - 1) : nth(n) \in F /\ idx(nth(n)) = n /\ nth(n) \in new
  <2> SUFFICES ASSUME NEW n \in 0..(k - 1) PROVE nth(n) \in F /\ idx(nth(n)) = n /\ nth(n) \in new
    OBVIOUS
  <2>1. n \in 0..(Cardinality(F) - 1) /\ n < k
    BY <1>1, <1>4, <1>5
  <2>2. nth(n) \in F /\ idx(nth(n)) = n
    BY <1>2, <1>4, <2>1
  <2> QED BY <2>1, <2>2
<1>7. \A x \in new : x \in F /\ x \in Pbufs /\ idx(x) \in 0..(k - 1) /\ nth(idx(x)) = x
  <2> SUFFICES ASSUME NEW x \in new
               PROVE  x \in F /\ x \in Pbufs /\ idx(x) \in 0..(k - 1) /\ nth(idx(x)) = x
    OBVIOUS
  <2>1. x \in F /\ x \in Pbufs /\ idx(x) \in 0..(k - 1)
    BY <1>3, <1>4, <1>5
  <2> QED BY <1>4, <1>6, <2>1
<1>8. \A x \in F : held[x] = 0 /\ Whole(x) /\ next[x] = NULL
  <2> SUFFICES ASSUME NEW x \in F PROVE held[x] = 0 /\ Whole(x) /\ next[x] = NULL
    OBVIOUS
  <2>1. x \in Pbufs /\ ref[x] = 0 /\ held[x] \in Nat
    BY <1>0, <1>3 DEF Types
  <2> QED BY <1>0, <2>1 DEF RefInv, FreeInv
<1>9. \A x \in Pbufs :
        /\ next'[x] = IF x \notin new THEN next[x]
                      ELSE IF idx(x) = k - 1 THEN NULL ELSE nth(idx(x) + 1)
        /\ tot_len'[x] = IF x \in new THEN rest(x) ELSE tot_len[x]
        /\ len'[x] = IF x \in new THEN Lesser(rest(x), BufSize) ELSE len[x]
        /\ ref'[x] = IF x \in new THEN 1 ELSE ref[x]
        /\ held'[x] = IF x = nth(0) THEN 1 ELSE held[x]
  <2> HIDE DEF new, rest
  <2> QED BY <1>0, <1>1 DEF Types
\* The links of the new chain lead from each number to the next one.
<1>10. \A x \in new : idx(x) # k - 1 =>
         /\ idx(x) + 1 \in 0..(k - 1) /\ next'[x] = nth(idx(x) + 1)
         /\ next'[x] \in new /\ idx(next'[x]) = idx(x) + 1
  <2> SUFFICES ASSUME NEW x \in new, idx(x) # k - 1
               PROVE  /\ idx(x) + 1 \in 0..(k - 1) /\ next'[x] = nth(idx(x) + 1)
                      /\ next'[x] \in new /\ idx(next'[x]) = idx(x) + 1
    OBVIOUS
  <2>1. x \in Pbufs /\ idx(x) + 1 \in 0..(k - 1)
    BY <1>5, <1>7
  <2>2. next'[x] = nth(idx(x) + 1)
    BY <1>9, <2>1
  <2> HIDE DEF new
  <2> QED BY <1>6, <2>1, <2>2
<1>11. \A x \in new : idx(x) = k - 1 => next'[x] = NULL
  BY <1>7, <1>9
<1>12. new \subseteq F /\ new \subseteq Pbufs /\ F \subseteq Pbufs
  BY <1>3
<1> HIDE DEF new
<1>13. \A x \in Pbufs \ new : next'[x] = next[x] /\ next[x] \notin F
  BY <1>8, <1>9, <1>12 DEF Whole
<1>14. next' \in [Pbufs -> Pbufs \cup {NULL}]
  <2>1. \A x \in Pbufs : next'[x] \in Pbufs \cup {NULL}
    <3> SUFFICES ASSUME NEW x \in Pbufs PROVE next'[x] \in Pbufs \cup {NULL}
      OBVIOUS
    <3>1. CASE x \in new
      BY <1>10, <1>11, <1>12, <3>1
    <3>2. CASE x \notin new
      BY <1>0, <1>13, <3>2 DEF Types
    <3> QED BY <3>1, <3>2
  <2> QED BY <1>1, <2>1
<1>15. Acyclic'
  <2> SUFFICES ASSUME NEW T \in SUBSET Pbufs, T # {}, \A x \in T : next'[x] \in T PROVE FALSE
    BY DEF Acyclic
  <2>1. PICK x \in T : next[x] \notin T
    BY <1>0 DEF Acyclic
  <2>2. x \in new
    BY <1>13, <2>1
  <2> DEFINE U == T \cap new
             L == {(k - 1) - idx(y) : y \in U}
  <2>3. \A y \in U : idx(y) # k - 1 /\ next'[y] \in U
    <3> SUFFICES ASSUME NEW y \in U PROVE idx(y) # k - 1 /\ next'[y] \in U
      OBVIOUS
    <3>1. next'[y] \in T /\ next'[y] # NULL
      BY <1>0
    <3> QED BY <1>10, <1>11, <3>1
  <2>4. \A y \in U : idx(y) \in 0..(k - 1)
    BY <1>7
  <2> HIDE DEF U
  <2>5. L \subseteq Nat /\ L # {}
    <3>1. U # {}
      BY <2>1, <2>2 DEF U
    <3> QED BY <1>5, <2>4, <3>1
  <2>6. PICK m \in L : \A n \in L : m <= n
    <3> HIDE DEF L
    <3> QED BY <2>5, LeastNat
  <2>7. PICK y \in U : m = (k - 1) - idx(y)
    BY <2>6
  <2>8. next'[y] \in U /\ idx(next'[y]) = idx(y) + 1
    BY <1>10, <2>3 DEF U
  <2>9. (k - 1) - (idx(y) + 1) \in L
    BY <2>8
  <2>10. m <= (k - 1) - (idx(y) + 1)
    BY <2>6, <2>9
  <2> QED BY <1>5, <2>4, <2>7, <2>10
<1>16. Linear'
  <2> SUFFICES ASSUME NEW x \in Pbufs, NEW y \in Pbufs, next'[x] = next'[y], next'[x] # NULL
               PROVE  x = y
    BY DEF Linear
  <2>1. CASE x \in new /\ y \in new
    <3>1. idx(x) + 1 = idx(y) + 1
      BY <1>10, <1>11, <2>1
    <3>2. idx(x) = idx(y)
      <4>1. idx(x) \in Int /\ idx(y) \in Int
        BY <1>7, <2>1
      <4> QED BY <3>1, <4>1
    <3> QED BY <1>4, <1>12, <2>1, <3>2
  <2>2. CASE x \notin new /\ y \notin new
    BY <1>0, <1>13, <2>2 DEF Linear
  <2>3. CASE x \in new /\ y \notin new
    BY <1>10, <1>11, <1>12, <1>13, <2>3
  <2>4. CASE x \notin new /\ y \in new
    BY <1>10, <1>11, <1>12, <1>13, <2>4
  <2> QED BY <2>1, <2>2, <2>3, <2>4
<1>17. \A x \in Pbufs \ new : Whole(x)' <=> Whole(x)
  <2> SUFFICES ASSUME NEW x \in Pbufs \ new PROVE Whole(x)' <=> Whole(x)
    OBVIOUS
  <2>1. \A y \in Pbufs : next'[y] = x <=> next[y] = x
    <3> SUFFICES ASSUME NEW y \in Pbufs PROVE next'[y] = x <=> next[y] = x
      OBVIOUS
    <3>1. CASE y \in new
      BY <1>0, <1>8, <1>10, <1>11, <1>12, <3>1
    <3>2. CASE y \notin new
      BY <1>13, <3>2
    <3> QED BY <3>1, <3>2
  <2> QED BY <2>1 DEF Whole
<1>18. \A x \in new : Whole(x)' <=> idx(x) = 0
  <2> SUFFICES ASSUME NEW x \in new PROVE Whole(x)' <=> idx(x) = 0
    OBVIOUS
  <2>1. ASSUME NEW y \in Pbufs, next'[y] = x PROVE idx(x) # 0
    <3>1. y \in new
      BY <1>12, <1>13, <2>1
    <3>2. idx(x) = idx(y) + 1
      BY <1>0, <1>10, <1>11, <1>12, <2>1, <3>1
    <3> QED BY <1>7, <3>1, <3>2
  <2>2. ASSUME idx(x) # 0 PROVE \E y \in Pbufs : next'[y] = x
    <3> DEFINE n == idx(x) - 1
    <3>1. n \in 0..(k - 1) /\ n + 1 = idx(x) /\ n # k - 1
      BY <1>5, <1>7, <2>2
    <3> HIDE DEF n
    <3>2. nth(n) \in new /\ idx(nth(n)) = n
      BY <1>6, <3>1
    <3>3. next'[nth(n)] = nth(n + 1)
      BY <1>10, <3>1, <3>2
    <3> QED BY <1>7, <1>12, <3>1, <3>2, <3>3
  <2> QED BY <2>1, <2>2 DEF Whole
<1>19. \A x \in Pbufs : x = nth(0) <=> x \in new /\ idx(x) = 0
  <2>1. nth(0) \in new /\ idx(nth(0)) = 0
    BY <1>5, <1>6
  <2> QED BY <1>7, <2>1
<1>20. RefInv'
  <2> SUFFICES ASSUME NEW x \in Pbufs PROVE ref'[x] = held'[x] + (IF Whole(x)' THEN 0 ELSE 1)
    BY DEF RefInv
  <2>1. CASE x \in new
    <3>1. ref'[x] = 1 /\ held'[x] = IF idx(x) = 0 THEN 1 ELSE 0
      BY <1>8, <1>9, <1>12, <1>19, <2>1
    <3> QED BY <1>18, <2>1, <3>1
  <2>2. CASE x \notin new
    <3>1. ref'[x] = ref[x] /\ held'[x] = held[x]
      BY <1>9, <1>19, <2>2
    <3> QED BY <1>0, <1>17, <2>2, <3>1 DEF RefInv
  <2> QED BY <2>1, <2>2
<1>21. FreeInv'
  <2> SUFFICES ASSUME NEW x \in Pbufs, ref'[x] = 0
               PROVE  next'[x] = NULL /\ len'[x] = 0 /\ tot_len'[x] = 0
    BY DEF FreeInv
  <2>1. x \notin new /\ ref[x] = 0
    BY <1>9
  <2> QED BY <1>0, <1>9, <2>1 DEF FreeInv
\* How the data are shared out
<1>22. \A x \in new :
         /\ idx(x) = k - 1 => rest(x) \in 0..BufSize /\ len'[x] = rest(x)
         /\ idx(x) # k - 1 => /\ rest(x) \in Int /\ BufSize <= rest(x) /\ len'[x] = BufSize
                              /\ tot_len'[next'[x]] = rest(x) - BufSize
  <2> SUFFICES ASSUME NEW x \in new
               PROVE  /\ idx(x) = k - 1 => rest(x) \in 0..BufSize /\ len'[x] = rest(x)
                      /\ idx(x) # k - 1 => /\ rest(x) \in Int /\ BufSize <= rest(x)
                                           /\ len'[x] = BufSize
                                           /\ tot_len'[next'[x]] = rest(x) - BufSize
    OBVIOUS
  <2>1. /\ x \in Pbufs /\ idx(x) \in Nat /\ k - 1 \in Nat /\ idx(x) <= k - 1
        /\ len'[x] = Lesser(rest(x), BufSize)
    BY <1>5, <1>7, <1>9
  <2>2. Full(idx(x)) \in Nat /\ Full(k - 1) \in Nat /\ Full(idx(x) + 1) = Full(idx(x)) + BufSize
        /\ (idx(x) < k - 1 => Full(idx(x)) + BufSize <= Full(k - 1))
    BY <2>1, FullFacts
  <2>3. CASE idx(x) = k - 1
    <3>1. rest(x) \in 0..BufSize
      BY <1>0, <1>5, <2>2, <2>3
    <3>2. len'[x] = rest(x)
      <4> HIDE DEF rest
      <4> QED BY <1>0, <2>1, <3>1 DEF Lesser
    <3> QED BY <2>3, <3>1, <3>2
  <2>4. CASE idx(x) # k - 1
    <3>1. idx(x) < k - 1
      BY <2>1, <2>4
    <3>2. rest(x) \in Int /\ BufSize <= rest(x)
      BY <1>0, <1>5, <2>2, <3>1
    <3>3. len'[x] = BufSize
      <4> HIDE DEF rest
      <4> QED BY <1>0, <2>1, <3>2 DEF Lesser
    <3>4. next'[x] \in new /\ next'[x] \in Pbufs /\ idx(next'[x]) = idx(x) + 1
      BY <1>10, <1>12, <2>4
    <3>5. tot_len'[next'[x]] = length - Full(idx(x) + 1)
      BY <1>9, <3>4
    <3>6. tot_len'[next'[x]] = rest(x) - BufSize
      BY <1>0, <2>2, <3>5
    <3> QED BY <2>4, <3>2, <3>3, <3>6
  <2> QED BY <2>3, <2>4
<1> HIDE DEF rest
<1>23. TotLenIsTrue'
  <2> SUFFICES ASSUME NEW x \in Pbufs
               PROVE  tot_len'[x] = len'[x] + (IF next'[x] = NULL THEN 0 ELSE tot_len'[next'[x]])
    BY DEF TotLenIsTrue
  <2>1. CASE x \in new /\ idx(x) = k - 1
    <3>1. next'[x] = NULL /\ tot_len'[x] = rest(x) /\ rest(x) \in 0..BufSize /\ len'[x] = rest(x)
      BY <1>9, <1>11, <1>22, <2>1
    <3> QED BY <1>0, <3>1
  <2>2. CASE x \in new /\ idx(x) # k - 1
    <3>1. next'[x] # NULL
      BY <1>0, <1>10, <1>12, <2>2
    <3>2. /\ tot_len'[x] = rest(x) /\ rest(x) \in Int /\ len'[x] = BufSize
          /\ tot_len'[next'[x]] = rest(x) - BufSize
      BY <1>9, <1>22, <2>2
    <3> QED BY <1>0, <3>1, <3>2
  <2>3. CASE x \notin new
    <3>1. next'[x] = next[x] /\ next[x] \notin new /\ (next[x] # NULL => next[x] \in Pbufs)
      BY <1>0, <1>12, <1>13, <2>3 DEF Types
    <3> QED BY <1>0, <1>9, <2>3, <3>1 DEF TotLenIsTrue
  <2> QED BY <2>1, <2>2, <2>3
<1>24. Types'
  <2>1. \A x \in Pbufs : len'[x] \in 0..BufSize /\ tot_len'[x] \in Int
    <3> SUFFICES ASSUME NEW x \in Pbufs PROVE len'[x] \in 0..BufSize /\ tot_len'[x] \in Int
      OBVIOUS
    <3>1. CASE x \in new
      BY <1>0, <1>9, <1>22, <3>1
    <3>2. CASE x \notin new
      BY <1>0, <1>9, <3>2 DEF Types
    <3> QED BY <3>1, <3>2
  <2>2. len' \in [Pbufs -> 0..BufSize]
    BY <1>1, <2>1
  <2>3. tot_len' \in [Pbufs -> Int]
    BY <1>1, <2>1
  <2>4. ref' \in [Pbufs -> Int]
    BY <1>0, <1>1 DEF Types
  <2>5. held' \in [Pbufs -> 0..MaxHeld]
    <3>1. 1 \in 0..MaxHeld
      BY <1>0
    <3> QED BY <1>0, <1>1, <3>1 DEF Types
  <2> QED BY <1>14, <2>2, <2>3, <2>4, <2>5 DEF Types
<1> QED BY <1>15, <1>16, <1>20, <1>21, <1>23, <1>24 DEF IInv, Shape

----------------------------------------------------------------------------
(* What the shape implies, and the theorems.                               *)

\* The total of a packet is at most what the pool holds.
LEMMA TotalBounded ==
  ASSUME IInv, NEW p \in Pbufs
  PROVE  tot_len[p] \in 0..(PoolSize * BufSize)
<1> DEFINE d == Data(p)
           T == {i \in Nat : i <= PoolSize /\ ~(Sum(d, i) \in 0..Full(i))}
<1>0. Shape /\ TotLenIsTrue /\ Types /\ Acyclic /\ PoolSize \in Nat \ {0} /\ BufSize \in Nat \ {0}
      /\ NULL \notin Pbufs
  BY Constants DEF IInv, Shape
<1>1. \A n \in 0..PoolSize : d[n] \in 0..BufSize
  <2>1. \A n \in 0..PoolSize : Walk(p)[n] \in Pbufs \cup {NULL}
    BY <1>0, WalkFacts
  <2> QED BY <1>0, <2>1 DEF Data, Types
<1>2. tot_len[p] = Sum(d, PoolSize)
  <2>1. PoolSize \in 0..PoolSize /\ Walk(p)[PoolSize] = NULL
    BY <1>0, WalkEnds
  <2>2. Sum(d, PoolSize) \in Int /\ tot_len[p] = Sum(d, PoolSize) + 0
    BY <1>0, <2>1, TotalSplit
  <2> HIDE DEF d
  <2> QED BY <2>2
<1> HIDE DEF d
<1>3. Sum(d, 0) = 0 /\ \A n \in Nat : Sum(d, n + 1) = Sum(d, n) + d[n]
  BY SumFacts
<1>4. T = {}
  <2> SUFFICES ASSUME T # {} PROVE FALSE
    OBVIOUS
  <2>1. PICK i \in T : \A j \in T : i <= j
    BY LeastNat
  <2>2. i # 0
    BY <1>3, <2>1, FullFacts
  <2> DEFINE k == i - 1
  <2>3. k \in Nat /\ k < i /\ k <= PoolSize /\ k + 1 = i /\ k \in 0..PoolSize
    BY <1>0, <2>1, <2>2
  <2> HIDE DEF k
  <2>4. Sum(d, k) \in 0..Full(k)
    BY <2>1, <2>3
  <2>5. Sum(d, i) = Sum(d, k) + d[k] /\ d[k] \in 0..BufSize
    BY <1>1, <1>3, <2>3
  <2>6. Full(k) \in Nat /\ Full(i) = Full(k) + BufSize
    BY <2>3, FullFacts
  <2>7. Sum(d, i) \in 0..Full(i)
    BY <1>0, <2>4, <2>5, <2>6
  <2> QED BY <2>1, <2>7
<1>5. Sum(d, PoolSize) \in 0..Full(PoolSize)
  BY <1>0, <1>4
<1> QED BY <1>2, <1>5 DEF Full

\* A buffer has at most one reference from a chain.
LEMMA RefsCounted == IInv => RefIsTrue
<1> SUFFICES ASSUME IInv, NEW p \in Pbufs
             PROVE  ref[p] = held[p] + Cardinality({x \in Pbufs : ref[x] > 0 /\ next[x] = p})
  BY DEF RefIsTrue
<1> DEFINE X == {x \in Pbufs : ref[x] > 0 /\ next[x] = p}
<1>0. Types /\ Linear /\ RefInv /\ FreeInv /\ NULL \notin Pbufs
  BY Constants DEF IInv, Shape
<1>1. \A x \in Pbufs : next[x] = p => ref[x] > 0
  <2> SUFFICES ASSUME NEW x \in Pbufs, next[x] = p PROVE ref[x] > 0
    OBVIOUS
  <2>1. ref[x] # 0
    BY <1>0 DEF FreeInv
  <2>2. held[x] \in Nat /\ ref[x] = held[x] + (IF Whole(x) THEN 0 ELSE 1)
    BY <1>0, Constants DEF RefInv, Types
  <2> QED BY <2>1, <2>2
<1>2. held[p] \in Nat /\ ref[p] = held[p] + (IF Whole(p) THEN 0 ELSE 1)
  BY <1>0, Constants DEF RefInv, Types
<1>3. CASE Whole(p)
  <2>1. X = {}
    BY <1>3 DEF Whole
  <2>2. Cardinality(X) = 0
    BY <2>1, FS_EmptySet
  <2> QED BY <1>2, <1>3, <2>2
<1>4. CASE ~Whole(p)
  <2>1. PICK y \in Pbufs : next[y] = p
    BY <1>4 DEF Whole
  <2>2. X = {y}
    BY <1>0, <1>1, <2>1 DEF Linear
  <2>3. Cardinality(X) = 1
    BY <2>2, FS_Singleton
  <2> QED BY <1>2, <1>4, <2>3
<1> QED BY <1>3, <1>4

\* Buffers that no held one leads to would be led to by others of the kind, as
\* many as they are: their links would stay among them.
LEMMA NoneLost == IInv => NothingLost
<1> SUFFICES ASSUME IInv PROVE NothingLost
  OBVIOUS
<1> DEFINE covered(p) == \E h \in Pbufs : held[h] > 0 /\ p \in Chain(h)
           T == {p \in Pbufs : ref[p] > 0 /\ ~covered(p)}
           P == {x \in T : next[x] \in T}
           f == [x \in P |-> next[x]]
<1>0. Types /\ Acyclic /\ Linear /\ RefInv /\ FreeInv /\ NULL \notin Pbufs
  BY Constants DEF IInv, Shape
<1>1. \A x \in Pbufs : held[x] \in Nat /\ ref[x] = held[x] + (IF Whole(x) THEN 0 ELSE 1)
  BY <1>0, Constants DEF RefInv, Types
<1>2. \A p \in T : \E x \in P : next[x] = p
  <2> SUFFICES ASSUME NEW p \in T PROVE \E x \in P : next[x] = p
    OBVIOUS
  <2>1. ~(held[p] > 0)
    BY <1>0, ChainFacts
  <2>2. ~Whole(p)
    BY <1>1, <2>1
  <2>3. PICK x \in Pbufs : next[x] = p
    BY <2>2 DEF Whole
  <2>4. ref[x] # 0
    BY <1>0, <2>3 DEF FreeInv
  <2>5. ref[x] > 0
    BY <1>1, <2>4
  <2>6. ~covered(x)
    BY <1>0, <2>3, ChainFacts
  <2> HIDE DEF covered
  <2> QED BY <2>3, <2>5, <2>6
<1> HIDE DEF T
<1>3. f \in Surjection(P, T)
  <2>1. f \in [P -> T] /\ \A t \in T : \E s \in P : f[s] = t
    BY <1>2
  <2> HIDE DEF f, P
  <2> QED BY <2>1 DEF Surjection
<1>4. T \in SUBSET Pbufs /\ P \in SUBSET T
  BY DEF T
<1>5. IsFiniteSet(T) /\ IsFiniteSet(P)
  BY <1>4, Constants, FS_Subset
<1>6. Cardinality(T) <= Cardinality(P)
  <2> HIDE DEF f, P
  <2> QED BY <1>3, <1>5, FS_Surjection
<1>7. T = P
  <2> HIDE DEF P
  <2>1. Cardinality(P) <= Cardinality(T) /\ (Cardinality(T) = Cardinality(P) => T = P)
    BY <1>4, <1>5, FS_Subset
  <2>2. Cardinality(P) \in Nat /\ Cardinality(T) \in Nat
    BY <1>5, FS_CardinalityType
  <2> QED BY <1>6, <2>1, <2>2
<1>8. T = {}
  <2>1. \A x \in T : next[x] \in T
    BY <1>7
  <2> HIDE DEF P
  <2> QED BY <1>0, <1>4, <2>1 DEF Acyclic
<1>9. \A p \in Pbufs : ref[p] > 0 => covered(p)
  BY <1>8 DEF T
<1> QED BY <1>9 DEF NothingLost

\* The fields stay in their ranges.
LEMMA TypesBounded == IInv => TypeOK
<1> SUFFICES ASSUME IInv PROVE TypeOK
  OBVIOUS
<1>0. Types /\ RefInv
  BY DEF IInv, Shape
<1>1. tot_len \in [Pbufs -> 0..(PoolSize * BufSize)]
  <2>1. \A p \in Pbufs : tot_len[p] \in 0..(PoolSize * BufSize)
    BY TotalBounded
  <2> QED BY <1>0, <2>1 DEF Types
<1>2. ref \in [Pbufs -> 0..(MaxHeld + PoolSize)]
  <2>1. ASSUME NEW p \in Pbufs PROVE ref[p] \in 0..(MaxHeld + PoolSize)
    <3>1. held[p] \in 0..MaxHeld /\ ref[p] = held[p] + (IF Whole(p) THEN 0 ELSE 1)
      BY <1>0 DEF RefInv, Types
    <3> QED BY <3>1, Constants
  <2> QED BY <1>0, <2>1 DEF Types
<1> QED BY <1>0, <1>1, <1>2 DEF Types, TypeOK

\* At the beginning all buffers are free.
LEMMA InitInv == Init => IInv
<1> SUFFICES ASSUME Init PROVE IInv
  OBVIOUS
<1>0. NULL \notin Pbufs /\ BufSize \in Nat /\ MaxHeld \in Nat
  BY Constants
<1>1. Types
  BY <1>0 DEF Init, Types
<1>2. \A x \in Pbufs : next[x] = NULL /\ len[x] = 0 /\ tot_len[x] = 0 /\ ref[x] = 0 /\ held[x] = 0
  BY DEF Init
<1>3. Acyclic /\ Linear /\ FreeInv /\ TotLenIsTrue
  BY <1>0, <1>2 DEF Acyclic, Linear, FreeInv, TotLenIsTrue
<1>4. RefInv
  BY <1>0, <1>2 DEF RefInv, Whole
<1> QED BY <1>1, <1>3, <1>4 DEF IInv, Shape

\* Every step keeps the invariant.
LEMMA NextInv == IInv /\ [Next]_vars => IInv'
<1> SUFFICES ASSUME IInv, [Next]_vars PROVE IInv'
  OBVIOUS
<1>1. CASE \E length \in 0..MaxLength : pbuf_alloc(length)
  BY <1>1, AllocKeeps
<1>2. CASE \E p \in Pbufs : pbuf_free(p)
  BY <1>2, FreeKeeps
<1>3. CASE \E p \in Pbufs : pbuf_ref(p)
  BY <1>3, RefKeeps
<1>4. CASE \E p \in Pbufs : pbuf_dechain(p)
  BY <1>4, DechainKeeps
<1>5. CASE \E h, t \in Pbufs : pbuf_cat(h, t)
  BY <1>5, CatKeeps
<1>6. CASE \E h, t \in Pbufs : pbuf_chain(h, t)
  BY <1>6, ChainKeeps
<1>7. CASE \E p \in Pbufs, n \in 0..MaxLength : pbuf_realloc(p, n)
  BY <1>7, ReallocKeeps
<1>8. CASE UNCHANGED vars
  BY <1>8 DEF vars, IInv, Shape, Types, Acyclic, Linear, RefInv, FreeInv, TotLenIsTrue, Whole
<1> QED BY <1>1, <1>2, <1>3, <1>4, <1>5, <1>6, <1>7, <1>8 DEF Next

\* The invariant holds in every state.
THEOREM Invariance == Spec => []IInv
<1>1. Init => IInv
  BY InitInv
<1>2. IInv /\ [Next]_vars => IInv'
  BY NextInv
<1> QED BY <1>1, <1>2, PTL DEF Spec

\* Reference counts are the numbers of references, whatever the order of the
\* calls: no buffer is deallocated that a caller or a chain leads to, and what
\* all callers have freed is back in the pool (pbuf_free(), pbuf.c).
THEOREM PoolIsConsistent == Spec => []PoolConsistent
<1>1. IInv => PoolConsistent
  BY TypesBounded, RefsCounted, NoneLost DEF PoolConsistent
<1> QED BY <1>1, Invariance, PTL

\* tot_len is always the length of the rest of the packet, as pbuf_dechain()
\* asserts, also after packets were joined, cut or shortened.
THEOREM TotalsAreTrue == Spec => []TotLenIsTrue
<1>1. IInv => TotLenIsTrue
  BY DEF IInv
<1> QED BY <1>1, Invariance, PTL
=============================================================================
