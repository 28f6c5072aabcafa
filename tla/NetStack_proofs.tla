--------------------------- MODULE NetStack_proofs ---------------------------
(***************************************************************************)
(* Theorems about NetStack, for any number of hosts, entries, fragments    *)
(* and buffers, and their proofs.                                          *)
(*                                                                         *)
(* The buffers of a table or a list are sums over finite sets; what a sum  *)
(* does when a part of it changes is proved first, with a smallest set for *)
(* which it would not hold.  Then come lemmas about the functions of       *)
(* Etharp, ICMP and UDP, and IpReass: each says that a consistent record   *)
(* stays consistent and that buffers are neither lost nor freed twice.     *)
(* The inductive invariant IInv and the actions are at the end.            *)
(***************************************************************************)
EXTENDS NetStack, FiniteSetTheorems, SequenceTheorems, WellFoundedInduction, TLAPS

----------------------------------------------------------------------------
(* Sums over finite sets.                                                  *)

\* The element that SumFunctionOnSet() takes first, and the function it chooses
Pick(S) == CHOOSE x \in S : TRUE
IsIter(f, T, h) ==
  h = [s \in SUBSET T |-> IF s = {} THEN 0 ELSE f[Pick(s)] + h[s \ {Pick(s)}]]
Iter(f, T) == CHOOSE h : IsIter(f, T, h)

\* There is a least number in a set that is not empty.
LEMMA LeastNat ==
  ASSUME NEW T, T \subseteq Nat, T # {}
  PROVE  \E x \in T : \A y \in T : x <= y
<1>1. IsWellFoundedOn(OpToRel(<, Nat), Nat)
  BY NatLessThanWellFounded
<1>2. PICK x \in T : \A y \in T : ~(<<y, x>> \in OpToRel(<, Nat))
  BY <1>1, WFMin
<1>3. \A y \in T : ~(y < x)
  BY <1>2 DEF OpToRel
<1> QED BY <1>3

\* A sum is the value of the function that is chosen.
LEMMA SumIter == \A f, T : SumFunctionOnSet(f, T) = Iter(f, T)[T]
  BY DEF SumFunctionOnSet, FoldFunctionOnSet, MapThenFoldSet, Iter, IsIter, Pick

\* What a chosen element leaves is smaller.
LEMMA PickFacts ==
  ASSUME NEW S, IsFiniteSet(S), S # {}
  PROVE  /\ Pick(S) \in S /\ IsFiniteSet(S \ {Pick(S)})
         /\ Cardinality(S) \in Nat /\ Cardinality(S \ {Pick(S)}) \in Nat
         /\ Cardinality(S \ {Pick(S)}) = Cardinality(S) - 1
<1>1. Pick(S) \in S
  BY DEF Pick
<1> DEFINE x == Pick(S)
<1> HIDE DEF x
<1>2. x \in S
  BY <1>1 DEF x
<1>3. IsFiniteSet(S \ {x}) /\ Cardinality(S \ {x}) = Cardinality(S) - 1
  BY <1>2, FS_RemoveElement
<1>4. Cardinality(S) \in Nat /\ Cardinality(S \ {x}) \in Nat
  BY <1>3, FS_CardinalityType
<1> QED BY <1>1, <1>3, <1>4 DEF x

\* There is at most one such function, ...
LEMMA IterUnique ==
  ASSUME NEW f, NEW T, IsFiniteSet(T), NEW g, NEW h, IsIter(f, T, g), IsIter(f, T, h)
  PROVE  \A s \in SUBSET T : g[s] = h[s]
<1> DEFINE Bad == {n \in Nat : \E s \in SUBSET T : Cardinality(s) = n /\ g[s] # h[s]}
<1>1. \A s \in SUBSET T : IsFiniteSet(s) /\ Cardinality(s) \in Nat
  BY FS_Subset, FS_CardinalityType
<1>2. ASSUME Bad # {} PROVE FALSE
  <2>1. PICK n \in Bad : \A m \in Bad : n <= m
    <3>1. Bad \subseteq Nat
      OBVIOUS
    <3> HIDE DEF Bad
    <3> QED BY <1>2, <3>1, LeastNat
  <2>2. PICK s \in SUBSET T : Cardinality(s) = n /\ g[s] # h[s]
    BY <2>1
  <2>3. CASE s = {}
    <3>1. g[s] = 0 /\ h[s] = 0
      BY <2>3 DEF IsIter
    <3> QED BY <2>2, <3>1
  <2>4. CASE s # {}
    <3> DEFINE t == s \ {Pick(s)}
    <3>1. t \in SUBSET T /\ Cardinality(t) \in Nat /\ Cardinality(t) < n
      BY <1>1, <2>2, <2>4, PickFacts
    <3>2. g[t] = h[t]
      <4> HIDE DEF t
      <4>1. Cardinality(t) \notin Bad
        BY <2>1, <3>1
      <4> QED BY <3>1, <4>1
    <3>3. g[s] = f[Pick(s)] + g[t] /\ h[s] = f[Pick(s)] + h[t]
      <4>1. \A u \in SUBSET T : g[u] = IF u = {} THEN 0 ELSE f[Pick(u)] + g[u \ {Pick(u)}]
        BY DEF IsIter
      <4>2. \A u \in SUBSET T : h[u] = IF u = {} THEN 0 ELSE f[Pick(u)] + h[u \ {Pick(u)}]
        BY DEF IsIter
      <4> QED BY <2>4, <4>1, <4>2
    <3> QED BY <2>2, <3>2, <3>3
  <2> QED BY <2>3, <2>4
<1>3. SUFFICES ASSUME NEW s \in SUBSET T, g[s] # h[s] PROVE FALSE
  OBVIOUS
<1> QED BY <1>1, <1>2, <1>3

\* ... it is one for every subset too, ...
LEMMA IterPart ==
  ASSUME NEW f, NEW T, NEW U \in SUBSET T, NEW h, IsIter(f, T, h)
  PROVE  IsIter(f, U, [s \in SUBSET U |-> h[s]])
<1> DEFINE k == [s \in SUBSET U |-> h[s]]
<1>1. \A s \in SUBSET T : h[s] = IF s = {} THEN 0 ELSE f[Pick(s)] + h[s \ {Pick(s)}]
  BY DEF IsIter
<1>2. \A s \in SUBSET U : k[s] = IF s = {} THEN 0 ELSE f[Pick(s)] + k[s \ {Pick(s)}]
  <2> SUFFICES ASSUME NEW s \in SUBSET U
               PROVE  k[s] = IF s = {} THEN 0 ELSE f[Pick(s)] + k[s \ {Pick(s)}]
    OBVIOUS
  <2>1. s \in SUBSET T /\ s \ {Pick(s)} \in SUBSET U
    OBVIOUS
  <2>2. k[s] = h[s] /\ k[s \ {Pick(s)}] = h[s \ {Pick(s)}]
    BY <2>1
  <2> HIDE DEF k
  <2> QED BY <1>1, <2>1, <2>2
<1>3. k = [s \in SUBSET U |-> k[s]]
  OBVIOUS
<1> HIDE DEF k
<1>4. IsIter(f, U, k)
  BY <1>2, <1>3 DEF IsIter
<1> QED BY <1>4 DEF k

\* ... which has the same value there, ...
LEMMA IterAgree ==
  ASSUME NEW f, NEW T, IsFiniteSet(T), NEW U \in SUBSET T, NEW h, NEW g,
         IsIter(f, T, h), IsIter(f, U, g)
  PROVE  h[U] = g[U]
<1>1. IsIter(f, U, [s \in SUBSET U |-> h[s]])
  BY IterPart
<1>2. IsFiniteSet(U) /\ U \in SUBSET U
  BY FS_Subset
<1>3. [s \in SUBSET U |-> h[s]][U] = g[U]
  BY <1>1, <1>2, IterUnique
<1> QED BY <1>2, <1>3

\* ... and there is one for every finite set.
LEMMA IterExists ==
  ASSUME NEW f, NEW S, IsFiniteSet(S)
  PROVE  \E h : IsIter(f, S, h)
<1> DEFINE Bad == {n \in Nat : \E T \in SUBSET S : Cardinality(T) = n /\ ~\E h : IsIter(f, T, h)}
<1>1. \A T \in SUBSET S : IsFiniteSet(T) /\ Cardinality(T) \in Nat
  BY FS_Subset, FS_CardinalityType
<1>2. ASSUME Bad # {} PROVE FALSE
  <2>1. PICK n \in Bad : \A m \in Bad : n <= m
    <3>1. Bad \subseteq Nat
      OBVIOUS
    <3> HIDE DEF Bad
    <3> QED BY <1>2, <3>1, LeastNat
  <2>2. PICK T \in SUBSET S : Cardinality(T) = n /\ ~\E h : IsIter(f, T, h)
    BY <2>1
  <2>3. IsFiniteSet(T)
    BY <1>1
  <2> DEFINE V(s) == Iter(f, s)[s]
  <2>4. \A s \in SUBSET T : s # T => IsIter(f, s, Iter(f, s))
    <3> SUFFICES ASSUME NEW s \in SUBSET T, s # T PROVE IsIter(f, s, Iter(f, s))
      OBVIOUS
    <3>1. Cardinality(s) < n
      <4>1. Cardinality(s) <= Cardinality(T) /\ Cardinality(s) # Cardinality(T)
        BY <2>3, FS_Subset
      <4>2. Cardinality(s) \in Nat /\ Cardinality(T) \in Nat
        BY <1>1
      <4> QED BY <2>2, <4>1, <4>2
    <3>2. Cardinality(s) \in Nat /\ Cardinality(s) \notin Bad
      BY <1>1, <2>1, <3>1
    <3>3. \E h : IsIter(f, s, h)
      BY <3>2
    <3> QED BY <3>3 DEF Iter
  <2>5. \A s \in SUBSET T : s # T => V(s) = IF s = {} THEN 0 ELSE f[Pick(s)] + V(s \ {Pick(s)})
    <3> SUFFICES ASSUME NEW s \in SUBSET T, s # T
                 PROVE  V(s) = IF s = {} THEN 0 ELSE f[Pick(s)] + V(s \ {Pick(s)})
      OBVIOUS
    <3> DEFINE t == s \ {Pick(s)}
               h == Iter(f, s)
    <3>1. IsIter(f, s, h)
      BY <2>4
    <3>2. h[s] = IF s = {} THEN 0 ELSE f[Pick(s)] + h[t]
      <4> HIDE DEF h
      <4> QED BY <3>1 DEF IsIter
    <3>3. s # {} => h[t] = V(t)
      <4> SUFFICES ASSUME s # {} PROVE h[t] = V(t)
        OBVIOUS
      <4>1. t \in SUBSET s /\ t \in SUBSET T /\ t # T /\ IsFiniteSet(s)
        BY <1>1
      <4>2. IsIter(f, t, Iter(f, t))
        BY <2>4, <4>1
      <4> HIDE DEF t, h
      <4> QED BY <3>1, <4>1, <4>2, IterAgree
    <3> HIDE DEF t
    <3>4. h[s] = IF s = {} THEN 0 ELSE f[Pick(s)] + V(t)
      BY <3>2, <3>3
    <3> QED BY <3>4 DEF t
  <2> HIDE DEF V
  <2> DEFINE k == [s \in SUBSET T |-> IF s = {} THEN 0 ELSE f[Pick(s)] + V(s \ {Pick(s)})]
  <2>6. \A s \in SUBSET T : s # {} => k[s \ {Pick(s)}] = V(s \ {Pick(s)})
    <3> SUFFICES ASSUME NEW s \in SUBSET T, s # {} PROVE k[s \ {Pick(s)}] = V(s \ {Pick(s)})
      OBVIOUS
    <3>1. Pick(s) \in s
      BY DEF Pick
    <3>2. s \ {Pick(s)} \in SUBSET T /\ s \ {Pick(s)} # T
      BY <3>1
    <3> QED BY <2>5, <3>2
  <2>7. IsIter(f, T, k)
    <3>1. \A s \in SUBSET T : (IF s = {} THEN 0 ELSE f[Pick(s)] + V(s \ {Pick(s)}))
                              = IF s = {} THEN 0 ELSE f[Pick(s)] + k[s \ {Pick(s)}]
      BY <2>6
    <3>2. k = [s \in SUBSET T |-> IF s = {} THEN 0 ELSE f[Pick(s)] + k[s \ {Pick(s)}]]
      BY <3>1
    <3> HIDE DEF k
    <3> QED BY <3>2 DEF IsIter
  <2> QED BY <2>2, <2>7
<1>3. Cardinality(S) \in Nat /\ Cardinality(S) \notin Bad
  BY <1>1, <1>2
<1> QED BY <1>3


\* Among finite sets there is one that contains no other of them.
LEMMA LeastSet ==
  ASSUME NEW F, F # {}, \A T \in F : IsFiniteSet(T)
  PROVE  \E T \in F : \A U \in F : U \subseteq T => U = T
<1> DEFINE C == {Cardinality(T) : T \in F}
<1>1. C \subseteq Nat /\ C # {}
  BY FS_CardinalityType
<1>2. PICK n \in C : \A m \in C : n <= m
  <2> HIDE DEF C
  <2> QED BY <1>1, LeastNat
<1>3. PICK T \in F : n = Cardinality(T)
  BY <1>2
<1>4. \A U \in F : U \subseteq T => U = T
  <2> SUFFICES ASSUME NEW U \in F, U \subseteq T PROVE U = T
    OBVIOUS
  <2>1. IsFiniteSet(T)
    OBVIOUS
  <2>2. Cardinality(U) <= Cardinality(T) /\ (Cardinality(T) = Cardinality(U) => T = U)
    BY <2>1, FS_Subset
  <2>3. Cardinality(T) <= Cardinality(U)
    BY <1>2, <1>3
  <2>4. Cardinality(T) \in Nat /\ Cardinality(U) \in Nat
    BY FS_CardinalityType
  <2> QED BY <2>2, <2>3, <2>4
<1> QED BY <1>4

\* A sum is that of the element taken first and of the others.
LEMMA SumPick ==
  ASSUME NEW f, NEW S, IsFiniteSet(S)
  PROVE  SumFunctionOnSet(f, S) = IF S = {} THEN 0
                                  ELSE f[Pick(S)] + SumFunctionOnSet(f, S \ {Pick(S)})
<1> DEFINE t == S \ {Pick(S)}
           h == Iter(f, S)
<1>1. IsIter(f, S, h)
  BY IterExists DEF Iter
<1>2. h[S] = IF S = {} THEN 0 ELSE f[Pick(S)] + h[t]
  <2> HIDE DEF h
  <2> QED BY <1>1 DEF IsIter
<1>3. h[t] = Iter(f, t)[t]
  <2>1. t \in SUBSET S /\ IsFiniteSet(t)
    BY FS_Subset
  <2>2. IsIter(f, t, Iter(f, t))
    <3> HIDE DEF t
    <3> QED BY <2>1, IterExists DEF Iter
  <2> HIDE DEF t, h
  <2> QED BY <1>1, <2>1, <2>2, IterAgree
<1>4. SumFunctionOnSet(f, S) = h[S] /\ SumFunctionOnSet(f, t) = Iter(f, t)[t]
  BY SumIter
<1> HIDE DEF t, h
<1>5. SumFunctionOnSet(f, S) = IF S = {} THEN 0 ELSE f[Pick(S)] + SumFunctionOnSet(f, t)
  BY <1>2, <1>3, <1>4
<1> QED BY <1>5 DEF t

\* Nothing adds up to 0.
LEMMA SumEmpty == \A f : SumFunctionOnSet(f, {}) = 0
  BY SumPick, FS_EmptySet

\* A sum of natural numbers is one.
LEMMA SumNat ==
  ASSUME NEW f, NEW S, IsFiniteSet(S), \A x \in S : f[x] \in Nat
  PROVE  SumFunctionOnSet(f, S) \in Nat
<1> DEFINE Bad == {T \in SUBSET S : SumFunctionOnSet(f, T) \notin Nat}
<1>1. ASSUME Bad # {} PROVE FALSE
  <2>1. \A T \in Bad : IsFiniteSet(T)
    BY FS_Subset
  <2>2. PICK T \in Bad : \A U \in Bad : U \subseteq T => U = T
    <3> HIDE DEF Bad
    <3> QED BY <1>1, <2>1, LeastSet
  <2> DEFINE R == T \ {Pick(T)}
  <2>3. T # {}
    BY SumEmpty
  <2>4. Pick(T) \in T /\ R \in SUBSET S /\ R # T /\ f[Pick(T)] \in Nat
    BY <2>3, <2>1, PickFacts
  <2>5. SumFunctionOnSet(f, T) = f[Pick(T)] + SumFunctionOnSet(f, R)
    BY <2>1, <2>3, SumPick
  <2>6. SumFunctionOnSet(f, R) \in Nat
    BY <2>2, <2>4
  <2>7. SumFunctionOnSet(f, T) \in Nat
    <3> HIDE DEF R
    <3> QED BY <2>4, <2>5, <2>6
  <2> QED BY <2>2, <2>7
<1> QED BY <1>1

\* Equal numbers have the same sum.
LEMMA SumEq ==
  ASSUME NEW f, NEW g, NEW S, IsFiniteSet(S), \A x \in S : f[x] = g[x]
  PROVE  SumFunctionOnSet(f, S) = SumFunctionOnSet(g, S)
<1> DEFINE Bad == {T \in SUBSET S : SumFunctionOnSet(f, T) # SumFunctionOnSet(g, T)}
<1>1. ASSUME Bad # {} PROVE FALSE
  <2>1. \A T \in Bad : IsFiniteSet(T)
    BY FS_Subset
  <2>2. PICK T \in Bad : \A U \in Bad : U \subseteq T => U = T
    <3> HIDE DEF Bad
    <3> QED BY <1>1, <2>1, LeastSet
  <2> DEFINE R == T \ {Pick(T)}
  <2>3. T # {}
    BY SumEmpty
  <2>4. R \in SUBSET S /\ R # T /\ f[Pick(T)] = g[Pick(T)]
    BY <2>3, <2>1, PickFacts
  <2>5. /\ SumFunctionOnSet(f, T) = f[Pick(T)] + SumFunctionOnSet(f, R)
        /\ SumFunctionOnSet(g, T) = g[Pick(T)] + SumFunctionOnSet(g, R)
    BY <2>1, <2>3, SumPick
  <2>6. SumFunctionOnSet(f, R) = SumFunctionOnSet(g, R)
    BY <2>2, <2>4
  <2>7. SumFunctionOnSet(f, T) = SumFunctionOnSet(g, T)
    BY <2>4, <2>5, <2>6
  <2> QED BY <2>2, <2>7
<1> QED BY <1>1

\* Any element may be taken first.
LEMMA SumAny ==
  ASSUME NEW f, NEW S, IsFiniteSet(S), \A x \in S : f[x] \in Nat, NEW x \in S
  PROVE  SumFunctionOnSet(f, S) = f[x] + SumFunctionOnSet(f, S \ {x})
<1> DEFINE Sum(T) == SumFunctionOnSet(f, T)
           Bad == {T \in SUBSET S : \E y \in T : Sum(T) # f[y] + Sum(T \ {y})}
<1>0. \A T \in SUBSET S : IsFiniteSet(T) /\ Sum(T) \in Nat
  BY FS_Subset, SumNat
<1>1. ASSUME Bad # {} PROVE FALSE
  <2>1. PICK T \in Bad : \A U \in Bad : U \subseteq T => U = T
    <3>1. \A T \in Bad : IsFiniteSet(T)
      BY <1>0
    <3> HIDE DEF Bad
    <3> QED BY <1>1, <3>1, LeastSet
  <2>2. T \in SUBSET S
    BY <2>1
  <2>3. PICK y \in T : Sum(T) # f[y] + Sum(T \ {y})
    BY <2>1
  <2> DEFINE p == Pick(T)
  <2>4. p \in T
    BY <2>3 DEF Pick
  <2>5. Sum(T) = f[p] + Sum(T \ {p})
    BY <1>0, <2>2, <2>3, SumPick
  <2>6. CASE p = y
    BY <2>3, <2>5, <2>6
  <2>7. CASE p # y
    <3> HIDE DEF p, Sum
    <3> DEFINE R == (T \ {p}) \ {y}
    <3>1. T \ {p} \in SUBSET S /\ T \ {p} # T /\ y \in T \ {p}
      BY <2>2, <2>3, <2>4, <2>7
    <3>2. T \ {y} \in SUBSET S /\ T \ {y} # T /\ p \in T \ {y}
      BY <2>2, <2>3, <2>4, <2>7
    <3>3. Sum(T \ {p}) = f[y] + Sum(R)
      BY <2>1, <3>1
    <3>4. Sum(T \ {y}) = f[p] + Sum((T \ {y}) \ {p})
      BY <2>1, <3>2
    <3>5. (T \ {y}) \ {p} = R
      OBVIOUS
    <3>6. R \in SUBSET S /\ y \in S /\ p \in S
      BY <2>2, <2>3, <2>4
    <3>7. Sum(R) \in Nat /\ f[y] \in Nat /\ f[p] \in Nat
      BY <1>0, <3>6
    <3>8. Sum(T \ {y}) = f[p] + Sum(R)
      BY <3>4, <3>5
    <3> HIDE DEF R
    <3>9. f[p] + (f[y] + Sum(R)) = f[y] + (f[p] + Sum(R))
      BY <3>7
    <3> QED BY <2>3, <2>5, <3>3, <3>8, <3>9
  <2> QED BY <2>6, <2>7
<1> QED BY <1>1

\* The sum over two sets that have nothing in common.
LEMMA SumUnion ==
  ASSUME NEW f, NEW S, IsFiniteSet(S), \A x \in S : f[x] \in Nat,
         NEW A \in SUBSET S, NEW B \in SUBSET S, A \cap B = {}
  PROVE  SumFunctionOnSet(f, A \cup B) = SumFunctionOnSet(f, A) + SumFunctionOnSet(f, B)
<1> DEFINE Sum(T) == SumFunctionOnSet(f, T)
           Bad == {T \in SUBSET A : Sum(T \cup B) # Sum(T) + Sum(B)}
<1>0. \A T \in SUBSET S : IsFiniteSet(T) /\ Sum(T) \in Nat
  BY FS_Subset, SumNat
<1>1. ASSUME Bad # {} PROVE FALSE
  <2>1. PICK T \in Bad : \A U \in Bad : U \subseteq T => U = T
    <3>1. \A T \in Bad : IsFiniteSet(T)
      BY <1>0
    <3> HIDE DEF Bad
    <3> QED BY <1>1, <3>1, LeastSet
  <2>2. T \in SUBSET A /\ Sum(T \cup B) # Sum(T) + Sum(B)
    BY <2>1
  <2>3. CASE T = {}
    <3>1. Sum(T) = 0 /\ T \cup B = B
      BY <2>3, SumEmpty
    <3>2. Sum(B) \in Nat
      BY <1>0
    <3>3. Sum(T \cup B) = Sum(B)
      BY <3>1
    <3> HIDE DEF Sum
    <3> QED BY <2>2, <3>1, <3>2, <3>3
  <2>4. CASE T # {}
    <3> DEFINE p == Pick(T)
               R == T \ {p}
    <3>1. p \in T /\ p \notin B /\ p \in S
      BY <2>2, <2>4 DEF Pick
    <3>2. R \in SUBSET A /\ R # T /\ R \subseteq T
      BY <2>2, <3>1
    <3>3. Sum(R \cup B) = Sum(R) + Sum(B)
      BY <2>1, <3>2
    <3>4. T \in SUBSET S /\ T \cup B \in SUBSET S
      BY <2>2
    <3>5. Sum(T) = f[p] + Sum(R)
      <4> HIDE DEF p
      <4>1. IsFiniteSet(T) /\ \A x \in T : f[x] \in Nat
        BY <1>0, <3>4
      <4> QED BY <3>1, <4>1, SumAny
    <3>6. Sum(T \cup B) = f[p] + Sum(R \cup B)
      <4> HIDE DEF p
      <4> DEFINE V == T \cup B
      <4>1. IsFiniteSet(V) /\ \A x \in V : f[x] \in Nat
        BY <1>0, <3>4
      <4>2. p \in V /\ V \ {p} = R \cup B
        BY <3>1
      <4> HIDE DEF V, R
      <4>3. Sum(V) = f[p] + Sum(V \ {p})
        BY <4>1, <4>2, SumAny
      <4> QED BY <4>2, <4>3 DEF V
    <3>7. f[p] \in Nat /\ Sum(R) \in Nat /\ Sum(B) \in Nat
      <4>1. R \in SUBSET S
        BY <3>2
      <4> QED BY <1>0, <3>1, <4>1
    <3> HIDE DEF Sum, p, R
    <3>8. f[p] + (Sum(R) + Sum(B)) = (f[p] + Sum(R)) + Sum(B)
      BY <3>7
    <3> QED BY <2>2, <3>3, <3>5, <3>6, <3>8
  <2> QED BY <2>3, <2>4
<1>2. A \notin Bad
  BY <1>1
<1> QED BY <1>2

\* Numbers that are not greater have a sum that is not greater.
LEMMA SumLeq ==
  ASSUME NEW f, NEW g, NEW S, IsFiniteSet(S),
         \A x \in S : f[x] \in Nat /\ g[x] \in Nat /\ f[x] <= g[x]
  PROVE  SumFunctionOnSet(f, S) <= SumFunctionOnSet(g, S)
<1> DEFINE SumF(T) == SumFunctionOnSet(f, T)
           SumG(T) == SumFunctionOnSet(g, T)
           Bad == {T \in SUBSET S : ~(SumF(T) <= SumG(T))}
<1>0. \A T \in SUBSET S : IsFiniteSet(T) /\ SumF(T) \in Nat /\ SumG(T) \in Nat
  BY FS_Subset, SumNat
<1>1. ASSUME Bad # {} PROVE FALSE
  <2>1. PICK T \in Bad : \A U \in Bad : U \subseteq T => U = T
    <3>1. \A T \in Bad : IsFiniteSet(T)
      BY <1>0
    <3> HIDE DEF Bad
    <3> QED BY <1>1, <3>1, LeastSet
  <2> DEFINE p == Pick(T)
             R == T \ {p}
  <2>2. T \in SUBSET S /\ IsFiniteSet(T) /\ ~(SumF(T) <= SumG(T))
    BY <1>0, <2>1
  <2>3. CASE T = {}
    <3>1. SumF(T) = 0 /\ SumG(T) = 0
      BY <2>3, SumEmpty
    <3> HIDE DEF SumF, SumG
    <3> QED BY <2>2, <3>1
  <2>4. CASE T # {}
    <3>1. p \in T /\ p \in S
      BY <2>2, <2>4 DEF Pick
    <3>2. R \in SUBSET S /\ R # T /\ R \subseteq T
      BY <2>2, <3>1
    <3>3. SumF(R) <= SumG(R)
      BY <2>1, <3>2
    <3>4. SumF(T) = f[p] + SumF(R) /\ SumG(T) = g[p] + SumG(R)
      BY <2>2, <2>4, SumPick
    <3>5. SumF(R) \in Nat /\ SumG(R) \in Nat /\ f[p] \in Nat /\ g[p] \in Nat /\ f[p] <= g[p]
      BY <1>0, <3>1, <3>2
    <3> HIDE DEF SumF, SumG, p, R
    <3> QED BY <2>2, <3>3, <3>4, <3>5
  <2> QED BY <2>3, <2>4
<1>2. S \notin Bad
  BY <1>1
<1> QED BY <1>2

----------------------------------------------------------------------------
(* The ARP table.                                                          *)

\* What the constants are
LEMMA Constants ==
  /\ ARP_TABLE_SIZE \in Nat /\ ARP_TABLE_SIZE > 0 /\ MaxPacket \in Nat
  /\ ARP_MAXAGE \in Nat /\ ARP_MAXAGE > 0 /\ ARP_MAXPENDING \in Nat /\ ARP_MAXPENDING > 0
  /\ NoHost \notin Hosts /\ NoMac \notin Macs
  /\ IsFiniteSet(Index) /\ 1 \in Index /\ Index \subseteq Nat
<1>1. ARP_TABLE_SIZE \in Nat /\ ARP_TABLE_SIZE > 0
  BY ArpAssumption
<1>2. IsFiniteSet(1 .. ARP_TABLE_SIZE)
  BY <1>1, FS_Interval
<1>3. IsFiniteSet(Index) /\ 1 \in Index /\ Index \subseteq Nat
  BY <1>1, <1>2 DEF Index
<1> QED BY <1>1, <1>3, ArpAssumption

ArpTable == [Index -> ArpEntry]

Queues == {<< >>} \cup {<<n>> : n \in 0 .. MaxPacket}

\* The entries are the records with these fields.
LEMMA EntrySet ==
  ArpEntry = [state : StableState \cup {"EMPTY", "PENDING"},
              ip : Hosts \cup {NoHost}, mac : Macs \cup {NoMac},
              ctime : 0 .. (ARP_MAXAGE - 1), q : Queues]
  BY DEF ArpEntry, Queues

\* A queue is empty or one packet, and the fields make up an entry.
LEMMA EntryMade ==
  /\ << >> \in Queues /\ \A n \in 0 .. MaxPacket : <<n>> \in Queues
  /\ \A e \in ArpEntry :
       /\ e.q \in Queues
       /\ e = [state |-> e.state, ip |-> e.ip, mac |-> e.mac, ctime |-> e.ctime, q |-> e.q]
  /\ \A st \in StableState \cup {"EMPTY", "PENDING"}, ip \in Hosts \cup {NoHost},
        mac \in Macs \cup {NoMac}, ct \in 0 .. (ARP_MAXAGE - 1), q \in Queues :
       [state |-> st, ip |-> ip, mac |-> mac, ctime |-> ct, q |-> q] \in ArpEntry
<1>1. << >> \in Queues /\ \A n \in 0 .. MaxPacket : <<n>> \in Queues
  BY DEF Queues
<1> QED BY <1>1, EntrySet

\* The types of an entry's fields.
LEMMA EntryTypes ==
  ASSUME NEW e \in ArpEntry
  PROVE  /\ e.state \in StableState \cup {"EMPTY", "PENDING"}
         /\ e.ip \in Hosts \cup {NoHost} /\ e.mac \in Macs \cup {NoMac}
         /\ e.ctime \in 0 .. (ARP_MAXAGE - 1)
         /\ e.q \in {<< >>} \cup {<<n>> : n \in 0 .. MaxPacket}
         /\ Kept(e.q) \in 0 .. MaxPacket
<1>1. e.q \in {<< >>} \cup {<<n>> : n \in 0 .. MaxPacket}
  BY DEF ArpEntry
<1>2. Kept(e.q) \in 0 .. MaxPacket
  <2>1. CASE e.q = << >>
    BY <2>1, Constants DEF Kept
  <2>2. CASE e.q # << >>
    <3>1. PICK n \in 0 .. MaxPacket : e.q = <<n>>
      BY <1>1, <2>2
    <3> QED BY <2>2, <3>1 DEF Kept
  <2> QED BY <2>1, <2>2
<1> QED BY <1>1, <1>2 DEF ArpEntry

\* What the queues keep is a number; ...
LEMMA KeptNat ==
  ASSUME NEW table \in ArpTable
  PROVE  KeptIn(table) \in Nat /\ \A i \in Index : Kept(table[i].q) \in Nat
<1> DEFINE g == [i \in Index |-> Kept(table[i].q)]
<1>1. \A i \in Index : Kept(table[i].q) \in Nat
  <2> SUFFICES ASSUME NEW i \in Index PROVE Kept(table[i].q) \in Nat
    OBVIOUS
  <2>1. table[i] \in ArpEntry
    BY DEF ArpTable
  <2>2. Kept(table[i].q) \in 0 .. MaxPacket
    BY <2>1, EntryTypes
  <2> QED BY <2>2, Constants
<1>2. \A i \in Index : g[i] \in Nat
  BY <1>1
<1> HIDE DEF g
<1>3. SumFunctionOnSet(g, Index) \in Nat
  BY <1>2, Constants, SumNat
<1> QED BY <1>1, <1>3 DEF KeptIn, g

\* ... when one queue changes, it changes by as much.
LEMMA KeptChange ==
  ASSUME NEW s \in ArpTable, NEW t \in ArpTable, NEW i \in Index,
         \A j \in Index : j # i => s[j].q = t[j].q
  PROVE  KeptIn(t) = KeptIn(s) - Kept(s[i].q) + Kept(t[i].q)
<1> DEFINE g == [j \in Index |-> Kept(s[j].q)]
           h == [j \in Index |-> Kept(t[j].q)]
           R == Index \ {i}
<1>1. KeptIn(s) = SumFunctionOnSet(g, Index) /\ KeptIn(t) = SumFunctionOnSet(h, Index)
  BY DEF KeptIn
<1>2. \A j \in Index : g[j] \in Nat /\ h[j] \in Nat
  <2>1. \A j \in Index : Kept(s[j].q) \in Nat
    BY KeptNat
  <2>2. \A j \in Index : Kept(t[j].q) \in Nat
    BY KeptNat
  <2> QED BY <2>1, <2>2
<1>3. g[i] = Kept(s[i].q) /\ h[i] = Kept(t[i].q) /\ \A j \in R : g[j] = h[j]
  OBVIOUS
<1>4. IsFiniteSet(R)
  BY Constants, FS_Subset
<1> HIDE DEF g, h
<1>5. /\ SumFunctionOnSet(g, Index) = g[i] + SumFunctionOnSet(g, R)
      /\ SumFunctionOnSet(h, Index) = h[i] + SumFunctionOnSet(h, R)
  BY <1>2, Constants, SumAny
<1>6. SumFunctionOnSet(g, R) = SumFunctionOnSet(h, R) /\ SumFunctionOnSet(g, R) \in Nat
  <2> HIDE DEF R
  <2>1. \A j \in R : g[j] \in Nat
    BY <1>2 DEF R
  <2> QED BY <1>3, <1>4, <2>1, SumEq, SumNat
<1>7. g[i] \in Nat /\ h[i] \in Nat
  BY <1>2
<1> QED BY <1>1, <1>3, <1>5, <1>6, <1>7

\* A table without queues keeps nothing.
LEMMA KeptNone ==
  ASSUME NEW table \in ArpTable, \A i \in Index : table[i].q = << >>
  PROVE  KeptIn(table) = 0
<1> DEFINE g == [i \in Index |-> Kept(table[i].q)]
           z == [i \in Index |-> 0]
           Bad == {T \in SUBSET Index : SumFunctionOnSet(z, T) # 0}
<1>2. ASSUME Bad # {} PROVE FALSE
  <2>1. \A T \in Bad : IsFiniteSet(T)
    BY Constants, FS_Subset
  <2>2. PICK T \in Bad : \A U \in Bad : U \subseteq T => U = T
    <3> HIDE DEF Bad
    <3> QED BY <1>2, <2>1, LeastSet
  <2>3. T # {}
    BY SumEmpty
  <2>4. Pick(T) \in T /\ z[Pick(T)] = 0
    BY <2>3 DEF Pick
  <2>5. SumFunctionOnSet(z, T) = z[Pick(T)] + SumFunctionOnSet(z, T \ {Pick(T)})
    BY <2>1, <2>3, SumPick
  <2>6. SumFunctionOnSet(z, T \ {Pick(T)}) = 0
    <3>1. T \ {Pick(T)} \in SUBSET Index /\ T \ {Pick(T)} # T
      BY <2>4
    <3> QED BY <2>2, <3>1
  <2>7. SumFunctionOnSet(z, T) = 0
    <3> HIDE DEF z
    <3> QED BY <2>4, <2>5, <2>6
  <2> QED BY <2>2, <2>7
<1>3. SumFunctionOnSet(z, Index) = 0
  BY <1>2
<1>4. \A i \in Index : g[i] = z[i]
  BY DEF Kept
<1> HIDE DEF g, z
<1>5. SumFunctionOnSet(g, Index) = 0
  BY <1>3, <1>4, Constants, SumEq
<1> QED BY <1>5 DEF KeptIn, g

ArpRecord == [table : ArpTable, cached : Index, freed : Int, sent : SUBSET [ip : Hosts, mac : Macs]]

\* An entry in use is of a host; a stable one has the address of its last ARP
\* packet, and only a pending one keeps a packet.
EntryOK(e, ann) ==
  /\ e.state # "EMPTY" => e.ip \in Hosts
  /\ e.state \in StableState => e.mac \in Macs /\ e.mac = ann[e.ip]
  /\ e.q # << >> => e.state = "PENDING"

Unique(table) ==
  \A i, j \in Index :
    i # j /\ table[i].state # "EMPTY" /\ table[j].state # "EMPTY" => table[i].ip # table[j].ip

TableOK(table, ann) == Unique(table) /\ \A i \in Index : EntryOK(table[i], ann)

ArpOK(a, ann) ==
  /\ a \in ArpRecord
  /\ TableOK(a.table, ann)
  /\ \A p \in a.sent : p.mac = ann[p.ip]

\* The pool buffers that were freed and those that are kept, together
Held(a) == a.freed + KeptIn(a.table)

\* The fields of an Arp record, and the numbers that count buffers.
LEMMA ArpTypes ==
  ASSUME NEW a \in ArpRecord
  PROVE  /\ a.table \in ArpTable /\ a.cached \in Index /\ a.freed \in Int
         /\ a.sent \subseteq [ip : Hosts, mac : Macs]
         /\ KeptIn(a.table) \in Nat /\ Held(a) \in Int
         /\ a = [table |-> a.table, cached |-> a.cached, freed |-> a.freed, sent |-> a.sent]
<1>1. /\ a.table \in ArpTable /\ a.cached \in Index /\ a.freed \in Int
      /\ a.sent \subseteq [ip : Hosts, mac : Macs]
      /\ a = [table |-> a.table, cached |-> a.cached, freed |-> a.freed, sent |-> a.sent]
  BY DEF ArpRecord
<1>2. KeptIn(a.table) \in Nat
  BY <1>1, KeptNat
<1> QED BY <1>1, <1>2 DEF Held

\* The least element of a set of numbers
LEMMA MinFacts ==
  ASSUME NEW T \in SUBSET Nat, T # {}
  PROVE  Min(T) \in T
<1>1. PICK x \in T : \A y \in T : x <= y
  BY LeastNat
<1> QED BY <1>1 DEF Min

\* There is an oldest entry among any.
LEMMA OldestFacts ==
  ASSUME NEW table \in ArpTable, NEW S \in SUBSET Index, S # {}
  PROVE  Oldest(table, S) \in S
<1> DEFINE Age(i) == ARP_MAXAGE - table[i].ctime
           D == {Age(i) : i \in S}
<1>1. \A i \in S : table[i].ctime \in Nat /\ table[i].ctime < ARP_MAXAGE
  <2> SUFFICES ASSUME NEW i \in S PROVE table[i].ctime \in Nat /\ table[i].ctime < ARP_MAXAGE
    OBVIOUS
  <2>1. table[i] \in ArpEntry
    BY DEF ArpTable
  <2>2. table[i].ctime \in 0 .. (ARP_MAXAGE - 1)
    BY <2>1, EntryTypes
  <2> QED BY <2>2, Constants
<1>2. D \subseteq Nat /\ D # {}
  <2>1. \A i \in S : Age(i) \in Nat
    BY <1>1, Constants
  <2> QED BY <2>1
<1>3. PICK d \in D : \A e \in D : d <= e
  <2> HIDE DEF D
  <2> QED BY <1>2, LeastNat
<1> DEFINE E == {ARP_TABLE_SIZE - i : i \in {j \in S : Age(j) = d}}
<1>4. E \subseteq Nat /\ E # {}
  <2>1. \A i \in S : ARP_TABLE_SIZE - i \in Nat
    BY Constants DEF Index
  <2>2. \E j \in S : Age(j) = d
    BY <1>3
  <2> QED BY <2>1, <2>2
<1>5. PICK m \in E : \A e \in E : m <= e
  <2> HIDE DEF E
  <2> QED BY <1>4, LeastNat
<1>6. PICK i \in S : Age(i) = d /\ m = ARP_TABLE_SIZE - i
  BY <1>5
<1>7. \A j \in S : table[j].ctime < table[i].ctime \/ (table[j].ctime = table[i].ctime /\ j <= i)
  <2> SUFFICES ASSUME NEW j \in S
               PROVE  table[j].ctime < table[i].ctime \/ (table[j].ctime = table[i].ctime /\ j <= i)
    OBVIOUS
  <2>1. Age(i) <= Age(j)
    BY <1>3, <1>6
  <2>2. /\ table[i].ctime \in Nat /\ table[j].ctime \in Nat /\ i \in Nat /\ j \in Nat
        /\ ARP_MAXAGE \in Nat /\ ARP_TABLE_SIZE \in Nat
    BY <1>1, Constants
  <2>3. Age(j) = d => m <= ARP_TABLE_SIZE - j
    BY <1>5
  <2>4. CASE table[j].ctime = table[i].ctime
    <3>1. Age(j) = d
      BY <1>6, <2>4
    <3> QED BY <1>6, <2>2, <2>3, <2>4, <3>1
  <2>5. CASE table[j].ctime # table[i].ctime
    BY <2>1, <2>2, <2>5
  <2> QED BY <2>4, <2>5
<1> QED BY <1>7 DEF Oldest

\* A full table has an entry to recycle.
LEMMA RecycledFacts ==
  ASSUME NEW table \in ArpTable
  PROVE  Recycled(table) \in Index
<1> DEFINE stable == {i \in Index : table[i].state \in StableState}
           idle == {i \in Index : table[i].state = "PENDING" /\ table[i].q = << >>}
           S == IF stable # {} THEN stable ELSE IF idle # {} THEN idle ELSE Index
<1>1. S \in SUBSET Index /\ S # {}
  BY Constants
<1>2. Recycled(table) = Oldest(table, S)
  BY DEF Recycled
<1> HIDE DEF S
<1> QED BY <1>1, <1>2, OldestFacts

\* An empty entry for a host is an entry.
LEMMA EmptyFacts ==
  ASSUME NEW ip \in Hosts
  PROVE  /\ [Empty EXCEPT !.ip = ip] \in ArpEntry
         /\ [Empty EXCEPT !.ip = ip] = [state |-> "EMPTY", ip |-> ip, mac |-> NoMac, ctime |-> 0, q |-> << >>]
         /\ Empty \in ArpEntry /\ Kept(<< >>) = 0
  BY Constants DEF Empty, ArpEntry, Kept

\* What etharp_find_entry() finds or makes for ip: all other entries stay, and
\* none of them is for ip.
Found(a, f, ip, ann) ==
  /\ f.i \in Index
  /\ f.a \in ArpRecord
  /\ f.a.cached = a.cached /\ f.a.sent = a.sent
  /\ f.a.freed >= a.freed /\ Held(f.a) = Held(a)
  /\ \A j \in Index : j # f.i => f.a.table[j] = a.table[j]
  /\ \A j \in Index : j # f.i /\ a.table[j].state # "EMPTY" => a.table[j].ip # ip
  /\ f.a.table[f.i].ip = ip
  /\ f.a.table[f.i].state = "EMPTY" => f.a.table[f.i].q = << >>
  /\ EntryOK(f.a.table[f.i], ann)

\* etharp_find_entry() finds the entry of the host, makes one, or finds none.
LEMMA FindFacts ==
  ASSUME NEW a, NEW ann, ArpOK(a, ann), NEW ip \in Hosts, NEW hard \in BOOLEAN
  PROVE  LET f == etharp_find_entry(a, ip, hard)
         IN  /\ f = [i |-> f.i, a |-> f.a]
             /\ \/ Found(a, f, ip, ann)
                \/ /\ ~hard /\ f.i = 0 /\ f.a = a
                   /\ \A j \in Index : a.table[j].state # "EMPTY" => a.table[j].ip # ip
<1> DEFINE f == etharp_find_entry(a, ip, hard)
           match == {i \in Index : a.table[i].state # "EMPTY" /\ a.table[i].ip = ip}
           empty == {i \in Index : a.table[i].state = "EMPTY"}
           new == IF empty # {} THEN Min(empty) ELSE Recycled(a.table)
           b == [a EXCEPT !.table[new] = [Empty EXCEPT !.ip = ip],
                          !.freed = @ + Kept(a.table[new].q)]
<1>1. f = IF match # {} THEN [i |-> Min(match), a |-> a]
          ELSE IF ~hard THEN [i |-> 0, a |-> a]
          ELSE [i |-> new, a |-> b]
  BY DEF etharp_find_entry
<1>2. a \in ArpRecord /\ TableOK(a.table, ann)
  BY DEF ArpOK
<1>3. a.table \in ArpTable /\ a.freed \in Int /\ KeptIn(a.table) \in Nat
  BY <1>2, ArpTypes
<1> HIDE DEF f
<1>4. CASE match # {}
  <2>1. Min(match) \in match
    <3>1. match \in SUBSET Nat
      BY Constants
    <3> HIDE DEF match
    <3> QED BY <1>4, <3>1, MinFacts
  <2>2. f.i = Min(match) /\ f.a = a /\ f = [i |-> f.i, a |-> f.a]
    BY <1>1, <1>4
  <2>3. f.i \in Index /\ a.table[f.i].state # "EMPTY" /\ a.table[f.i].ip = ip
    BY <2>1, <2>2
  <2>4. \A j \in Index : j # f.i /\ a.table[j].state # "EMPTY" => a.table[j].ip # ip
    BY <1>2, <2>3 DEF TableOK, Unique
  <2>5. EntryOK(a.table[f.i], ann)
    BY <1>2, <2>3 DEF TableOK
  <2>6. Found(a, f, ip, ann)
    BY <1>2, <1>3, <2>2, <2>3, <2>4, <2>5 DEF Found
  <2> QED BY <2>2, <2>6 DEF f
<1>5. CASE match = {} /\ ~hard
  <2>1. f.i = 0 /\ f.a = a /\ f = [i |-> f.i, a |-> f.a]
    BY <1>1, <1>5
  <2> QED BY <1>5, <2>1 DEF f
<1>6. CASE match = {} /\ hard
  <2>1. f = [i |-> new, a |-> b] /\ f.i = new /\ f.a = b
    BY <1>1, <1>6
  <2>2. new \in Index
    <3>1. empty \in SUBSET Nat /\ empty \subseteq Index
      BY Constants
    <3>2. empty # {} => Min(empty) \in empty
      <4> HIDE DEF empty
      <4> QED BY <3>1, MinFacts
    <3>3. Recycled(a.table) \in Index
      BY <1>3, RecycledFacts
    <3> QED BY <3>1, <3>2, <3>3
  <2> HIDE DEF new
  <2> DEFINE e == [state |-> "EMPTY", ip |-> ip, mac |-> NoMac, ctime |-> 0, q |-> << >>]
  <2>3. e \in ArpEntry /\ [Empty EXCEPT !.ip = ip] = e
    BY EmptyFacts
  <2>4. a.table[new] \in ArpEntry
    BY <1>3, <2>2 DEF ArpTable
  <2>5. Kept(a.table[new].q) \in Nat
    BY <1>3, <2>2, KeptNat
  <2> DEFINE t == [a.table EXCEPT ![new] = e]
  <2>6. t \in ArpTable /\ t[new] = e /\ \A j \in Index : j # new => t[j] = a.table[j]
    BY <1>3, <2>2, <2>3 DEF ArpTable
  <2>7. b = [a EXCEPT !.table = t, !.freed = a.freed + Kept(a.table[new].q)]
    BY <1>2, <2>3 DEF ArpRecord
  <2> DEFINE n == a.freed + Kept(a.table[new].q)
  <2>14. n \in Int
    BY <1>3, <2>5
  <2> HIDE DEF t, b, n
  <2>15. b \in ArpRecord /\ b.table = t /\ b.cached = a.cached /\ b.sent = a.sent /\ b.freed = n
    BY <1>2, <2>6, <2>7, <2>14 DEF ArpRecord, n
  <2>8. /\ b \in ArpRecord /\ b.table = t /\ b.cached = a.cached /\ b.sent = a.sent
        /\ b.freed = a.freed + Kept(a.table[new].q)
    BY <2>15 DEF n
  <2>9. KeptIn(t) = KeptIn(a.table) - Kept(a.table[new].q)
    <3>1. KeptIn(t) = KeptIn(a.table) - Kept(a.table[new].q) + Kept(t[new].q)
      BY <1>3, <2>2, <2>6, KeptChange
    <3>2. Kept(t[new].q) = 0
      BY <2>6, EmptyFacts
    <3> QED BY <1>3, <2>5, <3>1, <3>2
  <2>10. Held(b) = Held(a) /\ b.freed >= a.freed
    BY <1>3, <2>5, <2>8, <2>9 DEF Held
  <2>11. \A j \in Index : a.table[j].state # "EMPTY" => a.table[j].ip # ip
    BY <1>6
  <2>12. EntryOK(e, ann)
    BY DEF EntryOK, StableState
  <2>13. Found(a, f, ip, ann)
    BY <2>1, <2>2, <2>6, <2>8, <2>10, <2>11, <2>12 DEF Found
  <2> QED BY <2>1, <2>13 DEF f
<1> QED BY <1>4, <1>5, <1>6

\* A table in which entry i becomes e.
LEMMA PutFacts ==
  ASSUME NEW t \in ArpTable, NEW i \in Index, NEW e \in ArpEntry, NEW ann, NEW u,
         u = [t EXCEPT ![i] = e],
         \A j \in Index : j # i => EntryOK(t[j], ann),
         \A j, k \in Index :
           j # i /\ k # i /\ j # k /\ t[j].state # "EMPTY" /\ t[k].state # "EMPTY"
             => t[j].ip # t[k].ip,
         \A j \in Index : j # i /\ t[j].state # "EMPTY" => t[j].ip # e.ip,
         EntryOK(e, ann)
  PROVE  /\ u \in ArpTable /\ TableOK(u, ann)
         /\ KeptIn(u) = KeptIn(t) - Kept(t[i].q) + Kept(e.q)
<1>1. u \in ArpTable /\ u[i] = e /\ \A j \in Index : j # i => u[j] = t[j]
  BY DEF ArpTable
<1>2. TableOK(u, ann)
  BY <1>1 DEF TableOK, Unique
<1>3. KeptIn(u) = KeptIn(t) - Kept(t[i].q) + Kept(u[i].q)
  BY <1>1, KeptChange
<1> QED BY <1>1, <1>2, <1>3

\* What was found may become any entry for ip.
LEMMA FoundPut ==
  ASSUME NEW a, NEW ann, ArpOK(a, ann), NEW ip, NEW f, NEW ann0, Found(a, f, ip, ann0),
         NEW ann2, \A h \in Hosts : h # ip => ann2[h] = ann[h],
         NEW e \in ArpEntry, e.ip = ip, EntryOK(e, ann2), NEW u, u = [f.a.table EXCEPT ![f.i] = e]
  PROVE  /\ u \in ArpTable /\ TableOK(u, ann2)
         /\ KeptIn(u) = KeptIn(f.a.table) - Kept(f.a.table[f.i].q) + Kept(e.q)
<1> DEFINE t == f.a.table
           i == f.i
<1>1. /\ f.a \in ArpRecord /\ i \in Index
      /\ \A j \in Index : j # i => t[j] = a.table[j]
      /\ \A j \in Index : j # i /\ a.table[j].state # "EMPTY" => a.table[j].ip # ip
  BY DEF Found
<1>2. t \in ArpTable
  BY <1>1, ArpTypes
<1>3. Unique(a.table) /\ \A j \in Index : EntryOK(a.table[j], ann)
  BY DEF ArpOK, TableOK
<1> HIDE DEF t, i
<1>4. \A j \in Index : j # i => EntryOK(t[j], ann2)
  <2> SUFFICES ASSUME NEW j \in Index, j # i PROVE EntryOK(t[j], ann2)
    OBVIOUS
  <2>1. t[j] = a.table[j] /\ EntryOK(t[j], ann) /\ (t[j].state # "EMPTY" => t[j].ip # ip)
    BY <1>1, <1>3
  <2> QED BY <2>1 DEF EntryOK, StableState
<1>5. \A j, k \in Index :
         j # i /\ k # i /\ j # k /\ t[j].state # "EMPTY" /\ t[k].state # "EMPTY"
           => t[j].ip # t[k].ip
  <2> SUFFICES ASSUME NEW j \in Index, NEW k \in Index, j # i, k # i, j # k,
                      t[j].state # "EMPTY", t[k].state # "EMPTY"
               PROVE  t[j].ip # t[k].ip
    OBVIOUS
  <2>1. t[j] = a.table[j] /\ t[k] = a.table[k]
    BY <1>1
  <2> QED BY <1>3, <2>1 DEF Unique
<1>6. \A j \in Index : j # i /\ t[j].state # "EMPTY" => t[j].ip # e.ip
  BY <1>1
<1>7. u = [t EXCEPT ![i] = e]
  BY DEF t, i
<1>8. /\ u \in ArpTable /\ TableOK(u, ann2)
      /\ KeptIn(u) = KeptIn(t) - Kept(t[i].q) + Kept(e.q)
  BY <1>1, <1>2, <1>4, <1>5, <1>6, <1>7, PutFacts
<1> QED BY <1>8 DEF t, i

\* The table as etharp_find_entry() leaves it is in order.
LEMMA FoundOK ==
  ASSUME NEW a, NEW ann, ArpOK(a, ann), NEW ip, NEW f, Found(a, f, ip, ann)
  PROVE  ArpOK(f.a, ann) /\ f.a.table[f.i] \in ArpEntry
<1> DEFINE t == f.a.table
<1>1. f.a \in ArpRecord /\ t \in ArpTable /\ f.i \in Index /\ f.a.sent = a.sent
  BY ArpTypes DEF Found
<1>2. t[f.i] \in ArpEntry
  BY <1>1 DEF ArpTable
<1>3. [t EXCEPT ![f.i] = t[f.i]] = t
  BY <1>1 DEF ArpTable
<1>4. t[f.i].ip = ip /\ EntryOK(t[f.i], ann)
  BY DEF Found
<1>5. TableOK(t, ann)
  BY <1>2, <1>3, <1>4, FoundPut
<1> QED BY <1>1, <1>2, <1>5 DEF ArpOK

\* etharp_input() keeps the table in order: an ARP packet of ip is the latest
\* of it, and what waits for its address leaves for that address.
LEMMA InputFacts ==
  ASSUME NEW a, NEW ann, ArpOK(a, ann), a.sent = {}, DOMAIN ann = Hosts,
         NEW ip \in Hosts, NEW mac \in Macs, NEW for_us \in BOOLEAN
  PROVE  LET b == etharp_input(a, ip, mac, for_us)
         IN  /\ ArpOK(b, [ann EXCEPT ![ip] = mac])
             /\ Held(b) = Held(a) /\ b.freed >= a.freed
<1> DEFINE f == etharp_find_entry(a, ip, for_us)
           e == f.a.table[f.i]
           s == [e EXCEPT !.state = "STABLE", !.mac = mac, !.ctime = 0, !.q = << >>]
           b == etharp_input(a, ip, mac, for_us)
           ann2 == [ann EXCEPT ![ip] = mac]
<1>1. \A h \in Hosts : h # ip => ann2[h] = ann[h]
  OBVIOUS
<1>2. ann2[ip] = mac
  OBVIOUS
<1>3. \/ Found(a, f, ip, ann)
      \/ /\ f.i = 0 /\ f.a = a
         /\ \A j \in Index : a.table[j].state # "EMPTY" => a.table[j].ip # ip
  BY FindFacts
<1>4. b = IF f.i = 0 THEN f.a
          ELSE [f.a EXCEPT !.table[f.i] = s, !.freed = @ + Kept(e.q),
                           !.sent = IF e.q = << >> THEN @ ELSE @ \cup {[ip |-> ip, mac |-> mac]}]
  BY DEF etharp_input, etharp_update_arp_entry
<1> HIDE DEF f, b, ann2
<1>5. CASE Found(a, f, ip, ann)
  <2>1. f.a \in ArpRecord /\ f.i \in Index /\ f.i # 0 /\ f.a.sent = {}
    BY <1>5, Constants DEF Found, Index
  <2>2. f.a.table \in ArpTable /\ f.a.freed \in Int
    BY <2>1, ArpTypes
  <2>3. e \in ArpEntry /\ e.ip = ip
    BY <1>5, <2>1, <2>2 DEF Found, ArpTable
  <2>4. Kept(e.q) \in Nat
    BY <2>1, <2>2, KeptNat
  <2> HIDE DEF e
  <2>6. s \in ArpEntry /\ s.ip = ip /\ s.q = << >> /\ s.state = "STABLE" /\ s.mac = mac
    <3>1. 0 \in 0 .. (ARP_MAXAGE - 1) /\ "STABLE" \in StableState /\ << >> \in Queues
      BY Constants, EntryMade DEF StableState
    <3> QED BY <2>3, <3>1, EntrySet
  <2> HIDE DEF s
  <2>7. EntryOK(s, ann2)
    BY <1>2, <2>6 DEF EntryOK, StableState
  <2> DEFINE u == [f.a.table EXCEPT ![f.i] = s]
             n == f.a.freed + Kept(e.q)
             sent2 == IF e.q = << >> THEN {} ELSE {[ip |-> ip, mac |-> mac]}
  <2>8. /\ u \in ArpTable /\ TableOK(u, ann2)
        /\ KeptIn(u) = KeptIn(f.a.table) - Kept(f.a.table[f.i].q) + Kept(s.q)
    BY <1>1, <1>5, <2>6, <2>7, FoundPut
  <2>9. n \in Int /\ sent2 \subseteq [ip : Hosts, mac : Macs] /\ \A p \in sent2 : p.mac = ann2[p.ip]
    BY <1>2, <2>2, <2>4
  <2>10. b = [f.a EXCEPT !.table = u, !.freed = n, !.sent = sent2]
    BY <1>4, <2>1 DEF ArpRecord
  <2> HIDE DEF u, n, sent2
  <2>11. b \in ArpRecord /\ b.table = u /\ b.freed = n /\ b.sent = sent2
    BY <2>1, <2>8, <2>9, <2>10 DEF ArpRecord
  <2>12. ArpOK(b, ann2)
    BY <2>8, <2>9, <2>11 DEF ArpOK
  <2>13. KeptIn(u) = KeptIn(f.a.table) - Kept(e.q)
    <3>1. KeptIn(f.a.table) \in Nat /\ Kept(s.q) = 0
      BY <2>2, <2>6, KeptNat, EmptyFacts
    <3> QED BY <2>4, <2>8, <3>1 DEF e
  <2>14. Held(b) = Held(f.a) /\ b.freed >= f.a.freed
    <3>1. KeptIn(f.a.table) \in Nat
      BY <2>2, KeptNat
    <3> QED BY <2>2, <2>4, <2>11, <2>13, <3>1 DEF Held, n
  <2>15. Held(f.a) = Held(a) /\ f.a.freed >= a.freed /\ a.freed \in Int
    BY <1>5, ArpTypes DEF Found, ArpOK
  <2>16. b.freed \in Int /\ f.a.freed \in Int
    BY <2>2, <2>11, ArpTypes
  <2> QED BY <2>12, <2>14, <2>15, <2>16 DEF b, ann2
<1>6. CASE /\ f.i = 0 /\ f.a = a
           /\ \A j \in Index : a.table[j].state # "EMPTY" => a.table[j].ip # ip
  <2>1. b = a /\ a \in ArpRecord /\ a.freed \in Int
    BY <1>4, <1>6, ArpTypes DEF ArpOK
  <2>2. \A j \in Index : EntryOK(a.table[j], ann2)
    <3> SUFFICES ASSUME NEW j \in Index PROVE EntryOK(a.table[j], ann2)
      OBVIOUS
    <3>1. EntryOK(a.table[j], ann)
      BY DEF ArpOK, TableOK
    <3> QED BY <1>1, <1>6, <3>1 DEF EntryOK, StableState
  <2>3. ArpOK(b, ann2)
    BY <2>1, <2>2 DEF ArpOK, TableOK
  <2> QED BY <2>1, <2>3 DEF b, ann2
<1> QED BY <1>3, <1>5, <1>6

\* An entry that becomes another one for the same host.
LEMMA ChangeFacts ==
  ASSUME NEW a, NEW ann, ArpOK(a, ann), NEW i \in Index, NEW e \in ArpEntry,
         e.ip = a.table[i].ip, a.table[i].state # "EMPTY", EntryOK(e, ann),
         NEW u, u = [a.table EXCEPT ![i] = e]
  PROVE  /\ u \in ArpTable /\ TableOK(u, ann)
         /\ KeptIn(u) = KeptIn(a.table) - Kept(a.table[i].q) + Kept(e.q)
<1> DEFINE t == a.table
<1>1. t \in ArpTable /\ Unique(t) /\ \A j \in Index : EntryOK(t[j], ann)
  BY ArpTypes DEF ArpOK, TableOK
<1>2. \A j, k \in Index :
        j # i /\ k # i /\ j # k /\ t[j].state # "EMPTY" /\ t[k].state # "EMPTY"
          => t[j].ip # t[k].ip
  BY <1>1 DEF Unique
<1>3. \A j \in Index : j # i /\ t[j].state # "EMPTY" => t[j].ip # e.ip
  BY <1>1 DEF Unique
<1>4. u = [t EXCEPT ![i] = e]
  OBVIOUS
<1> HIDE DEF t
<1>5. /\ u \in ArpTable /\ TableOK(u, ann)
      /\ KeptIn(u) = KeptIn(t) - Kept(t[i].q) + Kept(e.q)
  BY <1>1, <1>2, <1>3, <1>4, PutFacts
<1> QED BY <1>5 DEF t

\* A packet to a host with a stable entry leaves for the address of that entry.
LEMMA ToIndexFacts ==
  ASSUME NEW a, NEW ann, ArpOK(a, ann), NEW ip \in Hosts, NEW i \in Index, NEW ok \in BOOLEAN,
         a.table[i].state \in StableState, a.table[i].ip = ip
  PROVE  LET b == etharp_output_to_arp_index(a, ip, i, ok)
         IN  ArpOK(b, ann) /\ Held(b) = Held(a) /\ b.freed = a.freed
<1> DEFINE e == a.table[i]
           asks == e.state = "STABLE" /\ e.ctime >= ARP_AGE_REREQUEST_USED_UNICAST /\ ok
           s == [e EXCEPT !.state = IF asks THEN "REREQUESTING_1" ELSE @]
           b == etharp_output_to_arp_index(a, ip, i, ok)
           u == [a.table EXCEPT ![i] = s]
           sent2 == a.sent \cup {[ip |-> ip, mac |-> e.mac]}
<1>1. a \in ArpRecord /\ a.table \in ArpTable /\ e \in ArpEntry /\ EntryOK(e, ann)
  <2>1. a.table \in ArpTable
    BY ArpTypes DEF ArpOK
  <2> QED BY <2>1 DEF ArpOK, TableOK, ArpTable
<1>2. s \in ArpEntry /\ s.ip = e.ip /\ s.q = e.q /\ s.mac = e.mac /\ s.state \in StableState
  <2> HIDE DEF e, asks
  <2>1. "REREQUESTING_1" \in StableState /\ e.state \in StableState
    BY DEF StableState, e
  <2> QED BY <1>1, <2>1, EntrySet
<1>3. b = [a EXCEPT !.table = u, !.sent = sent2]
  BY <1>1 DEF etharp_output_to_arp_index, ArpRecord, ArpTable
<1>4. e.ip = ip /\ e.state \in StableState /\ e.state # "EMPTY" /\ e.q = << >>
  BY <1>1 DEF EntryOK, StableState
<1>5. [ip |-> ip, mac |-> e.mac] \in [ip : Hosts, mac : Macs] /\ e.mac = ann[ip]
  BY <1>1, <1>4 DEF EntryOK
<1>6. EntryOK(s, ann)
  BY <1>1, <1>2, <1>4 DEF EntryOK
<1> HIDE DEF b, s, asks
<1>7. u \in ArpTable /\ TableOK(u, ann) /\ KeptIn(u) = KeptIn(a.table) - Kept(e.q) + Kept(s.q)
  BY <1>2, <1>4, <1>6, ChangeFacts
<1>8. /\ sent2 \subseteq [ip : Hosts, mac : Macs]
      /\ \A p \in sent2 : p.mac = ann[p.ip]
  <2>1. a.sent \subseteq [ip : Hosts, mac : Macs] /\ \A p \in a.sent : p.mac = ann[p.ip]
    BY ArpTypes DEF ArpOK
  <2> HIDE DEF e
  <2> QED BY <1>5, <2>1
<1> HIDE DEF u, sent2, e
<1>9. b \in ArpRecord /\ b.table = u /\ b.sent = sent2 /\ b.freed = a.freed
  BY <1>1, <1>3, <1>7, <1>8 DEF ArpRecord
<1>10. KeptIn(u) = KeptIn(a.table)
  <2>1. KeptIn(a.table) \in Nat
    BY <1>1, KeptNat
  <2>2. Kept(e.q) = 0 /\ Kept(s.q) = 0
    BY <1>2, <1>4, EmptyFacts
  <2> QED BY <1>7, <2>1, <2>2
<1> QED BY <1>7, <1>8, <1>9, <1>10 DEF ArpOK, Held, b

\* The entry that a query finds or makes is in use.
LEMMA QueriedFacts ==
  ASSUME NEW a, NEW ann, ArpOK(a, ann), NEW ip \in Hosts
  PROVE  LET g == Queried(a, ip)
         IN  /\ g.i \in Index /\ ArpOK(g.a, ann)
             /\ Held(g.a) = Held(a) /\ g.a.freed >= a.freed /\ g.a.sent = a.sent
             /\ g.a.table[g.i].ip = ip
             /\ g.a.table[g.i].state \in StableState \/ g.a.table[g.i].state = "PENDING"
<1> DEFINE f == etharp_find_entry(a, ip, TRUE)
           e == f.a.table[f.i]
           s == [e EXCEPT !.state = IF @ = "EMPTY" THEN "PENDING" ELSE @]
           u == [f.a.table EXCEPT ![f.i] = s]
           g == Queried(a, ip)
<1>1. f = [i |-> f.i, a |-> f.a] /\ Found(a, f, ip, ann)
  BY FindFacts
<1>2. g = [f EXCEPT !.a.table[f.i].state = IF @ = "EMPTY" THEN "PENDING" ELSE @]
  BY DEF Queried
<1> HIDE DEF f, g
<1>3. f.a \in ArpRecord /\ f.a.table \in ArpTable /\ f.i \in Index
  BY <1>1, ArpTypes DEF Found
<1>4. ArpOK(f.a, ann) /\ e \in ArpEntry
  BY <1>1, FoundOK
<1>5. /\ e.ip = ip /\ EntryOK(e, ann) /\ (e.state = "EMPTY" => e.q = << >>)
      /\ Held(f.a) = Held(a) /\ f.a.freed >= a.freed /\ f.a.sent = a.sent
  BY <1>1 DEF Found
<1>6. g.i = f.i /\ g.a = [f.a EXCEPT !.table = u]
  <2>1. g = [f EXCEPT !.a = [f.a EXCEPT !.table = u]]
    BY <1>1, <1>2, <1>3 DEF ArpRecord, ArpTable
  <2> HIDE DEF u
  <2> QED BY <1>1, <2>1
<1>7. /\ s \in ArpEntry /\ s.ip = e.ip /\ s.mac = e.mac /\ s.q = e.q
      /\ s.state = IF e.state = "EMPTY" THEN "PENDING" ELSE e.state
  <2> HIDE DEF e
  <2> QED BY <1>4, EntrySet
<1>8. e.state \in StableState \cup {"EMPTY", "PENDING"}
  BY <1>4, EntryTypes
<1> HIDE DEF e, s
<1>9. EntryOK(s, ann) /\ (s.state \in StableState \/ s.state = "PENDING")
  BY <1>5, <1>7, <1>8 DEF EntryOK, StableState
<1>10. u \in ArpTable /\ TableOK(u, ann) /\ KeptIn(u) = KeptIn(f.a.table) - Kept(e.q) + Kept(s.q)
  <2>1. ArpOK(a, ann) /\ \A h \in Hosts : h # ip => ann[h] = ann[h]
    OBVIOUS
  <2>2. /\ u \in ArpTable /\ TableOK(u, ann)
        /\ KeptIn(u) = KeptIn(f.a.table) - Kept(f.a.table[f.i].q) + Kept(s.q)
    BY <1>1, <1>5, <1>7, <1>9, <2>1, FoundPut
  <2> QED BY <2>2 DEF e
<1>11. u[f.i] = s
  BY <1>3 DEF ArpTable
<1> HIDE DEF u
<1>12. /\ g.a \in ArpRecord /\ g.a.table = u /\ g.a.freed = f.a.freed /\ g.a.sent = f.a.sent
  BY <1>3, <1>6, <1>10 DEF ArpRecord
<1>13. KeptIn(u) = KeptIn(f.a.table)
  <2>1. KeptIn(f.a.table) \in Nat /\ Kept(e.q) \in Nat
    BY <1>3, KeptNat DEF e
  <2> QED BY <1>7, <1>10, <2>1
<1>14. ArpOK(g.a, ann)
  BY <1>4, <1>10, <1>12 DEF ArpOK
<1> QED BY <1>3, <1>5, <1>6, <1>7, <1>9, <1>11, <1>12, <1>13, <1>14 DEF Held, g

Packet == [n : 0 .. MaxPacket, volatile : BOOLEAN]

\* A packet that waits takes the place of the one before, whose buffers are freed.
LEMMA QueuedFacts ==
  ASSUME NEW a, NEW ann, ArpOK(a, ann), NEW i \in Index, NEW p \in Packet, NEW ok \in BOOLEAN,
         a.table[i].state = "PENDING"
  PROVE  LET b == Queued(a, i, p, ok)
         IN  ArpOK(b, ann) /\ Held(b) = Held(a) /\ b.freed >= a.freed - p.n
<1> DEFINE e == a.table[i]
           n == IF p.volatile THEN 0 ELSE p.n
           s == [e EXCEPT !.q = <<n>>]
           b == Queued(a, i, p, ok)
           u == [a.table EXCEPT ![i] = s]
<1>1. /\ a \in ArpRecord /\ a.table \in ArpTable /\ e \in ArpEntry /\ EntryOK(e, ann)
      /\ a.freed \in Int /\ KeptIn(a.table) \in Nat
  <2>1. a.table \in ArpTable /\ a.freed \in Int /\ KeptIn(a.table) \in Nat
    BY ArpTypes DEF ArpOK
  <2> QED BY <2>1 DEF ArpOK, TableOK, ArpTable
<1>2. p.n \in 0 .. MaxPacket /\ p.n \in Nat /\ p.volatile \in BOOLEAN
  BY Constants DEF Packet
<1>3. n \in 0 .. MaxPacket /\ n \in Nat /\ n <= p.n
  BY <1>2, Constants
<1>4. CASE p.volatile /\ ~ok
  <2>1. b = a
    BY <1>4 DEF Queued
  <2> QED BY <1>1, <1>2, <2>1
<1>5. CASE ~(p.volatile /\ ~ok)
  <2>1. b = [a EXCEPT !.table[i].q = <<n>>, !.freed = @ + Kept(a.table[i].q) - n]
    BY <1>5 DEF Queued
  <2> HIDE DEF n
  <2>2. Kept(e.q) \in Nat
    BY <1>1, KeptNat
  <2>3. s \in ArpEntry /\ s.ip = e.ip /\ s.mac = e.mac /\ s.q = <<n>> /\ s.state = e.state
    <3>1. <<n>> \in Queues
      BY <1>3, EntryMade
    <3> HIDE DEF e
    <3> QED BY <1>1, <3>1, EntrySet
  <2>4. b = [a EXCEPT !.table = u, !.freed = a.freed + Kept(e.q) - n]
    BY <1>1, <2>1 DEF ArpRecord, ArpTable
  <2> HIDE DEF b, s
  <2>5. EntryOK(s, ann)
    BY <1>1, <2>3 DEF EntryOK, StableState
  <2>6. u \in ArpTable /\ TableOK(u, ann) /\ KeptIn(u) = KeptIn(a.table) - Kept(e.q) + Kept(s.q)
    BY <2>3, <2>5, ChangeFacts
  <2>7. Kept(s.q) = n
    BY <2>3 DEF Kept
  <2> DEFINE k == a.freed + Kept(e.q) - n
  <2>8. k \in Int /\ k >= a.freed - p.n
    BY <1>1, <1>2, <1>3, <2>2
  <2> HIDE DEF u, e, k
  <2>9. b \in ArpRecord /\ b.table = u /\ b.sent = a.sent /\ b.freed = k
    BY <1>1, <2>4, <2>6, <2>8 DEF ArpRecord, k
  <2>10. ArpOK(b, ann)
    BY <2>6, <2>9 DEF ArpOK
  <2>11. Held(b) = Held(a)
    BY <1>1, <1>3, <2>2, <2>6, <2>7, <2>9 DEF Held, k
  <2> QED BY <2>8, <2>9, <2>10, <2>11 DEF b
<1> QED BY <1>4, <1>5

\* etharp_output() keeps the table in order, loses no buffer and keeps at most
\* those of the packet.
LEMMA OutputFacts ==
  ASSUME NEW a, NEW ann, ArpOK(a, ann), NEW ip \in Hosts, NEW p \in Packet, NEW ok \in BOOLEAN
  PROVE  LET b == etharp_output(a, ip, p, ok)
         IN  ArpOK(b, ann) /\ Held(b) = Held(a) /\ b.freed >= a.freed - p.n
<1> DEFINE usable == {i \in Index : a.table[i].state \in StableState /\ a.table[i].ip = ip}
           i == IF a.cached \in usable THEN a.cached ELSE Min(usable)
           b == etharp_output(a, ip, p, ok)
<1>1. p.n \in Nat /\ a.freed \in Int /\ a \in ArpRecord
  BY Constants, ArpTypes DEF Packet, ArpOK
<1>2. CASE usable # {}
  <2>1. i \in usable
    <3>1. usable \in SUBSET Nat
      BY Constants
    <3> HIDE DEF usable
    <3> QED BY <1>2, <3>1, MinFacts
  <2> DEFINE c == [a EXCEPT !.cached = i]
  <2>2. b = etharp_output_to_arp_index(c, ip, i, ok)
    BY <1>2 DEF etharp_output
  <2> HIDE DEF i, b
  <2>3. i \in Index /\ a.table[i].state \in StableState /\ a.table[i].ip = ip
    BY <2>1
  <2>4. c \in ArpRecord /\ c.table = a.table /\ c.freed = a.freed /\ c.sent = a.sent
    BY <1>1, <2>3 DEF ArpRecord
  <2> HIDE DEF c, usable
  <2>5. ArpOK(c, ann) /\ Held(c) = Held(a)
    BY <2>4 DEF ArpOK, Held
  <2>6. ArpOK(b, ann) /\ Held(b) = Held(c) /\ b.freed = c.freed
    BY <2>2, <2>3, <2>4, <2>5, ToIndexFacts
  <2> QED BY <1>1, <2>4, <2>5, <2>6 DEF b
<1>3. CASE usable = {}
  <2> DEFINE f == Queried(a, ip)
             e == f.a.table[f.i]
  <2>1. b = IF e.state \in StableState
            THEN [f.a EXCEPT !.cached = f.i, !.sent = @ \cup {[ip |-> ip, mac |-> e.mac]}]
            ELSE Queued(f.a, f.i, p, ok)
    BY <1>3 DEF etharp_output, etharp_query
  <2>2. /\ f.i \in Index /\ ArpOK(f.a, ann)
        /\ Held(f.a) = Held(a) /\ f.a.freed >= a.freed /\ f.a.sent = a.sent
        /\ e.ip = ip /\ (e.state \in StableState \/ e.state = "PENDING")
    BY QueriedFacts
  <2> HIDE DEF f, b
  <2>3. f.a \in ArpRecord /\ f.a.freed \in Int /\ f.a.sent \subseteq [ip : Hosts, mac : Macs]
    BY <2>2, ArpTypes DEF ArpOK
  <2>4. CASE e.state \in StableState
    <3> DEFINE sent2 == f.a.sent \cup {[ip |-> ip, mac |-> e.mac]}
    <3>1. b = [f.a EXCEPT !.cached = f.i, !.sent = sent2]
      BY <2>1, <2>3, <2>4
    <3>2. EntryOK(e, ann)
      BY <2>2 DEF ArpOK, TableOK
    <3>3. e.mac \in Macs /\ e.mac = ann[ip]
      BY <2>2, <2>4, <3>2 DEF EntryOK
    <3>4. sent2 \subseteq [ip : Hosts, mac : Macs] /\ \A x \in sent2 : x.mac = ann[x.ip]
      <4>1. \A x \in f.a.sent : x.mac = ann[x.ip]
        BY <2>2 DEF ArpOK
      <4> HIDE DEF e
      <4> QED BY <2>3, <3>3, <4>1
    <3> HIDE DEF sent2, e
    <3>5. b \in ArpRecord /\ b.table = f.a.table /\ b.freed = f.a.freed /\ b.sent = sent2
      BY <2>2, <2>3, <3>1, <3>4 DEF ArpRecord
    <3>6. ArpOK(b, ann) /\ Held(b) = Held(f.a)
      BY <2>2, <3>4, <3>5 DEF ArpOK, Held
    <3> QED BY <1>1, <2>2, <2>3, <3>5, <3>6 DEF b
  <2>5. CASE e.state \notin StableState
    <3>1. b = Queued(f.a, f.i, p, ok) /\ f.a.table[f.i].state = "PENDING"
      BY <2>1, <2>2, <2>5
    <3>2. ArpOK(b, ann) /\ Held(b) = Held(f.a) /\ b.freed >= f.a.freed - p.n
      BY <2>2, <3>1, QueuedFacts
    <3>3. b.freed \in Int
      BY <3>2, ArpTypes DEF ArpOK
    <3> QED BY <1>1, <2>2, <2>3, <3>2, <3>3 DEF b
  <2> QED BY <2>4, <2>5
<1> QED BY <1>2, <1>3

\* dhcp_check() asks for an address.
LEMMA QueryNullFacts ==
  ASSUME NEW a, NEW ann, ArpOK(a, ann), NEW ip \in Hosts
  PROVE  LET b == etharp_query_null(a, ip)
         IN  ArpOK(b, ann) /\ Held(b) = Held(a) /\ b.freed >= a.freed
  BY QueriedFacts DEF etharp_query_null

\* etharp_tmr() leaves the entries that it does not empty for their hosts, and
\* frees the buffers of those it empties.
LEMMA TmrFacts ==
  ASSUME NEW a, NEW ann, ArpOK(a, ann)
  PROVE  LET b == Tmr(a)
         IN  ArpOK(b, ann) /\ Held(b) = Held(a) /\ b.freed >= a.freed
<1> DEFINE aged == [i \in Index |-> Aged(a.table[i])]
           b == Tmr(a)
<1>1. a \in ArpRecord /\ a.table \in ArpTable /\ a.freed \in Int /\ TableOK(a.table, ann)
  BY ArpTypes DEF ArpOK
<1>2. \A i \in Index :
        LET e == a.table[i]
            g == Aged(e)
        IN  /\ g \in ArpEntry /\ EntryOK(g, ann)
            /\ g.q = e.q \/ g.q = << >>
            /\ g.state # "EMPTY" => e.state # "EMPTY" /\ g.ip = e.ip
  <2> SUFFICES ASSUME NEW i \in Index
               PROVE  LET e == a.table[i]
                          g == Aged(e)
                      IN  /\ g \in ArpEntry /\ EntryOK(g, ann)
                          /\ g.q = e.q \/ g.q = << >>
                          /\ g.state # "EMPTY" => e.state # "EMPTY" /\ g.ip = e.ip
    OBVIOUS
  <2> DEFINE e == a.table[i]
             g == Aged(e)
  <2>1. e \in ArpEntry /\ EntryOK(e, ann)
    BY <1>1 DEF ArpTable, TableOK
  <2>2. e.ctime \in 0 .. (ARP_MAXAGE - 1) /\ e.state \in StableState \cup {"EMPTY", "PENDING"}
    BY <2>1, EntryTypes
  <2> HIDE DEF e
  <2>3. CASE e.state = "EMPTY"
    <3>1. g = e
      BY <2>3 DEF Aged
    <3> QED BY <2>1, <2>3, <3>1 DEF e
  <2>4. CASE e.state # "EMPTY" /\ TooOld(e)
    <3>1. g = Empty
      BY <2>4 DEF Aged
    <3>2. Empty \in ArpEntry /\ Empty.q = << >> /\ Empty.state = "EMPTY"
      BY Constants, EntrySet, EntryMade DEF Empty
    <3>3. EntryOK(Empty, ann)
      BY <3>2 DEF EntryOK, StableState
    <3> QED BY <3>1, <3>2, <3>3 DEF e
  <2>5. CASE e.state # "EMPTY" /\ ~TooOld(e)
    <3> DEFINE st == IF e.state = "REREQUESTING_1" THEN "REREQUESTING_2"
                     ELSE IF e.state = "REREQUESTING_2" THEN "STABLE" ELSE e.state
    <3>1. g = [e EXCEPT !.ctime = @ + 1, !.state = st]
      BY <2>5 DEF Aged
    <3>2. e.ctime + 1 \in 0 .. (ARP_MAXAGE - 1)
      BY <2>2, <2>5, Constants DEF TooOld
    <3>3. st \in StableState \cup {"EMPTY", "PENDING"}
      BY <2>2 DEF StableState
    <3>4. (st \in StableState <=> e.state \in StableState) /\ (e.state = "PENDING" => st = "PENDING")
      BY <2>2 DEF StableState
    <3> DEFINE ct == e.ctime + 1
    <3>5. g = [e EXCEPT !.ctime = ct, !.state = st] /\ ct \in 0 .. (ARP_MAXAGE - 1)
      BY <3>1, <3>2
    <3> HIDE DEF g, st, ct
    <3>6. /\ g \in ArpEntry /\ g.ip = e.ip /\ g.q = e.q /\ g.mac = e.mac /\ g.state = st
      BY <2>1, <3>3, <3>5, EntrySet
    <3>7. EntryOK(g, ann)
      BY <2>1, <2>5, <3>4, <3>6 DEF EntryOK
    <3> QED BY <2>5, <3>6, <3>7 DEF e, g
  <2> QED BY <2>3, <2>4, <2>5
<1>3. aged \in ArpTable
  BY <1>2 DEF ArpTable
<1>4. TableOK(aged, ann)
  <2>1. \A i \in Index : aged[i] = Aged(a.table[i])
    OBVIOUS
  <2>2. Unique(a.table)
    BY <1>1 DEF TableOK
  <2> HIDE DEF aged
  <2> QED BY <1>2, <2>1, <2>2 DEF TableOK, Unique
<1>5. KeptIn(aged) <= KeptIn(a.table) /\ KeptIn(aged) \in Nat /\ KeptIn(a.table) \in Nat
  <2> DEFINE g == [i \in Index |-> Kept(aged[i].q)]
             h == [i \in Index |-> Kept(a.table[i].q)]
  <2>1. \A i \in Index : g[i] \in Nat /\ h[i] \in Nat
    BY <1>1, <1>3, KeptNat
  <2>2. \A i \in Index : g[i] <= h[i]
    <3> SUFFICES ASSUME NEW i \in Index PROVE g[i] <= h[i]
      OBVIOUS
    <3>1. aged[i].q = a.table[i].q \/ aged[i].q = << >>
      BY <1>2
    <3>2. g[i] = h[i] \/ g[i] = 0
      BY <3>1 DEF Kept
    <3> QED BY <2>1, <3>2
  <2>3. KeptIn(aged) = SumFunctionOnSet(g, Index) /\ KeptIn(a.table) = SumFunctionOnSet(h, Index)
    BY DEF KeptIn
  <2> HIDE DEF g, h
  <2>4. SumFunctionOnSet(g, Index) <= SumFunctionOnSet(h, Index)
    BY <2>1, <2>2, Constants, SumLeq
  <2> QED BY <1>1, <1>3, <2>3, <2>4, KeptNat
<1> DEFINE n == a.freed + KeptIn(a.table) - KeptIn(aged)
<1>6. b = [a EXCEPT !.table = aged, !.freed = n]
  BY DEF Tmr
<1>7. n \in Int /\ n >= a.freed /\ n + KeptIn(aged) = a.freed + KeptIn(a.table)
  BY <1>1, <1>5
<1> HIDE DEF n, b, aged
<1>8. b \in ArpRecord /\ b.table = aged /\ b.freed = n /\ b.sent = a.sent
  BY <1>1, <1>3, <1>6, <1>7 DEF ArpRecord
<1> QED BY <1>4, <1>7, <1>8 DEF ArpOK, Held, b

----------------------------------------------------------------------------
(* ICMP and UDP.                                                           *)

\* The outcomes of allocations from the heap
LEMMA OutcomeFacts ==
  /\ HeapOk \subseteq BOOLEAN /\ RecvOk \subseteq BOOLEAN
  /\ \A m \in Outcomes : (m = "sent") \in BOOLEAN
  BY NetAssumption

\* An ICMP message holds no buffers of the pool.
LEMMA IcmpFacts ==
  ASSUME NEW a, NEW ann, ArpOK(a, ann), NEW host \in Hosts, NEW m
  PROVE  LET b == icmp_send_response(a, host, m)
         IN  ArpOK(b, ann) /\ Held(b) = Held(a) /\ b.freed >= a.freed
<1> DEFINE b == icmp_send_response(a, host, m)
           p == [n |-> 0, volatile |-> FALSE]
<1>1. a.freed \in Int
  BY ArpTypes DEF ArpOK
<1>2. CASE m = "no_memory"
  BY <1>1, <1>2 DEF icmp_send_response
<1>3. CASE m # "no_memory"
  <2>1. p \in Packet /\ p.n = 0
    BY Constants DEF Packet
  <2> DEFINE ok == m = "sent"
  <2>2. ok \in BOOLEAN
    OBVIOUS
  <2>3. b = etharp_output(a, host, p, ok)
    BY <1>3 DEF icmp_send_response
  <2> HIDE DEF p, ok, b
  <2>4. ArpOK(b, ann) /\ Held(b) = Held(a) /\ b.freed >= a.freed - p.n
    BY <2>1, <2>2, <2>3, OutputFacts
  <2> QED BY <1>1, <2>1, <2>4 DEF b
<1> QED BY <1>2, <1>3

\* b is the sequence of states in which the first k messages are sent.
IsTold(a, ds, ms, n, b) ==
  b = [k \in 0 .. n |-> IF k = 0 THEN a ELSE icmp_send_response(b[k - 1], Src[ds[k].id], ms[k])]
Told(a, ds, ms) == CHOOSE b : IsTold(a, ds, ms, Len(ds), b)

\* There is such a sequence for every number of messages.
LEMMA ToldExists ==
  ASSUME NEW a, NEW ds, NEW ms
  PROVE  \A n \in Nat : \E b : IsTold(a, ds, ms, n, b)
<1> DEFINE Good(n) == \E b : IsTold(a, ds, ms, n, b)
           T == {n \in Nat : ~Good(n)}
           F(x, k) == icmp_send_response(x, Src[ds[k].id], ms[k])
<1> SUFFICES ASSUME T # {} PROVE FALSE
  OBVIOUS
<1>1. PICK n \in T : \A y \in T : n <= y
  <2>1. T \subseteq Nat
    OBVIOUS
  <2> HIDE DEF T
  <2> QED BY <2>1, LeastNat
<1>2. CASE n = 0
  <2>1. IsTold(a, ds, ms, 0, [k \in 0 .. 0 |-> a])
    BY DEF IsTold
  <2> QED BY <1>1, <1>2, <2>1
<1>3. CASE n # 0
  <2>1. n \in Nat /\ n - 1 \in Nat /\ n - 1 < n
    BY <1>1, <1>3
  <2>2. n - 1 \notin T
    BY <1>1, <2>1
  <2>3. PICK g : IsTold(a, ds, ms, n - 1, g)
    BY <2>1, <2>2
  <2> DEFINE h == [k \in 0 .. n |-> IF k = n THEN F(g[n - 1], n) ELSE g[k]]
  <2> HIDE DEF F
  <2>4. \A k \in 0 .. (n - 1) : g[k] = IF k = 0 THEN a ELSE F(g[k - 1], k)
    BY <2>3 DEF IsTold, F
  <2>5. \A k \in 0 .. n : h[k] = IF k = 0 THEN a ELSE F(h[k - 1], k)
    <3> SUFFICES ASSUME NEW k \in 0 .. n PROVE h[k] = IF k = 0 THEN a ELSE F(h[k - 1], k)
      OBVIOUS
    <3>1. CASE k = n
      <4>1. h[k] = F(g[n - 1], n) /\ h[k - 1] = g[n - 1] /\ k # 0
        BY <1>3, <2>1, <3>1
      <4> QED BY <3>1, <4>1
    <3>2. CASE k # n
      <4>1. k \in 0 .. (n - 1) /\ h[k] = g[k] /\ (k # 0 => h[k - 1] = g[k - 1])
        BY <2>1, <3>2
      <4> QED BY <2>4, <4>1
    <3> QED BY <3>1, <3>2
  <2>6. h = [k \in 0 .. n |-> h[k]]
    OBVIOUS
  <2> HIDE DEF h
  <2>7. h = [k \in 0 .. n |-> IF k = 0 THEN a ELSE F(h[k - 1], k)]
    BY <2>5, <2>6
  <2>8. IsTold(a, ds, ms, n, h)
    BY <2>7 DEF IsTold, F
  <2> QED BY <1>1, <2>8
<1> QED BY <1>2, <1>3

\* The time-exceeded messages hold no buffers of the pool.
LEMMA ExceededFacts ==
  ASSUME NEW a, NEW ann, ArpOK(a, ann), NEW ds \in Seq(Datagram), NEW ms
  PROVE  LET b == icmp_time_exceeded(a, ds, ms)
         IN  ArpOK(b, ann) /\ Held(b) = Held(a) /\ b.freed >= a.freed
<1> DEFINE b == Told(a, ds, ms)
           Good(c) == ArpOK(c, ann) /\ Held(c) = Held(a) /\ c.freed >= a.freed
           T == {k \in 0 .. Len(ds) : ~Good(b[k])}
<1>1. Len(ds) \in Nat /\ IsTold(a, ds, ms, Len(ds), b)
  BY ToldExists DEF Told
<1>2. icmp_time_exceeded(a, ds, ms) = b[Len(ds)]
  BY DEF icmp_time_exceeded, Told, IsTold
<1> HIDE DEF b
<1>3. \A k \in 0 .. Len(ds) :
        b[k] = IF k = 0 THEN a ELSE icmp_send_response(b[k - 1], Src[ds[k].id], ms[k])
  BY <1>1 DEF IsTold
<1>4. a.freed \in Int
  BY ArpTypes DEF ArpOK
<1>5. ASSUME T # {} PROVE FALSE
  <2>1. PICK k \in T : \A y \in T : k <= y
    <3>1. T \subseteq Nat
      OBVIOUS
    <3> HIDE DEF T
    <3> QED BY <1>5, <3>1, LeastNat
  <2>2. CASE k = 0
    <3>1. b[k] = a
      BY <1>1, <1>3, <2>2
    <3> QED BY <1>4, <2>1, <3>1
  <2>3. CASE k # 0
    <3>1. k \in 1 .. Len(ds) /\ k - 1 \in 0 .. Len(ds) /\ k - 1 < k
      BY <1>1, <2>1, <2>3
    <3>2. Good(b[k - 1])
      BY <2>1, <3>1
    <3>3. Src[ds[k].id] \in Hosts
      <4>1. ds[k] \in Datagram
        BY <3>1
      <4>2. ds[k].id \in Ids
        BY <4>1 DEF Datagram
      <4> QED BY <4>2, NetAssumption
    <3>4. b[k] = icmp_send_response(b[k - 1], Src[ds[k].id], ms[k])
      BY <1>3, <2>1, <2>3
    <3>5. ArpOK(b[k], ann) /\ Held(b[k]) = Held(b[k - 1]) /\ b[k].freed >= b[k - 1].freed
      BY <3>2, <3>3, <3>4, IcmpFacts
    <3>6. b[k].freed \in Int /\ b[k - 1].freed \in Int
      BY <3>2, <3>5, ArpTypes DEF ArpOK
    <3>7. Good(b[k])
      BY <1>4, <3>2, <3>5, <3>6
    <3> QED BY <2>1, <3>7
  <2> QED BY <2>2, <2>3
<1>6. Good(b[Len(ds)])
  <2>1. Len(ds) \in 0 .. Len(ds)
    BY <1>1
  <2> QED BY <1>5, <2>1
<1> QED BY <1>2, <1>6

\* udp_server_recv() is given n buffers: it frees them or they wait with its
\* answer, unless there is nothing to print or no memory for it.
LEMMA RecvFacts ==
  ASSUME NEW a, NEW ann, ArpOK(a, ann), NEW src \in Hosts, NEW len, NEW n \in 0 .. MaxPacket,
         NEW mem \in BOOLEAN, NEW ok \in BOOLEAN
  PROVE  LET b == udp_server_recv(a, src, len, n, mem, ok)
         IN  /\ ArpOK(b, ann) /\ b.freed >= a.freed /\ Held(b) <= Held(a) + n
             /\ len # 0 /\ mem => Held(b) = Held(a) + n
<1> DEFINE b == udp_server_recv(a, src, len, n, mem, ok)
           vol == len > Mtu
           p == [n |-> n, volatile |-> vol]
           c == etharp_output(a, src, p, ok)
<1>1. a.freed \in Int /\ Held(a) \in Int /\ n \in Nat
  BY Constants, ArpTypes DEF ArpOK
<1>2. CASE len = 0 \/ ~mem
  <2>1. b = a
    BY <1>2 DEF udp_server_recv
  <2> HIDE DEF b
  <2> QED BY <1>1, <1>2, <2>1 DEF b
<1>3. CASE ~(len = 0 \/ ~mem)
  <2>1. b = [c EXCEPT !.freed = @ + n]
    BY <1>3 DEF udp_server_recv
  <2>2. vol \in BOOLEAN
    OBVIOUS
  <2> HIDE DEF vol, c
  <2>3. p \in Packet /\ p.n = n
    BY <2>2 DEF Packet
  <2> HIDE DEF p, b
  <2>4. ArpOK(c, ann) /\ Held(c) = Held(a) /\ c.freed >= a.freed - n
    BY <2>3, OutputFacts DEF c
  <2>5. c \in ArpRecord /\ c.freed \in Int /\ KeptIn(c.table) \in Nat
    BY <2>4, ArpTypes DEF ArpOK
  <2>6. b \in ArpRecord /\ b.table = c.table /\ b.freed = c.freed + n /\ b.sent = c.sent
    <3> DEFINE k == c.freed + n
    <3>1. k \in Int /\ b = [c EXCEPT !.freed = k]
      BY <1>1, <2>1, <2>5
    <3> HIDE DEF k
    <3>2. b \in ArpRecord /\ b.table = c.table /\ b.freed = k /\ b.sent = c.sent
      BY <2>5, <3>1 DEF ArpRecord
    <3> QED BY <3>2 DEF k
  <2>7. ArpOK(b, ann)
    BY <2>4, <2>6 DEF ArpOK
  <2>8. Held(b) = Held(a) + n /\ b.freed >= a.freed
    BY <1>1, <2>4, <2>5, <2>6 DEF Held
  <2> QED BY <1>1, <2>7, <2>8 DEF b
<1> QED BY <1>2, <1>3

\* The same of udp_input(), which frees a datagram that has no receiver.
LEMMA UdpFacts ==
  ASSUME NEW a, NEW ann, ArpOK(a, ann), NEW src \in Hosts, NEW len, NEW n \in 0 .. MaxPacket,
         NEW mem \in BOOLEAN, NEW ok \in BOOLEAN, NEW m
  PROVE  LET b == udp_input(a, src, len, n, mem, ok, m)
         IN  /\ ArpOK(b, ann) /\ b.freed >= a.freed /\ Held(b) <= Held(a) + n
             /\ len # 0 /\ mem => Held(b) = Held(a) + n
<1> DEFINE b == udp_input(a, src, len, n, mem, ok, m)
           c == icmp_send_response(a, src, m)
<1>1. a.freed \in Int /\ Held(a) \in Int /\ n \in Nat
  BY Constants, ArpTypes DEF ArpOK
<1>2. CASE server
  <2>1. b = udp_server_recv(a, src, len, n, mem, ok)
    BY <1>2 DEF udp_input
  <2> QED BY <2>1, RecvFacts
<1>3. CASE ~server
  <2>1. b = [c EXCEPT !.freed = @ + n]
    BY <1>3 DEF udp_input
  <2> HIDE DEF b, c
  <2>2. ArpOK(c, ann) /\ Held(c) = Held(a) /\ c.freed >= a.freed
    BY IcmpFacts DEF c
  <2>3. c \in ArpRecord /\ c.freed \in Int /\ KeptIn(c.table) \in Nat
    BY <2>2, ArpTypes DEF ArpOK
  <2>4. b \in ArpRecord /\ b.table = c.table /\ b.freed = c.freed + n /\ b.sent = c.sent
    <3> DEFINE k == c.freed + n
    <3>1. k \in Int /\ b = [c EXCEPT !.freed = k]
      BY <1>1, <2>1, <2>3
    <3> HIDE DEF k
    <3>2. b \in ArpRecord /\ b.table = c.table /\ b.freed = k /\ b.sent = c.sent
      BY <2>3, <3>1 DEF ArpRecord
    <3> QED BY <3>2 DEF k
  <2>5. ArpOK(b, ann)
    BY <2>2, <2>4 DEF ArpOK
  <2>6. Held(b) = Held(a) + n /\ b.freed >= a.freed
    BY <1>1, <2>2, <2>3, <2>4 DEF Held
  <2> QED BY <1>1, <2>5, <2>6 DEF b
<1> QED BY <1>2, <1>3

----------------------------------------------------------------------------
(* Fragments and their buffers.                                            *)

\* The fields of a fragment
LEMMA FragmentTypes ==
  ASSUME NEW f \in Fragments
  PROVE  /\ f.id \in Ids /\ f.start \in Nat /\ f.end \in Nat /\ f.last \in BOOLEAN
         /\ f.n \in Nat /\ f.n > 0 /\ f.start < f.end
<1>1. f \in [id : Ids, start : Nat, end : Nat, last : BOOLEAN, n : Nat \ {0}] /\ f.start < f.end
  BY FragmentAssumption
<1> QED BY <1>1

Sizes == [f \in Fragments |-> f.n]

\* The buffers of fragments are the sum of one function; ...
LEMMA PbufsSum ==
  ASSUME NEW F \in SUBSET Fragments, IsFiniteSet(F)
  PROVE  PbufsOf(F) = SumFunctionOnSet(Sizes, F) /\ \A f \in F : Sizes[f] \in Nat
<1> DEFINE g == [f \in F |-> f.n]
<1>1. \A f \in F : g[f] = Sizes[f] /\ Sizes[f] = f.n
  BY DEF Sizes
<1>2. PbufsOf(F) = SumFunctionOnSet(g, F)
  BY DEF PbufsOf
<1> HIDE DEF g
<1>3. SumFunctionOnSet(g, F) = SumFunctionOnSet(Sizes, F)
  BY <1>1, SumEq
<1> QED BY <1>1, <1>2, <1>3, FragmentTypes

\* ... so they add up.
LEMMA PbufsUnion ==
  ASSUME NEW F \in SUBSET Fragments, IsFiniteSet(F), NEW G \in SUBSET Fragments, IsFiniteSet(G),
         F \cap G = {}
  PROVE  PbufsOf(F \cup G) = PbufsOf(F) + PbufsOf(G)
<1> DEFINE H == F \cup G
<1>1. H \in SUBSET Fragments /\ IsFiniteSet(H) /\ F \in SUBSET H /\ G \in SUBSET H
  BY FS_Union
<1> HIDE DEF H
<1>2. \A f \in H : Sizes[f] \in Nat
  BY <1>1, PbufsSum
<1>3. SumFunctionOnSet(Sizes, F \cup G) = SumFunctionOnSet(Sizes, F) + SumFunctionOnSet(Sizes, G)
  BY <1>1, <1>2, SumUnion
<1>4. /\ PbufsOf(H) = SumFunctionOnSet(Sizes, H) /\ PbufsOf(F) = SumFunctionOnSet(Sizes, F)
      /\ PbufsOf(G) = SumFunctionOnSet(Sizes, G)
  BY <1>1, PbufsSum
<1> QED BY <1>3, <1>4 DEF H

\* The buffers of fragments are a number, none for none, and a fragment's own for one.
LEMMA PbufsFacts ==
  /\ \A F \in SUBSET Fragments : IsFiniteSet(F) => PbufsOf(F) \in Nat
  /\ PbufsOf({}) = 0
  /\ \A f \in Fragments : PbufsOf({f}) = f.n
<1>1. ASSUME NEW F \in SUBSET Fragments, IsFiniteSet(F) PROVE PbufsOf(F) \in Nat
  BY <1>1, PbufsSum, SumNat
<1>2. PbufsOf({}) = 0
  BY SumEmpty DEF PbufsOf
<1>3. ASSUME NEW f \in Fragments PROVE PbufsOf({f}) = f.n
  <2> DEFINE S == {f}
  <2>1. IsFiniteSet(S) /\ S \in SUBSET Fragments /\ S # {} /\ Pick(S) = f /\ S \ {f} = {}
    BY FS_Singleton DEF Pick
  <2> HIDE DEF S
  <2>2. PbufsOf(S) = SumFunctionOnSet(Sizes, S)
    BY <2>1, PbufsSum
  <2>3. SumFunctionOnSet(Sizes, S) = Sizes[f] + SumFunctionOnSet(Sizes, {})
    BY <2>1, SumPick
  <2>4. SumFunctionOnSet(Sizes, {}) = 0 /\ Sizes[f] = f.n /\ f.n \in Nat
    BY SumEmpty, FragmentTypes DEF Sizes
  <2> QED BY <2>2, <2>3, <2>4 DEF S
<1> QED BY <1>1, <1>2, <1>3

----------------------------------------------------------------------------
(* Lists of datagrams.                                                     *)

\* No two fragments of a datagram have data in common.
Apart(F) == \A f, g \in F : f # g => f.end <= g.start \/ g.end <= f.start

\* The fragments of a datagram are its own.
DatagramOK(d) ==
  /\ d \in Datagram
  /\ IsFiniteSet(d.frags) /\ Apart(d.frags)
  /\ \A f \in d.frags : f.id = d.id

\* A datagram is in the list once.
ListOK(list) ==
  /\ list \in Seq(Datagram)
  /\ \A i \in DOMAIN list : DatagramOK(list[i])
  /\ \A i, j \in DOMAIN list : i # j => list[i].id # list[j].id

\* All fragments that are held
AllFrags(list) == UNION {list[i].frags : i \in DOMAIN list}

\* The fields of a datagram
LEMMA DatagramTypes ==
  ASSUME NEW d \in Datagram
  PROVE  d.id \in Ids /\ d.timer \in 0 .. IP_REASS_MAXAGE /\ d.frags \in SUBSET Fragments
         /\ d.last \in BOOLEAN
  BY DEF Datagram

\* The elements of a list, and those at two places
LEMMA ListFacts ==
  ASSUME NEW list, ListOK(list)
  PROVE  /\ Len(list) \in Nat /\ DOMAIN list = 1 .. Len(list) /\ IsFiniteSet(DOMAIN list)
         /\ \A i \in DOMAIN list :
              list[i] \in Datagram /\ IsFiniteSet(list[i].frags) /\ list[i].frags \in SUBSET Fragments
         /\ \A i, j \in DOMAIN list : i # j => list[i].frags \cap list[j].frags = {}
         /\ list \in Seq(Datagram)
<1>1. list \in Seq(Datagram) /\ Len(list) \in Nat /\ DOMAIN list = 1 .. Len(list)
  BY DEF ListOK
<1>2. IsFiniteSet(1 .. Len(list))
  BY <1>1, FS_Interval
<1>3. \A i \in DOMAIN list : DatagramOK(list[i])
  BY DEF ListOK
<1>4. \A i \in DOMAIN list :
        list[i] \in Datagram /\ IsFiniteSet(list[i].frags) /\ list[i].frags \in SUBSET Fragments
  BY <1>3, DatagramTypes DEF DatagramOK
<1>5. ASSUME NEW i \in DOMAIN list, NEW j \in DOMAIN list, i # j
      PROVE  list[i].frags \cap list[j].frags = {}
  <2>1. list[i].id # list[j].id
    BY <1>5 DEF ListOK
  <2> QED BY <1>3, <2>1 DEF DatagramOK
<1> QED BY <1>1, <1>2, <1>4, <1>5

\* The buffers of a list are those of all its fragments.
LEMMA PbufsInAll ==
  ASSUME NEW list, ListOK(list)
  PROVE  /\ PbufsIn(list) = PbufsOf(AllFrags(list))
         /\ IsFiniteSet(AllFrags(list)) /\ AllFrags(list) \in SUBSET Fragments
<1> DEFINE D == DOMAIN list
           g == [i \in D |-> PbufsOf(list[i].frags)]
           Of(I) == UNION {list[i].frags : i \in I}
           Good(I) == IsFiniteSet(Of(I)) /\ Of(I) \in SUBSET Fragments
                      /\ SumFunctionOnSet(g, I) = PbufsOf(Of(I))
           Bad == {I \in SUBSET D : ~Good(I)}
<1>1. /\ IsFiniteSet(D)
      /\ \A i \in D : list[i].frags \in SUBSET Fragments /\ IsFiniteSet(list[i].frags)
      /\ \A i, j \in D : i # j => list[i].frags \cap list[j].frags = {}
  BY ListFacts
<1>2. \A i \in D : g[i] \in Nat /\ g[i] = PbufsOf(list[i].frags)
  BY <1>1, PbufsFacts
<1>3. PbufsIn(list) = SumFunctionOnSet(g, D) /\ AllFrags(list) = Of(D)
  BY DEF PbufsIn, AllFrags
<1> HIDE DEF D, g
<1>4. ASSUME Bad # {} PROVE FALSE
  <2>1. PICK I \in Bad : \A U \in Bad : U \subseteq I => U = I
    <3>1. \A I \in Bad : IsFiniteSet(I)
      BY <1>1, FS_Subset
    <3> HIDE DEF Bad
    <3> QED BY <1>4, <3>1, LeastSet
  <2>2. I \in SUBSET D /\ IsFiniteSet(I) /\ ~Good(I)
    BY <1>1, <2>1, FS_Subset
  <2>3. CASE I = {}
    <3>1. Of(I) = {}
      BY <2>3
    <3>2. IsFiniteSet({}) /\ SumFunctionOnSet(g, {}) = 0 /\ PbufsOf({}) = 0
      BY FS_EmptySet, SumEmpty, PbufsFacts
    <3> QED BY <2>2, <2>3, <3>1, <3>2
  <2>4. CASE I # {}
    <3> DEFINE x == Pick(I)
               R == I \ {x}
    <3>1. x \in I /\ x \in D
      BY <2>2, <2>4 DEF Pick
    <3> HIDE DEF x
    <3>2. R \in SUBSET D /\ R # I /\ R \subseteq I
      BY <2>2, <3>1
    <3>3. Good(R)
      BY <2>1, <3>2
    <3>4. SumFunctionOnSet(g, I) = g[x] + SumFunctionOnSet(g, R)
      BY <2>2, <2>4, SumPick DEF x
    <3>5. Of(I) = list[x].frags \cup Of(R)
      BY <3>1
    <3>6. list[x].frags \cap Of(R) = {}
      BY <1>1, <3>1, <3>2
    <3>7. list[x].frags \in SUBSET Fragments /\ IsFiniteSet(list[x].frags)
      BY <1>1, <3>1
    <3> DEFINE A == list[x].frags
               B == Of(R)
    <3>8. B \in SUBSET Fragments /\ IsFiniteSet(B) /\ SumFunctionOnSet(g, R) = PbufsOf(B)
      BY <3>3
    <3> HIDE DEF A, B, R
    <3>9. PbufsOf(A \cup B) = PbufsOf(A) + PbufsOf(B) /\ IsFiniteSet(A \cup B)
      BY <3>6, <3>7, <3>8, PbufsUnion, FS_Union DEF A, B
    <3>10. g[x] = PbufsOf(A)
      BY <1>2, <3>1 DEF A
    <3>11. Of(I) = A \cup B
      BY <3>5 DEF A, B
    <3>12. A \cup B \in SUBSET Fragments
      BY <3>7, <3>8 DEF A
    <3> HIDE DEF Of
    <3> QED BY <2>2, <3>4, <3>8, <3>9, <3>10, <3>11, <3>12
  <2> QED BY <2>3, <2>4
<1>5. Good(D)
  BY <1>4
<1> QED BY <1>3, <1>5

\* t[i] holds those of the first i elements of s that are in S.
IsThose(s, S, n, t) ==
  t = [i \in 0 .. n |-> IF i = 0 THEN << >>
                        ELSE IF s[i] \in S THEN Append(t[i - 1], s[i]) ELSE t[i - 1]]
ThoseOf(s, S) == CHOOSE t : IsThose(s, S, Len(s), t)

\* There is such a function for every length.
LEMMA ThoseExists ==
  ASSUME NEW s, NEW S
  PROVE  \A n \in Nat : \E t : IsThose(s, S, n, t)
<1> DEFINE T == {n \in Nat : ~\E t : IsThose(s, S, n, t)}
           F(x, i) == IF s[i] \in S THEN Append(x, s[i]) ELSE x
<1>0. \A n, t : IsThose(s, S, n, t) <=> t = [i \in 0 .. n |-> IF i = 0 THEN << >> ELSE F(t[i - 1], i)]
  BY DEF IsThose
<1> SUFFICES ASSUME T # {} PROVE FALSE
  OBVIOUS
<1>1. PICK n \in T : \A y \in T : n <= y
  <2>1. T \subseteq Nat
    OBVIOUS
  <2> HIDE DEF T
  <2> QED BY <2>1, LeastNat
<1>2. CASE n = 0
  <2>1. IsThose(s, S, 0, [i \in 0 .. 0 |-> << >>])
    BY DEF IsThose
  <2> QED BY <1>1, <1>2, <2>1
<1>3. CASE n # 0
  <2>1. n \in Nat /\ n - 1 \in Nat /\ n - 1 < n
    BY <1>1, <1>3
  <2>2. n - 1 \notin T
    BY <1>1, <2>1
  <2>3. PICK g : IsThose(s, S, n - 1, g)
    BY <2>1, <2>2
  <2> DEFINE h == [i \in 0 .. n |-> IF i = n THEN F(g[n - 1], n) ELSE g[i]]
  <2> HIDE DEF F
  <2>4. \A i \in 0 .. (n - 1) : g[i] = IF i = 0 THEN << >> ELSE F(g[i - 1], i)
    BY <1>0, <2>3
  <2>5. \A i \in 0 .. n : h[i] = IF i = 0 THEN << >> ELSE F(h[i - 1], i)
    <3> SUFFICES ASSUME NEW i \in 0 .. n PROVE h[i] = IF i = 0 THEN << >> ELSE F(h[i - 1], i)
      OBVIOUS
    <3>1. CASE i = n
      <4>1. h[i] = F(g[n - 1], n) /\ h[i - 1] = g[n - 1] /\ i # 0
        BY <1>3, <2>1, <3>1
      <4> QED BY <3>1, <4>1
    <3>2. CASE i # n
      <4>1. i \in 0 .. (n - 1) /\ h[i] = g[i] /\ (i # 0 => h[i - 1] = g[i - 1])
        BY <2>1, <3>2
      <4> QED BY <2>4, <4>1
    <3> QED BY <3>1, <3>2
  <2>6. h = [i \in 0 .. n |-> h[i]]
    OBVIOUS
  <2> HIDE DEF h
  <2>7. h = [i \in 0 .. n |-> IF i = 0 THEN << >> ELSE F(h[i - 1], i)]
    BY <2>5, <2>6
  <2>8. IsThose(s, S, n, h)
    BY <1>0, <2>7
  <2> QED BY <1>1, <2>8
<1> QED BY <1>2, <1>3

\* Elements of v are among the first n of s, and are those in S.
Filtered(s, S, n, v) ==
  /\ v \in Seq(Datagram) /\ Len(v) <= n
  /\ \A j \in 1 .. Len(v) : \E k \in 1 .. n : v[j] = s[k] /\ s[k] \in S
  /\ \A k \in 1 .. n : s[k] \in S => \E j \in 1 .. Len(v) : v[j] = s[k]
  /\ \A i, j \in 1 .. Len(v) : i # j => v[i].id # v[j].id

\* Those() selects the elements of a set, each where it is once.
LEMMA ThoseFiltered ==
  ASSUME NEW s \in Seq(Datagram), NEW S,
         \A i, j \in DOMAIN s : i # j => s[i].id # s[j].id
  PROVE  Filtered(s, S, Len(s), Those(s, S))
<1> DEFINE t == ThoseOf(s, S)
           Bad == {n \in 0 .. Len(s) : ~Filtered(s, S, n, t[n])}
<1>1. Len(s) \in Nat /\ DOMAIN s = 1 .. Len(s) /\ IsThose(s, S, Len(s), t)
  <2>1. Len(s) \in Nat /\ DOMAIN s = 1 .. Len(s)
    OBVIOUS
  <2>2. \E u : IsThose(s, S, Len(s), u)
    BY <2>1, ThoseExists
  <2> QED BY <2>1, <2>2 DEF ThoseOf
<1>2. Those(s, S) = t[Len(s)]
  BY DEF Those, ThoseOf, IsThose
<1> HIDE DEF t
<1>3. \A i \in 0 .. Len(s) :
        t[i] = IF i = 0 THEN << >>
               ELSE IF s[i] \in S THEN Append(t[i - 1], s[i]) ELSE t[i - 1]
  BY <1>1 DEF IsThose
<1>4. ASSUME Bad # {} PROVE FALSE
  <2>1. PICK n \in Bad : \A y \in Bad : n <= y
    <3>1. Bad \subseteq Nat
      OBVIOUS
    <3> HIDE DEF Bad
    <3> QED BY <1>4, <3>1, LeastNat
  <2>2. n \in 0 .. Len(s) /\ ~Filtered(s, S, n, t[n])
    BY <2>1
  <2>3. CASE n = 0
    <3>1. t[n] = << >>
      BY <1>3, <2>2, <2>3
    <3> QED BY <2>2, <2>3, <3>1 DEF Filtered
  <2>4. CASE n # 0
    <3> DEFINE v == t[n - 1]
               x == s[n]
    <3>1. n \in 1 .. Len(s) /\ n - 1 \in 0 .. Len(s) /\ n - 1 < n /\ n \in Nat
      BY <1>1, <2>2, <2>4
    <3>2. Filtered(s, S, n - 1, v)
      BY <2>1, <3>1
    <3>3. t[n] = IF x \in S THEN Append(v, x) ELSE v
      BY <1>3, <2>2, <2>4
    <3>4. x \in Datagram
      BY <3>1
    <3>5. \A k \in 1 .. (n - 1) : s[k].id # x.id
      BY <1>1, <3>1
    <3> HIDE DEF v
    <3>6. /\ v \in Seq(Datagram) /\ Len(v) <= n - 1 /\ Len(v) \in Nat
          /\ \A j \in 1 .. Len(v) : \E k \in 1 .. (n - 1) : v[j] = s[k] /\ s[k] \in S
          /\ \A k \in 1 .. (n - 1) : s[k] \in S => \E j \in 1 .. Len(v) : v[j] = s[k]
          /\ \A i, j \in 1 .. Len(v) : i # j => v[i].id # v[j].id
      BY <3>2 DEF Filtered
    <3>7. CASE x \notin S
      <4>1. t[n] = v
        BY <3>3, <3>7
      <4>2. \A k \in 1 .. n : k = n \/ k \in 1 .. (n - 1)
        BY <3>1
      <4>3. 1 .. (n - 1) \subseteq 1 .. n /\ Len(v) <= n
        BY <3>1, <3>6
      <4>4. Filtered(s, S, n, v)
        BY <3>6, <3>7, <4>2, <4>3 DEF Filtered
      <4> QED BY <2>2, <4>1, <4>4
    <3>8. CASE x \in S
      <4> DEFINE w == Append(v, x)
                 m == Len(v)
      <4>1. /\ w \in Seq(Datagram) /\ Len(w) = m + 1 /\ w[m + 1] = x
            /\ \A j \in 1 .. m : w[j] = v[j]
        BY <3>4, <3>6
      <4> HIDE DEF w, m
      <4>2. m \in Nat /\ m = Len(v)
        BY <3>6 DEF m
      <4>3. \A j \in 1 .. (m + 1) : j = m + 1 \/ j \in 1 .. m
        BY <4>2
      <4>4. Len(w) <= n
        BY <3>1, <3>6, <4>1, <4>2
      <4>5. \A j \in 1 .. Len(w) : \E k \in 1 .. n : w[j] = s[k] /\ s[k] \in S
        <5> SUFFICES ASSUME NEW j \in 1 .. (m + 1) PROVE \E k \in 1 .. n : w[j] = s[k] /\ s[k] \in S
          BY <4>1
        <5>1. CASE j = m + 1
          BY <3>1, <3>8, <4>1, <5>1
        <5>2. CASE j \in 1 .. m
          <6>1. PICK k \in 1 .. (n - 1) : v[j] = s[k] /\ s[k] \in S
            BY <3>6, <4>2, <5>2
          <6>2. k \in 1 .. n /\ w[j] = v[j]
            BY <3>1, <4>1, <5>2
          <6> QED BY <6>1, <6>2
        <5> QED BY <4>3, <5>1, <5>2
      <4>6. \A k \in 1 .. n : s[k] \in S => \E j \in 1 .. Len(w) : w[j] = s[k]
        <5> SUFFICES ASSUME NEW k \in 1 .. n, s[k] \in S PROVE \E j \in 1 .. (m + 1) : w[j] = s[k]
          BY <4>1
        <5>1. CASE k = n
          BY <4>1, <4>2, <5>1
        <5>2. CASE k # n
          <6>1. k \in 1 .. (n - 1)
            BY <3>1, <5>2
          <6>2. PICK j \in 1 .. m : v[j] = s[k]
            BY <3>6, <4>2, <6>1
          <6>3. j \in 1 .. (m + 1) /\ w[j] = v[j]
            BY <4>1, <4>2
          <6> QED BY <6>2, <6>3
        <5> QED BY <5>1, <5>2
      <4>7. \A j \in 1 .. m : w[j].id # x.id
        <5> SUFFICES ASSUME NEW j \in 1 .. m PROVE w[j].id # x.id
          OBVIOUS
        <5>1. PICK k \in 1 .. (n - 1) : v[j] = s[k]
          BY <3>6, <4>2
        <5> QED BY <3>5, <4>1, <5>1
      <4>8. \A i, j \in 1 .. Len(w) : i # j => w[i].id # w[j].id
        <5> SUFFICES ASSUME NEW i \in 1 .. (m + 1), NEW j \in 1 .. (m + 1), i # j
                     PROVE  w[i].id # w[j].id
          BY <4>1
        <5>1. CASE i = m + 1
          BY <4>1, <4>3, <4>7, <5>1
        <5>2. CASE j = m + 1
          BY <4>1, <4>3, <4>7, <5>2
        <5>3. CASE i \in 1 .. m /\ j \in 1 .. m
          BY <3>6, <4>1, <4>2, <5>3
        <5> QED BY <4>3, <5>1, <5>2, <5>3
      <4>9. Filtered(s, S, n, w)
        BY <4>1, <4>4, <4>5, <4>6, <4>8 DEF Filtered
      <4> QED BY <2>2, <3>3, <3>8, <4>9 DEF w
    <3> QED BY <3>7, <3>8
  <2> QED BY <2>3, <2>4
<1>5. Filtered(s, S, Len(s), t[Len(s)])
  <2>1. Len(s) \in 0 .. Len(s)
    BY <1>1
  <2> QED BY <1>4, <2>1
<1> QED BY <1>2, <1>5

\* The same in terms of sets, for a list of datagrams.
LEMMA ThoseFacts ==
  ASSUME NEW s, ListOK(s), NEW S
  PROVE  LET v == Those(s, S)
         IN  ListOK(v) /\ ToSet(v) = ToSet(s) \cap S /\ Len(v) <= Len(s)
<1> DEFINE v == Those(s, S)
<1>1. /\ s \in Seq(Datagram) /\ \A i, j \in DOMAIN s : i # j => s[i].id # s[j].id
      /\ \A i \in DOMAIN s : DatagramOK(s[i])
  BY DEF ListOK
<1>2. Filtered(s, S, Len(s), v)
  BY <1>1, ThoseFiltered
<1> HIDE DEF v
<1>3. v \in Seq(Datagram) /\ DOMAIN v = 1 .. Len(v) /\ DOMAIN s = 1 .. Len(s)
  BY <1>1, <1>2 DEF Filtered
<1>4. ToSet(v) = ToSet(s) \cap S
  <2>1. ASSUME NEW d \in ToSet(v) PROVE d \in ToSet(s) \cap S
    <3>1. PICK j \in 1 .. Len(v) : d = v[j]
      BY <1>3 DEF ToSet
    <3>2. PICK k \in 1 .. Len(s) : v[j] = s[k] /\ s[k] \in S
      BY <1>2 DEF Filtered
    <3> QED BY <1>3, <3>1, <3>2 DEF ToSet
  <2>2. ASSUME NEW d \in ToSet(s) \cap S PROVE d \in ToSet(v)
    <3>1. PICK k \in 1 .. Len(s) : d = s[k] /\ s[k] \in S
      BY <1>3 DEF ToSet
    <3>2. PICK j \in 1 .. Len(v) : v[j] = s[k]
      BY <1>2, <3>1 DEF Filtered
    <3> QED BY <1>3, <3>1, <3>2 DEF ToSet
  <2> QED BY <2>1, <2>2
<1>5. \A i \in DOMAIN v : DatagramOK(v[i])
  BY <1>1, <1>2, <1>3 DEF Filtered
<1>6. ListOK(v) /\ Len(v) <= Len(s)
  BY <1>2, <1>3, <1>5 DEF ListOK, Filtered
<1> QED BY <1>4, <1>6 DEF v

\* The fragments of a list are those of its elements.
LEMMA AllFragsSet ==
  \A list : AllFrags(list) = UNION {d.frags : d \in ToSet(list)}
  BY DEF AllFrags, ToSet

ReassRecord == [list : Seq(Datagram), count : Int, freed : Int, exceeded : Seq(Datagram),
                up : SUBSET Fragments]

\* The list is in order, counted and within its limit.
ReassOK(r) ==
  /\ r \in ReassRecord
  /\ ListOK(r.list) /\ Len(r.list) <= MEMP_NUM_REASSDATA
  /\ r.count = PbufsIn(r.list)

\* The fields of a Reass record, and what the list holds
LEMMA ReassTypes ==
  ASSUME NEW r, ReassOK(r)
  PROVE  /\ r.list \in Seq(Datagram) /\ Len(r.list) \in Nat /\ DOMAIN r.list = 1 .. Len(r.list)
         /\ r.count \in Nat /\ r.freed \in Int /\ r.exceeded \in Seq(Datagram)
         /\ r.up \in SUBSET Fragments
         /\ MEMP_NUM_REASSDATA \in Nat /\ IP_REASS_MAX_PBUFS \in Nat
<1>1. r.list \in Seq(Datagram) /\ r.freed \in Int /\ r.exceeded \in Seq(Datagram)
      /\ r.up \in SUBSET Fragments
  BY DEF ReassOK, ReassRecord
<1>2. ListOK(r.list) /\ r.count = PbufsIn(r.list)
  BY DEF ReassOK
<1>3. PbufsIn(r.list) \in Nat
  BY <1>2, PbufsInAll, PbufsFacts
<1> QED BY <1>1, <1>2, <1>3, FragmentAssumption

\* ip_reass_free_complete_datagram() of some of the datagrams: they leave the
\* list, and their buffers are counted no more and freed.
LEMMA FreeFacts ==
  ASSUME NEW r, ReassOK(r), NEW gone, ListOK(gone), ToSet(gone) \subseteq ToSet(r.list)
  PROVE  LET b == FreeDatagrams(r, gone)
         IN  /\ ReassOK(b)
             /\ b.freed + b.count = r.freed + r.count /\ b.freed >= r.freed
             /\ ToSet(b.list) = ToSet(r.list) \ ToSet(gone)
             /\ Len(b.list) <= Len(r.list) /\ b.up = r.up
<1> DEFINE b == FreeDatagrams(r, gone)
           new == Those(r.list, ToSet(r.list) \ ToSet(gone))
           G == UNION {d.frags : d \in ToSet(gone)}
           ex == r.exceeded \o Those(gone, {d \in ToSet(gone) : HasFirst(d.frags)})
           k == PbufsOf(G)
<1>1. b = [r EXCEPT !.list = new, !.count = r.count - k, !.freed = r.freed + k, !.exceeded = ex]
  BY DEF FreeDatagrams
<1>2. ListOK(r.list) /\ r \in ReassRecord /\ r.count = PbufsIn(r.list) /\ Len(r.list) <= MEMP_NUM_REASSDATA
  BY DEF ReassOK
<1>3. ListOK(new) /\ ToSet(new) = ToSet(r.list) \ ToSet(gone) /\ Len(new) <= Len(r.list)
  BY <1>2, ThoseFacts
<1>4. ex \in Seq(Datagram)
  <2> DEFINE x == Those(gone, {d \in ToSet(gone) : HasFirst(d.frags)})
  <2>1. ListOK(x)
    BY ThoseFacts
  <2> HIDE DEF x
  <2>2. x \in Seq(Datagram) /\ r.exceeded \in Seq(Datagram)
    BY <2>1, ReassTypes DEF ListOK
  <2>3. r.exceeded \o x \in Seq(Datagram)
    BY <2>2, ConcatProperties
  <2> QED BY <2>3 DEF x
<1>5. G = AllFrags(gone) /\ IsFiniteSet(G) /\ G \in SUBSET Fragments /\ k \in Nat
  BY AllFragsSet, PbufsInAll, PbufsFacts
<1> HIDE DEF b, new, ex, G, k
<1>6. AllFrags(r.list) = AllFrags(new) \cup G
  BY <1>3, <1>5, AllFragsSet
<1>7. AllFrags(new) \cap G = {}
  <2> SUFFICES ASSUME NEW d \in ToSet(new), NEW e \in ToSet(gone), NEW f \in d.frags, f \in e.frags
               PROVE  FALSE
    BY <1>5, AllFragsSet
  <2>1. d \in ToSet(r.list) /\ e \in ToSet(r.list) /\ d # e
    BY <1>3
  <2>2. PICK i \in DOMAIN r.list, j \in DOMAIN r.list : d = r.list[i] /\ e = r.list[j]
    BY <2>1 DEF ToSet
  <2>3. i # j
    BY <2>1, <2>2
  <2> QED BY <1>2, <2>2, <2>3, ListFacts
<1>8. PbufsIn(r.list) = PbufsIn(new) + k /\ PbufsIn(new) \in Nat
  <2>1. /\ IsFiniteSet(AllFrags(new)) /\ AllFrags(new) \in SUBSET Fragments
        /\ PbufsIn(new) = PbufsOf(AllFrags(new)) /\ PbufsIn(r.list) = PbufsOf(AllFrags(r.list))
    BY <1>2, <1>3, PbufsInAll
  <2>2. PbufsOf(AllFrags(new) \cup G) = PbufsOf(AllFrags(new)) + PbufsOf(G)
    BY <1>5, <1>7, <2>1, PbufsUnion
  <2>3. PbufsOf(AllFrags(new)) \in Nat
    BY <2>1, PbufsFacts
  <2> QED BY <1>6, <2>1, <2>2, <2>3 DEF k
<1>9. r.freed \in Int /\ r.count \in Nat /\ Len(r.list) \in Nat /\ MEMP_NUM_REASSDATA \in Nat
  BY ReassTypes
<1> DEFINE c == r.count - k
           n == r.freed + k
<1>10. c \in Int /\ n \in Int /\ n >= r.freed /\ n + c = r.freed + r.count /\ c = PbufsIn(new)
  BY <1>2, <1>5, <1>8, <1>9
<1>11. new \in Seq(Datagram)
  BY <1>3 DEF ListOK
<1>12. b = [r EXCEPT !.list = new, !.count = c, !.freed = n, !.exceeded = ex]
  BY <1>1
<1> HIDE DEF c, n
<1>13. /\ b \in ReassRecord /\ b.list = new /\ b.count = c /\ b.freed = n /\ b.up = r.up
  BY <1>2, <1>4, <1>10, <1>11, <1>12 DEF ReassRecord
<1>14. Len(new) \in Nat
  BY <1>11
<1>15. Len(new) <= MEMP_NUM_REASSDATA
  BY <1>2, <1>3, <1>9, <1>14
<1>16. ReassOK(b)
  BY <1>3, <1>10, <1>13, <1>15 DEF ReassOK
<1> QED BY <1>3, <1>10, <1>13, <1>16 DEF b

\* Of two datagrams the one that ip_reass_remove_oldest_datagram() takes first
Older(list, i, j) ==
  list[i].timer < list[j].timer \/ (list[i].timer = list[j].timer /\ i > j)
Sorted(list, S, n, s) ==
  s \in [1 .. n -> S] /\ \A k, l \in 1 .. n : k < l => Older(list, s[k], s[l])

\* Of several datagrams there is one that is taken last.
LEMMA YoungestExists ==
  ASSUME NEW list, ListOK(list), NEW S \in SUBSET DOMAIN list, S # {}
  PROVE  \E x \in S : \A y \in S : y # x => Older(list, y, x)
<1> DEFINE Age(i) == IP_REASS_MAXAGE - list[i].timer
           D == {Age(i) : i \in S}
<1>1. IP_REASS_MAXAGE \in Nat /\ S \subseteq Nat
  <2>1. DOMAIN list = 1 .. Len(list)
    BY ListFacts
  <2> QED BY <2>1, FragmentAssumption
<1>2. \A i \in S : list[i].timer \in Nat /\ list[i].timer <= IP_REASS_MAXAGE
  <2> SUFFICES ASSUME NEW i \in S PROVE list[i].timer \in Nat /\ list[i].timer <= IP_REASS_MAXAGE
    OBVIOUS
  <2>1. list[i] \in Datagram
    BY ListFacts
  <2>2. list[i].timer \in 0 .. IP_REASS_MAXAGE
    BY <2>1, DatagramTypes
  <2> QED BY <1>1, <2>2
<1>3. D \subseteq Nat /\ D # {}
  <2>1. \A i \in S : Age(i) \in Nat
    BY <1>1, <1>2
  <2> QED BY <2>1
<1>4. PICK d \in D : \A e \in D : d <= e
  <2> HIDE DEF D
  <2> QED BY <1>3, LeastNat
<1> DEFINE E == {i \in S : Age(i) = d}
<1>5. E \subseteq Nat /\ E # {}
  BY <1>1, <1>4
<1>6. PICK x \in E : \A y \in E : x <= y
  <2> HIDE DEF E
  <2> QED BY <1>5, LeastNat
<1>7. x \in S /\ Age(x) = d
  BY <1>6
<1>8. ASSUME NEW y \in S, y # x PROVE Older(list, y, x)
  <2>1. Age(x) <= Age(y)
    BY <1>4, <1>7
  <2>2. /\ list[x].timer \in Nat /\ list[y].timer \in Nat /\ x \in Nat /\ y \in Nat
        /\ IP_REASS_MAXAGE \in Nat
    BY <1>1, <1>2, <1>7
  <2>3. list[y].timer <= list[x].timer
    BY <2>1, <2>2
  <2>4. list[y].timer = list[x].timer => x <= y
    BY <1>6, <1>7
  <2> QED BY <1>8, <2>2, <2>3, <2>4 DEF Older
<1> QED BY <1>7, <1>8

\* Every set of datagrams can be sorted.
LEMMA OrderExists ==
  ASSUME NEW list, ListOK(list), NEW S \in SUBSET DOMAIN list
  PROVE  \E s : Sorted(list, S, Cardinality(S), s)
<1> DEFINE Bad == {T \in SUBSET S : ~\E s : Sorted(list, T, Cardinality(T), s)}
<1>1. \A T \in SUBSET S : IsFiniteSet(T) /\ Cardinality(T) \in Nat
  <2>1. IsFiniteSet(S)
    BY ListFacts, FS_Subset
  <2> QED BY <2>1, FS_Subset, FS_CardinalityType
<1>2. ASSUME Bad # {} PROVE FALSE
  <2>1. PICK T \in Bad : \A U \in Bad : U \subseteq T => U = T
    <3>1. \A T \in Bad : IsFiniteSet(T)
      BY <1>1
    <3> HIDE DEF Bad
    <3> QED BY <1>2, <3>1, LeastSet
  <2>2. T \in SUBSET S /\ IsFiniteSet(T) /\ Cardinality(T) \in Nat
    BY <1>1, <2>1
  <2> DEFINE n == Cardinality(T)
  <2>3. CASE T = {}
    <3>1. n = 0
      BY <2>3, FS_EmptySet
    <3>2. Sorted(list, T, 0, [k \in 1 .. 0 |-> k])
      BY DEF Sorted
    <3> QED BY <2>1, <3>1, <3>2
  <2>4. CASE T # {}
    <3>1. PICK x \in T : \A y \in T : y # x => Older(list, y, x)
      BY <2>2, <2>4, YoungestExists
    <3> DEFINE R == T \ {x}
    <3>2. R \in SUBSET S /\ R # T /\ R \subseteq T
      BY <2>2
    <3>3. Cardinality(R) = n - 1
      BY <2>2, FS_RemoveElement
    <3>4. n \in Nat /\ n # 0
      BY <2>2, <2>4, FS_EmptySet
    <3>5. PICK s : Sorted(list, R, n - 1, s)
      BY <2>1, <3>2, <3>3
    <3> HIDE DEF n
    <3> DEFINE u == [k \in 1 .. n |-> IF k = n THEN x ELSE s[k]]
    <3>6. /\ \A k \in 1 .. n : k = n \/ k \in 1 .. (n - 1)
          /\ \A k \in 1 .. (n - 1) : s[k] \in T /\ s[k] # x
      BY <3>4, <3>5 DEF Sorted
    <3>7. u \in [1 .. n -> T]
      BY <3>6
    <3>8. \A k, l \in 1 .. n : k < l => Older(list, u[k], u[l])
      <4> SUFFICES ASSUME NEW k \in 1 .. n, NEW l \in 1 .. n, k < l
                   PROVE  Older(list, u[k], u[l])
        OBVIOUS
      <4>1. k \in 1 .. (n - 1) /\ u[k] = s[k]
        BY <3>4
      <4>2. CASE l = n
        <5>1. u[l] = x
          BY <4>2
        <5> QED BY <3>1, <3>6, <4>1, <5>1
      <4>3. CASE l # n
        <5>1. l \in 1 .. (n - 1) /\ u[l] = s[l]
          BY <3>4, <4>3
        <5> HIDE DEF u
        <5> QED BY <3>5, <4>1, <5>1 DEF Sorted
      <4> QED BY <4>2, <4>3
    <3> HIDE DEF u
    <3>9. Sorted(list, T, n, u)
      BY <3>7, <3>8 DEF Sorted
    <3> QED BY <2>1, <3>9 DEF n
  <2> QED BY <2>3, <2>4
<1> QED BY <1>2

\* ip_reass_remove_oldest_datagram() removes some of the other datagrams.
LEMMA RemoveFacts ==
  ASSUME NEW r, ReassOK(r), NEW id, NEW needed
  PROVE  LET b == RemoveOldest(r, id, needed)
         IN  /\ ReassOK(b)
             /\ b.freed + b.count = r.freed + r.count /\ b.freed >= r.freed
             /\ ToSet(b.list) \subseteq ToSet(r.list)
             /\ \A d \in ToSet(r.list) : d.id = id => d \in ToSet(b.list)
             /\ Len(b.list) <= Len(r.list) /\ b.up = r.up
<1> DEFINE OlderThan(i, j) == \/ r.list[i].timer < r.list[j].timer
                              \/ r.list[i].timer = r.list[j].timer /\ i > j
           others == Others(r.list, id)
           FreedBefore(i) == SumFunctionOnSet([j \in others |-> PbufsOf(r.list[j].frags)],
                                              {j \in others : OlderThan(j, i)})
           removed == {i \in others : FreedBefore(i) < needed}
           order == CHOOSE s \in [1 .. Cardinality(removed) -> removed] :
                      \A k, l \in DOMAIN s : k < l => OlderThan(s[k], s[l])
           gone == [k \in DOMAIN order |-> r.list[order[k]]]
           b == RemoveOldest(r, id, needed)
<1>1. b = FreeDatagrams(r, gone)
  BY DEF RemoveOldest
<1>2. ListOK(r.list) /\ r \in ReassRecord
  BY DEF ReassOK
<1>3. removed \in SUBSET DOMAIN r.list /\ \A i \in removed : r.list[i].id # id
  BY DEF Others
<1> HIDE DEF removed
<1> DEFINE n == Cardinality(removed)
           P(s) == \A k, l \in DOMAIN s : k < l => OlderThan(s[k], s[l])
<1>4. \A s \in [1 .. n -> removed] : P(s) <=> Sorted(r.list, removed, n, s)
  BY DEF Sorted, Older
<1>5. \E s \in [1 .. n -> removed] : P(s)
  <2>1. PICK s : Sorted(r.list, removed, n, s)
    BY <1>2, <1>3, OrderExists
  <2>2. s \in [1 .. n -> removed]
    BY <2>1 DEF Sorted
  <2> QED BY <1>4, <2>1, <2>2
<1>6. order = CHOOSE s \in [1 .. n -> removed] : P(s)
  OBVIOUS
<1> HIDE DEF P, order, OlderThan
<1>7. order \in [1 .. n -> removed] /\ Sorted(r.list, removed, n, order)
  BY <1>4, <1>5, <1>6
<1>8. n \in Nat
  <2>1. IsFiniteSet(removed)
    BY <1>2, <1>3, ListFacts, FS_Subset
  <2> QED BY <2>1, FS_CardinalityType
<1> HIDE DEF n
<1>9. DOMAIN order = 1 .. n /\ \A k \in 1 .. n : order[k] \in DOMAIN r.list /\ r.list[order[k]].id # id
  BY <1>3, <1>7
<1>10. \A k, l \in 1 .. n : k # l => order[k] # order[l]
  <2>1. DOMAIN r.list \subseteq Nat
    BY <1>2, ListFacts
  <2>2. \A k, l \in 1 .. n : k < l => order[k] # order[l]
    <3> SUFFICES ASSUME NEW k \in 1 .. n, NEW l \in 1 .. n, k < l, order[k] = order[l] PROVE FALSE
      OBVIOUS
    <3>1. Older(r.list, order[k], order[k])
      BY <1>7 DEF Sorted
    <3>2. order[k] \in Nat /\ r.list[order[k]] \in Datagram
      BY <1>2, <1>9, <2>1, ListFacts
    <3>3. r.list[order[k]].timer \in 0 .. IP_REASS_MAXAGE
      BY <3>2, DatagramTypes
    <3> QED BY <3>1, <3>2, <3>3, FragmentAssumption DEF Older
  <2>3. \A k, l \in 1 .. n : k < l \/ k = l \/ l < k
    BY <1>8
  <2> QED BY <2>2, <2>3
<1>11. ListOK(gone) /\ ToSet(gone) \subseteq ToSet(r.list) /\ \A d \in ToSet(gone) : d.id # id
  <2>1. gone = [k \in 1 .. n |-> r.list[order[k]]]
    BY <1>9
  <2>2. \A k \in 1 .. n : r.list[order[k]] \in Datagram
    BY <1>2, <1>9, ListFacts
  <2>3. gone \in Seq(Datagram) /\ DOMAIN gone = 1 .. n
    BY <1>8, <2>1, <2>2
  <2>4. \A k \in 1 .. n : gone[k] = r.list[order[k]]
    BY <2>1
  <2> HIDE DEF gone
  <2>5. \A k \in DOMAIN gone : DatagramOK(gone[k])
    BY <1>2, <1>9, <2>3, <2>4 DEF ListOK
  <2>6. \A k, l \in DOMAIN gone : k # l => gone[k].id # gone[l].id
    BY <1>2, <1>9, <1>10, <2>3, <2>4 DEF ListOK
  <2>7. ListOK(gone)
    BY <2>3, <2>5, <2>6 DEF ListOK
  <2> QED BY <1>9, <2>3, <2>4, <2>7 DEF ToSet
<1> HIDE DEF gone, b
<1>12. /\ ReassOK(b)
       /\ b.freed + b.count = r.freed + r.count /\ b.freed >= r.freed
       /\ ToSet(b.list) = ToSet(r.list) \ ToSet(gone)
       /\ Len(b.list) <= Len(r.list) /\ b.up = r.up
  BY <1>1, <1>11, FreeFacts
<1> QED BY <1>11, <1>12 DEF b

Replaced(list, i, d) == [list EXCEPT ![i] = d]

\* A datagram in the list that becomes another one with the same id.
LEMMA ListPut ==
  ASSUME NEW list, ListOK(list), NEW i \in DOMAIN list, NEW d, DatagramOK(d), d.id = list[i].id
  PROVE  LET l == Replaced(list, i, d)
         IN  /\ ListOK(l) /\ Len(l) = Len(list) /\ DOMAIN l = DOMAIN list
             /\ l[i] = d /\ \A j \in DOMAIN list : j # i => l[j] = list[j]
<1> DEFINE l == Replaced(list, i, d)
<1>1. list \in Seq(Datagram) /\ DOMAIN list = 1 .. Len(list) /\ d \in Datagram
  BY DEF ListOK, DatagramOK
<1>2. /\ l \in Seq(Datagram) /\ Len(l) = Len(list) /\ DOMAIN l = DOMAIN list
      /\ l[i] = d /\ \A j \in DOMAIN list : j # i => l[j] = list[j]
  BY <1>1 DEF Replaced
<1> HIDE DEF l
<1>3. ListOK(l)
  BY <1>2 DEF ListOK
<1> QED BY <1>2, <1>3 DEF l

\* A new datagram in front of the list
LEMMA ListCons ==
  ASSUME NEW list, ListOK(list), NEW d, DatagramOK(d), \A i \in DOMAIN list : list[i].id # d.id
  PROVE  LET l == Cons(d, list)
         IN  /\ ListOK(l) /\ Len(l) = Len(list) + 1 /\ l[1] = d /\ Tail(l) = list
             /\ \A i \in 2 .. Len(l) : i - 1 \in DOMAIN list /\ l[i] = list[i - 1]
<1> DEFINE l == Cons(d, list)
<1>0. l = <<d>> \o list
  BY DEF Cons
<1> SUFFICES /\ ListOK(l) /\ Len(l) = Len(list) + 1 /\ l[1] = d /\ Tail(l) = list
             /\ \A i \in 2 .. Len(l) : i - 1 \in DOMAIN list /\ l[i] = list[i - 1]
  OBVIOUS
<1> HIDE DEF l
<1>1. list \in Seq(Datagram) /\ Len(list) \in Nat /\ DOMAIN list = 1 .. Len(list)
  BY DEF ListOK
<1>2. <<d>> \in Seq(Datagram) /\ Len(<<d>>) = 1 /\ <<d>>[1] = d
  BY DEF DatagramOK
<1>3. /\ l \in Seq(Datagram) /\ Len(l) = Len(list) + 1
      /\ \A i \in 1 .. Len(list) + 1 : l[i] = IF i <= 1 THEN <<d>>[1] ELSE list[i - 1]
  <2>1. \A i \in 1 .. 1 : <<d>>[i] = d
    BY <1>2
  <2> DEFINE s == <<d>>
  <2>2. s \in Seq(Datagram) /\ Len(s) = 1 /\ s[1] = d
    BY <1>2
  <2>3. l = s \o list
    BY <1>0
  <2> HIDE DEF s
  <2>4. /\ l \in Seq(Datagram) /\ Len(l) = Len(s) + Len(list)
        /\ \A i \in 1 .. Len(s) + Len(list) : l[i] = IF i <= Len(s) THEN s[i] ELSE list[i - Len(s)]
    BY <1>1, <2>2, <2>3, ConcatProperties
  <2>5. Len(l) = Len(list) + 1
    BY <1>1, <2>2, <2>4
  <2>6. ASSUME NEW i \in 1 .. Len(list) + 1 PROVE l[i] = IF i <= 1 THEN d ELSE list[i - 1]
    <3>1. i \in 1 .. Len(s) + Len(list)
      BY <1>1, <2>2
    <3>2. l[i] = IF i <= 1 THEN s[i] ELSE list[i - 1]
      BY <2>2, <2>4, <3>1
    <3>3. i <= 1 => i = 1
      BY <1>1
    <3> QED BY <2>2, <3>2, <3>3
  <2> QED BY <1>2, <2>4, <2>5, <2>6
<1>4. l[1] = d /\ DOMAIN l = 1 .. Len(list) + 1
  BY <1>1, <1>2, <1>3
<1>5. \A i \in 2 .. Len(list) + 1 : i - 1 \in 1 .. Len(list) /\ l[i] = list[i - 1]
  BY <1>1, <1>3
<1>6. \A i \in DOMAIN l : i = 1 \/ i \in 2 .. Len(list) + 1
  BY <1>1, <1>4
<1>7. \A i \in DOMAIN l : DatagramOK(l[i])
  BY <1>1, <1>4, <1>5, <1>6 DEF ListOK
<1>8. \A i, j \in DOMAIN l : i # j => l[i].id # l[j].id
  <2> SUFFICES ASSUME NEW i \in DOMAIN l, NEW j \in DOMAIN l, i # j PROVE l[i].id # l[j].id
    OBVIOUS
  <2>1. CASE i = 1
    <3>1. j \in 2 .. Len(list) + 1
      BY <1>6, <2>1
    <3> QED BY <1>1, <1>4, <1>5, <2>1, <3>1
  <2>2. CASE j = 1
    <3>1. i \in 2 .. Len(list) + 1
      BY <1>6, <2>2
    <3> QED BY <1>1, <1>4, <1>5, <2>2, <3>1
  <2>3. CASE i # 1 /\ j # 1
    <3>1. i \in 2 .. Len(list) + 1 /\ j \in 2 .. Len(list) + 1
      BY <1>6, <2>3
    <3>2. i - 1 # j - 1 /\ i - 1 \in DOMAIN list /\ j - 1 \in DOMAIN list
      BY <1>1, <1>5, <3>1
    <3>3. list[i - 1].id # list[j - 1].id
      BY <3>2 DEF ListOK
    <3> QED BY <1>5, <3>1, <3>3
  <2> QED BY <2>1, <2>2, <2>3
<1>9. ListOK(l)
  BY <1>3, <1>7, <1>8 DEF ListOK
<1>10. Tail(l) = list
  <2>1. l # << >>
    BY <1>1, <1>3
  <2>2. /\ Tail(l) \in Seq(Datagram) /\ Len(Tail(l)) = Len(l) - 1
        /\ \A i \in 1 .. Len(Tail(l)) : Tail(l)[i] = l[i + 1]
    BY <1>3, <2>1, HeadTailProperties
  <2> DEFINE t == Tail(l)
  <2> HIDE DEF t
  <2>3. t \in Seq(Datagram) /\ Len(t) = Len(list) /\ \A i \in 1 .. Len(list) : t[i] = l[i + 1]
    BY <1>1, <1>3, <2>2 DEF t
  <2>4. \A i \in 1 .. Len(list) : t[i] = list[i]
    <3> SUFFICES ASSUME NEW i \in 1 .. Len(list) PROVE t[i] = list[i]
      OBVIOUS
    <3>1. i + 1 \in 2 .. Len(list) + 1 /\ (i + 1) - 1 = i
      BY <1>1
    <3>2. l[i + 1] = list[(i + 1) - 1]
      BY <1>5, <3>1
    <3> QED BY <2>3, <3>1, <3>2
  <2>5. t = list
    BY <1>1, <2>3, <2>4
  <2> QED BY <2>5 DEF t
<1> QED BY <1>1, <1>3, <1>4, <1>5, <1>9, <1>10

\* The list without the datagram at place i
LEMMA ListRemove ==
  ASSUME NEW list, ListOK(list), NEW i \in DOMAIN list, NEW l, l = RemoveAt(list, i)
  PROVE  /\ ListOK(l) /\ Len(l) <= Len(list)
         /\ ToSet(l) = ToSet(list) \ {list[i]}
<1> DEFINE n == Len(list)
           At(j) == IF j < i THEN j ELSE j + 1
<1>1. list \in Seq(Datagram) /\ n \in Nat /\ DOMAIN list = 1 .. n
  BY DEF ListOK
<1> HIDE DEF n
<1>2. i \in 1 .. n
  BY <1>1
<1>3. l \in Seq(Datagram) /\ Len(l) = n - 1 /\ \A j \in 1 .. (n - 1) : l[j] = list[At(j)]
  <2> DEFINE s == SubSeq(list, 1, i - 1)
             t == SubSeq(list, i + 1, n)
  <2>1. \A j \in 1 .. n : list[j] \in Datagram
    BY <1>1
  <2>2. s \in Seq(Datagram) /\ Len(s) = i - 1 /\ \A j \in 1 .. (i - 1) : s[j] = list[j]
    <3> DEFINE m == i - 1
    <3>1. m \in Nat /\ m = i - 1 /\ \A j \in 1 .. m : list[j] \in Datagram
      BY <1>1, <1>2, <2>1
    <3> HIDE DEF m
    <3>2. /\ SubSeq(list, 1, m) \in Seq(Datagram)
          /\ Len(SubSeq(list, 1, m)) = IF 1 <= m THEN m - 1 + 1 ELSE 0
          /\ \A j \in 1 .. m - 1 + 1 : SubSeq(list, 1, m)[j] = list[1 + j - 1]
      BY <3>1, SubSeqProperties
    <3>3. m - 1 + 1 = m /\ (IF 1 <= m THEN m - 1 + 1 ELSE 0) = m
      BY <3>1
    <3>4. \A j \in 1 .. m : 1 + j - 1 = j
      OBVIOUS
    <3> QED BY <3>2, <3>3, <3>4 DEF m
  <2>3. t \in Seq(Datagram) /\ Len(t) = n - i /\ \A j \in 1 .. (n - i) : t[j] = list[j + i]
    <3> DEFINE m == i + 1
    <3>1. m \in Nat /\ m = i + 1 /\ n \in Int /\ \A j \in m .. n : list[j] \in Datagram
      BY <1>1, <1>2, <2>1
    <3> HIDE DEF m
    <3>2. /\ SubSeq(list, m, n) \in Seq(Datagram)
          /\ Len(SubSeq(list, m, n)) = IF m <= n THEN n - m + 1 ELSE 0
          /\ \A j \in 1 .. n - m + 1 : SubSeq(list, m, n)[j] = list[m + j - 1]
      BY <3>1, SubSeqProperties
    <3>3. n - m + 1 = n - i /\ (IF m <= n THEN n - m + 1 ELSE 0) = n - i
      BY <1>1, <1>2, <3>1
    <3>4. \A j \in 1 .. (n - i) : m + j - 1 = j + i
      BY <1>1, <1>2, <3>1
    <3> QED BY <3>2, <3>3, <3>4 DEF m
  <2>4. l = s \o t
    BY DEF RemoveAt, n
  <2> HIDE DEF s, t
  <2>5. /\ l \in Seq(Datagram) /\ Len(l) = Len(s) + Len(t)
        /\ \A j \in 1 .. Len(s) + Len(t) : l[j] = IF j <= Len(s) THEN s[j] ELSE t[j - Len(s)]
    BY <2>2, <2>3, <2>4, ConcatProperties
  <2>6. Len(s) + Len(t) = n - 1
    BY <1>1, <1>2, <2>2, <2>3
  <2>7. ASSUME NEW j \in 1 .. (n - 1) PROVE l[j] = list[At(j)]
    <3>1. l[j] = IF j <= i - 1 THEN s[j] ELSE t[j - (i - 1)]
      BY <2>2, <2>5, <2>6
    <3>2. CASE j <= i - 1
      <4>1. j \in 1 .. (i - 1) /\ At(j) = j
        BY <1>1, <1>2, <3>2
      <4> QED BY <2>2, <3>1, <3>2, <4>1
    <3>3. CASE ~(j <= i - 1)
      <4>1. j - (i - 1) \in 1 .. (n - i) /\ At(j) = (j - (i - 1)) + i
        BY <1>1, <1>2, <3>3
      <4>2. t[j - (i - 1)] = list[(j - (i - 1)) + i]
        BY <2>3, <4>1
      <4> HIDE DEF At
      <4> QED BY <3>1, <3>3, <4>1, <4>2
    <3> QED BY <3>2, <3>3
  <2> QED BY <2>5, <2>6, <2>7
<1>4. \A j \in 1 .. (n - 1) : At(j) \in 1 .. n /\ At(j) # i
  BY <1>1, <1>2
<1>5. \A j, k \in 1 .. (n - 1) : j # k => At(j) # At(k)
  BY <1>1, <1>2
<1>6. \A k \in 1 .. n : k # i => \E j \in 1 .. (n - 1) : At(j) = k
  <2> SUFFICES ASSUME NEW k \in 1 .. n, k # i PROVE \E j \in 1 .. (n - 1) : At(j) = k
    OBVIOUS
  <2>1. CASE k < i
    <3>1. k \in 1 .. (n - 1) /\ At(k) = k
      BY <1>1, <1>2, <2>1
    <3> QED BY <3>1
  <2>2. CASE ~(k < i)
    <3>1. k - 1 \in 1 .. (n - 1) /\ At(k - 1) = k
      BY <1>1, <1>2, <2>2
    <3> QED BY <3>1
  <2> QED BY <2>1, <2>2
<1> HIDE DEF At
<1>7. DOMAIN l = 1 .. (n - 1) /\ Len(l) <= Len(list)
  BY <1>1, <1>3 DEF n
<1>8. \A j \in DOMAIN l : DatagramOK(l[j])
  BY <1>1, <1>3, <1>4, <1>7 DEF ListOK
<1>9. \A j, k \in DOMAIN l : j # k => l[j].id # l[k].id
  BY <1>1, <1>3, <1>4, <1>5, <1>7 DEF ListOK
<1>10. ListOK(l)
  BY <1>3, <1>8, <1>9 DEF ListOK
<1>11. ToSet(l) = ToSet(list) \ {list[i]}
  <2>1. ASSUME NEW d \in ToSet(l) PROVE d \in ToSet(list) \ {list[i]}
    <3>1. PICK j \in 1 .. (n - 1) : d = l[j]
      BY <1>7 DEF ToSet
    <3>2. d = list[At(j)] /\ At(j) \in DOMAIN list /\ At(j) # i
      BY <1>1, <1>3, <1>4, <3>1
    <3>3. list[At(j)].id # list[i].id
      BY <3>2 DEF ListOK
    <3> QED BY <3>2, <3>3 DEF ToSet
  <2>2. ASSUME NEW d \in ToSet(list) \ {list[i]} PROVE d \in ToSet(l)
    <3>1. PICK k \in 1 .. n : d = list[k] /\ k # i
      BY <1>1 DEF ToSet
    <3>2. PICK j \in 1 .. (n - 1) : At(j) = k
      BY <1>6, <3>1
    <3>3. d = l[j] /\ j \in DOMAIN l
      BY <1>3, <1>7, <3>1, <3>2
    <3> QED BY <3>3 DEF ToSet
  <2> QED BY <2>1, <2>2
<1> QED BY <1>7, <1>10, <1>11

----------------------------------------------------------------------------
(* Reassembly.                                                             *)

\* Datagrams in both lists have lost nothing.
Keeps(l, k) == \A d \in ToSet(l), e \in ToSet(k) : d.id = e.id => d.frags \subseteq e.frags

\* Other datagrams than id were removed from the list of r, and freed.
Shrunk(r, b, id) ==
  /\ ReassOK(b)
  /\ b.freed + b.count = r.freed + r.count /\ b.freed >= r.freed
  /\ ToSet(b.list) \subseteq ToSet(r.list)
  /\ \A d \in ToSet(r.list) : d.id = id => d \in ToSet(b.list)
  /\ Len(b.list) <= Len(r.list) /\ b.up = r.up

\* Nothing removed is a case of it, and so is removing twice.
LEMMA ShrunkFacts ==
  ASSUME NEW r, ReassOK(r), NEW id
  PROVE  /\ Shrunk(r, r, id)
         /\ \A b, c : Shrunk(r, b, id) /\ Shrunk(b, c, id) => Shrunk(r, c, id)
<1>1. Shrunk(r, r, id)
  <2>1. r.freed \in Int /\ Len(r.list) \in Nat
    BY ReassTypes
  <2> QED BY <2>1 DEF Shrunk
<1>2. ASSUME NEW b, NEW c, Shrunk(r, b, id), Shrunk(b, c, id) PROVE Shrunk(r, c, id)
  <2>1. /\ r.freed \in Int /\ Len(r.list) \in Nat /\ b.freed \in Int /\ Len(b.list) \in Nat
        /\ c.freed \in Int /\ Len(c.list) \in Nat
    BY <1>2, ReassTypes DEF Shrunk
  <2>2. c.freed >= r.freed /\ Len(c.list) <= Len(r.list)
    BY <1>2, <2>1 DEF Shrunk
  <2> QED BY <1>2, <2>2 DEF Shrunk
<1> QED BY <1>1, <1>2

\* Elements of a list with the same id are the same.
LEMMA SameElement ==
  ASSUME NEW list, ListOK(list), NEW d \in ToSet(list), NEW e \in ToSet(list), d.id = e.id
  PROVE  d = e
<1>1. PICK i \in DOMAIN list, j \in DOMAIN list : d = list[i] /\ e = list[j]
  BY DEF ToSet
<1> QED BY <1>1 DEF ListOK

\* What remains of a list has lost nothing.
LEMMA ShrunkKeeps ==
  ASSUME NEW l, ListOK(l), NEW k, ToSet(k) \subseteq ToSet(l)
  PROVE  Keeps(l, k)
<1> SUFFICES ASSUME NEW d \in ToSet(l), NEW e \in ToSet(k), d.id = e.id PROVE d.frags \subseteq e.frags
  BY DEF Keeps
<1>1. d = e
  BY SameElement
<1> QED BY <1>1

\* A timer of a datagram runs down in the list without changing what it holds.
LEMMA TimersFacts ==
  ASSUME NEW list, ListOK(list), \A i \in DOMAIN list : list[i].timer # 0,
         NEW l, l = [i \in DOMAIN list |-> [list[i] EXCEPT !.timer = @ - 1]]
  PROVE  /\ ListOK(l) /\ Len(l) = Len(list) /\ DOMAIN l = DOMAIN list /\ PbufsIn(l) = PbufsIn(list)
         /\ \A i \in DOMAIN list : l[i].id = list[i].id /\ l[i].frags = list[i].frags
<1>1. list \in Seq(Datagram) /\ DOMAIN list = 1 .. Len(list) /\ Len(list) \in Nat
  BY DEF ListOK
<1>2. \A i \in DOMAIN list :
        LET d == [list[i] EXCEPT !.timer = @ - 1]
        IN  DatagramOK(d) /\ d.id = list[i].id /\ d.frags = list[i].frags
  <2> SUFFICES ASSUME NEW i \in DOMAIN list
               PROVE  LET d == [list[i] EXCEPT !.timer = @ - 1]
                      IN  DatagramOK(d) /\ d.id = list[i].id /\ d.frags = list[i].frags
    OBVIOUS
  <2> DEFINE c == list[i]
             t == c.timer - 1
             d == [c EXCEPT !.timer = t]
  <2>1. DatagramOK(c) /\ c \in Datagram /\ c.timer # 0
    BY DEF ListOK, DatagramOK
  <2>2. c.timer \in 0 .. IP_REASS_MAXAGE /\ IP_REASS_MAXAGE \in Nat
    BY <2>1, DatagramTypes, FragmentAssumption
  <2>3. t \in 0 .. IP_REASS_MAXAGE
    BY <2>1, <2>2
  <2> HIDE DEF c, t
  <2>4. d \in Datagram /\ d.id = c.id /\ d.frags = c.frags
    BY <2>1, <2>3 DEF Datagram
  <2> HIDE DEF d
  <2>5. DatagramOK(d)
    BY <2>1, <2>4 DEF DatagramOK
  <2> QED BY <2>4, <2>5 DEF c, t, d
<1>3. DOMAIN l = DOMAIN list /\ \A i \in DOMAIN list : DatagramOK(l[i]) /\ l[i].id = list[i].id /\ l[i].frags = list[i].frags
  BY <1>2
<1>4. l \in Seq(Datagram) /\ Len(l) = Len(list)
  <2>1. l = [i \in 1 .. Len(list) |-> l[i]]
    BY <1>1
  <2>2. \A i \in 1 .. Len(list) : l[i] \in Datagram
    BY <1>1, <1>3 DEF DatagramOK
  <2>3. l \in [1 .. Len(list) -> Datagram]
    BY <2>1, <2>2
  <2> QED BY <1>1, <2>3
<1>5. ListOK(l)
  <2>1. \A i, j \in DOMAIN l : i # j => l[i].id # l[j].id
    BY <1>3 DEF ListOK
  <2>2. \A i \in DOMAIN l : DatagramOK(l[i])
    BY <1>3
  <2> QED BY <1>4, <2>1, <2>2 DEF ListOK
<1>6. AllFrags(l) = AllFrags(list)
  BY <1>3 DEF AllFrags
<1>7. PbufsIn(l) = PbufsIn(list)
  BY <1>5, <1>6, PbufsInAll
<1> QED BY <1>3, <1>4, <1>5, <1>7

\* ip_reass_tmr() removes datagrams whose time is over, and frees them.
LEMMA ReassTmrFacts ==
  ASSUME NEW r, ReassOK(r)
  PROVE  LET b == ip_reass_tmr(r)
         IN  /\ ReassOK(b) /\ b.freed + b.count = r.freed + r.count /\ b.freed >= r.freed
             /\ Keeps(r.list, b.list) /\ b.up = r.up
<1> DEFINE gone == Those(r.list, {d \in ToSet(r.list) : d.timer = 0})
           f == FreeDatagrams(r, gone)
           l == [i \in DOMAIN f.list |-> [f.list[i] EXCEPT !.timer = @ - 1]]
           b == ip_reass_tmr(r)
<1>1. b = [f EXCEPT !.list = l]
  BY DEF ip_reass_tmr
<1>2. ListOK(r.list)
  BY DEF ReassOK
<1>3. ListOK(gone) /\ ToSet(gone) = ToSet(r.list) \cap {d \in ToSet(r.list) : d.timer = 0}
  BY <1>2, ThoseFacts
<1>4. \A d \in ToSet(gone) : d.timer = 0
  BY <1>3
<1>5. \A d \in ToSet(r.list) : d.timer = 0 => d \in ToSet(gone)
  BY <1>3
<1>6. ToSet(gone) \subseteq ToSet(r.list)
  BY <1>3
<1> HIDE DEF gone
<1>7. /\ ReassOK(f)
      /\ f.freed + f.count = r.freed + r.count /\ f.freed >= r.freed
      /\ ToSet(f.list) = ToSet(r.list) \ ToSet(gone)
      /\ Len(f.list) <= Len(r.list) /\ f.up = r.up
  BY <1>3, <1>6, FreeFacts
<1> HIDE DEF f, b
<1>8. ListOK(f.list) /\ f \in ReassRecord /\ f.count = PbufsIn(f.list) /\ Len(f.list) <= MEMP_NUM_REASSDATA
  BY <1>7 DEF ReassOK
<1>9. \A i \in DOMAIN f.list : f.list[i].timer # 0
  <2> SUFFICES ASSUME NEW i \in DOMAIN f.list PROVE f.list[i].timer # 0
    OBVIOUS
  <2>1. f.list[i] \in ToSet(f.list)
    BY DEF ToSet
  <2>2. f.list[i] \in ToSet(r.list) /\ f.list[i] \notin ToSet(gone)
    BY <1>7, <2>1
  <2> QED BY <1>5, <2>2
<1>10. /\ ListOK(l) /\ Len(l) = Len(f.list) /\ DOMAIN l = DOMAIN f.list /\ PbufsIn(l) = PbufsIn(f.list)
       /\ \A i \in DOMAIN f.list : l[i].id = f.list[i].id /\ l[i].frags = f.list[i].frags
  <2> DEFINE list == f.list
  <2>1. l = [i \in DOMAIN list |-> [list[i] EXCEPT !.timer = @ - 1]]
    OBVIOUS
  <2>2. ListOK(list) /\ \A i \in DOMAIN list : list[i].timer # 0
    BY <1>8, <1>9
  <2> HIDE DEF list, l
  <2>3. /\ ListOK(l) /\ Len(l) = Len(list) /\ DOMAIN l = DOMAIN list /\ PbufsIn(l) = PbufsIn(list)
        /\ \A i \in DOMAIN list : l[i].id = list[i].id /\ l[i].frags = list[i].frags
    BY <2>1, <2>2, TimersFacts
  <2> QED BY <2>3 DEF list
<1> HIDE DEF l
<1>11. l \in Seq(Datagram)
  BY <1>10 DEF ListOK
<1>12. b \in ReassRecord /\ b.list = l /\ b.count = f.count /\ b.freed = f.freed /\ b.up = f.up
  BY <1>1, <1>8, <1>11 DEF ReassRecord
<1>13. ReassOK(b)
  BY <1>8, <1>10, <1>12 DEF ReassOK
<1>14. Keeps(r.list, l)
  <2> SUFFICES ASSUME NEW d \in ToSet(r.list), NEW e \in ToSet(l), d.id = e.id
               PROVE  d.frags \subseteq e.frags
    BY DEF Keeps
  <2>1. PICK i \in DOMAIN f.list : e = l[i]
    BY <1>10 DEF ToSet
  <2>2. f.list[i] \in ToSet(r.list)
    BY <1>7 DEF ToSet
  <2>3. d = f.list[i]
    BY <1>2, <1>10, <2>1, <2>2, SameElement
  <2> QED BY <1>10, <2>1, <2>3
<1> QED BY <1>7, <1>12, <1>13, <1>14 DEF b

\* The room for a fragment is made at the cost of other datagrams.
LEMMA RoomFacts ==
  ASSUME NEW r, ReassOK(r), NEW f \in Fragments
  PROVE  LET m == Room(r, f)
         IN  Shrunk(r, m.r, f.id) /\ (m.ok => m.r.count + f.n <= IP_REASS_MAX_PBUFS)
<1> DEFINE m == Room(r, f)
           tight == r.count + f.n > IP_REASS_MAX_PBUFS
           made == IF tight THEN RemoveOldest(r, f.id, f.n) ELSE r
<1>1. /\ m.r = made
      /\ m.ok <=> (tight => made.freed > r.freed /\ made.count + f.n <= IP_REASS_MAX_PBUFS)
  BY DEF Room
<1>2. Shrunk(r, RemoveOldest(r, f.id, f.n), f.id)
  BY RemoveFacts DEF Shrunk
<1>3. Shrunk(r, r, f.id)
  BY ShrunkFacts
<1>4. r.count \in Nat /\ f.n \in Nat /\ IP_REASS_MAX_PBUFS \in Nat
  BY ReassTypes, FragmentTypes
<1> HIDE DEF m
<1>5. CASE tight
  <2>1. m.r = RemoveOldest(r, f.id, f.n)
    BY <1>1, <1>5
  <2> QED BY <1>1, <1>2, <1>5, <2>1 DEF m
<1>6. CASE ~tight
  <2>1. m.r = r
    BY <1>1, <1>6
  <2> QED BY <1>3, <1>4, <1>6, <2>1 DEF m
<1> QED BY <1>5, <1>6

\* What ip_reass_enqueue_new_datagram() leaves: x without the new datagram, or
\* with it in front.
LEMMA EnqueueFacts ==
  ASSUME NEW r, ReassOK(r), NEW f \in Fragments, Where(r, f.id) = {}
  PROVE  LET e == Enqueue(r, f)
         IN  \E x : /\ Shrunk(r, x, f.id)
                    /\ \/ e = x /\ Where(e, f.id) = {}
                       \/ /\ ReassOK(e) /\ e.freed = x.freed /\ e.count = x.count /\ e.up = x.up
                          /\ Where(e, f.id) = {1} /\ e.list[1] = NewDatagram(f)
                          /\ ToSet(e.list) \subseteq ToSet(x.list) \cup {NewDatagram(f)}
                          /\ [e EXCEPT !.list = Tail(@)] = x
<1> DEFINE e == Enqueue(r, f)
           full == Len(r.list) = MEMP_NUM_REASSDATA
           made == IF full THEN RemoveOldest(r, f.id, f.n) ELSE r
           enough == full => made.freed - r.freed >= f.n
           d == NewDatagram(f)
<1>1. e = IF enough /\ Len(made.list) < MEMP_NUM_REASSDATA
          THEN [made EXCEPT !.list = <<d>> \o @] ELSE made
  BY DEF Enqueue
<1>2. Shrunk(r, made, f.id)
  <2>1. Shrunk(r, RemoveOldest(r, f.id, f.n), f.id)
    BY RemoveFacts DEF Shrunk
  <2>2. Shrunk(r, r, f.id)
    BY ShrunkFacts
  <2> QED BY <2>1, <2>2
<1> HIDE DEF made, enough, e
<1>3. ReassOK(made) /\ ToSet(made.list) \subseteq ToSet(r.list)
  BY <1>2 DEF Shrunk
<1>4. made \in ReassRecord /\ ListOK(made.list) /\ made.count = PbufsIn(made.list)
  BY <1>3 DEF ReassOK
<1>5. \A i \in DOMAIN made.list : made.list[i].id # f.id
  <2>1. \A c \in ToSet(r.list) : c.id # f.id
    BY DEF Where, ToSet
  <2> QED BY <1>3, <2>1 DEF ToSet
<1>6. CASE e = made
  <2>1. Where(e, f.id) = {}
    BY <1>5, <1>6 DEF Where
  <2> QED BY <1>2, <1>6, <2>1 DEF e
<1>7. CASE e = [made EXCEPT !.list = <<d>> \o @] /\ Len(made.list) < MEMP_NUM_REASSDATA
  <2> DEFINE l == <<d>> \o made.list
  <2>1. DatagramOK(d) /\ d.id = f.id /\ d.frags = {}
    <3>1. d \in Datagram /\ d.id = f.id /\ d.frags = {}
      BY FragmentTypes, FragmentAssumption DEF NewDatagram, Datagram
    <3> HIDE DEF d
    <3> QED BY <3>1, FS_EmptySet DEF DatagramOK, Apart
  <2> HIDE DEF d
  <2>2. /\ ListOK(l) /\ Len(l) = Len(made.list) + 1 /\ l[1] = d /\ Tail(l) = made.list
        /\ \A i \in 2 .. Len(l) : i - 1 \in DOMAIN made.list /\ l[i] = made.list[i - 1]
    <3> DEFINE list == made.list
    <3>1. ListOK(list) /\ \A i \in DOMAIN list : list[i].id # d.id
      BY <1>4, <1>5, <2>1
    <3>2. l = Cons(d, list)
      BY DEF Cons
    <3> HIDE DEF list, l
    <3>3. LET k == Cons(d, list)
          IN  /\ ListOK(k) /\ Len(k) = Len(list) + 1 /\ k[1] = d /\ Tail(k) = list
              /\ \A i \in 2 .. Len(k) : i - 1 \in DOMAIN list /\ k[i] = list[i - 1]
      BY <2>1, <3>1, ListCons
    <3>4. /\ ListOK(l) /\ Len(l) = Len(list) + 1 /\ l[1] = d /\ Tail(l) = list
          /\ \A i \in 2 .. Len(l) : i - 1 \in DOMAIN list /\ l[i] = list[i - 1]
      BY <3>2, <3>3
    <3> QED BY <3>4 DEF list
  <2>3. e = [made EXCEPT !.list = l]
    BY <1>7
  <2> HIDE DEF l
  <2>4. l \in Seq(Datagram) /\ DOMAIN l = 1 .. Len(l) /\ Len(made.list) \in Nat
    BY <1>4, <2>2 DEF ListOK
  <2>5. e \in ReassRecord /\ e.list = l /\ e.count = made.count /\ e.freed = made.freed /\ e.up = made.up
    BY <1>4, <2>3, <2>4 DEF ReassRecord
  <2>6. \A i \in DOMAIN l : i = 1 \/ i \in 2 .. Len(l)
    BY <2>2, <2>4
  <2>7. AllFrags(l) = AllFrags(made.list)
    <3>1. \A i \in DOMAIN l : l[i].frags = {} \/ i \in 2 .. Len(l)
      BY <2>1, <2>2, <2>6
    <3>2. ASSUME NEW x \in AllFrags(l) PROVE x \in AllFrags(made.list)
      <4>1. PICK i \in DOMAIN l : x \in l[i].frags
        BY DEF AllFrags
      <4>2. i \in 2 .. Len(l)
        BY <3>1, <4>1
      <4> QED BY <2>2, <4>1, <4>2 DEF AllFrags
    <3>3. ASSUME NEW x \in AllFrags(made.list) PROVE x \in AllFrags(l)
      <4>1. PICK i \in DOMAIN made.list : x \in made.list[i].frags
        BY DEF AllFrags
      <4>2. i \in 1 .. Len(made.list)
        BY <1>4, <4>1, ListFacts
      <4>3. i + 1 \in 2 .. Len(l) /\ (i + 1) - 1 = i
        BY <2>2, <2>4, <4>2
      <4>4. l[i + 1] = made.list[i] /\ i + 1 \in DOMAIN l
        BY <2>2, <2>4, <4>3
      <4> QED BY <4>1, <4>4 DEF AllFrags
    <3> QED BY <3>2, <3>3
  <2>8. PbufsIn(l) = PbufsIn(made.list)
    BY <1>4, <2>2, <2>7, PbufsInAll
  <2>9. Len(l) <= MEMP_NUM_REASSDATA
    BY <1>7, <2>2, <2>4, FragmentAssumption
  <2>10. ReassOK(e)
    BY <1>4, <2>2, <2>5, <2>8, <2>9 DEF ReassOK
  <2>11. \A i \in 2 .. Len(l) : l[i].id # f.id
    BY <1>5, <2>2
  <2>12. Where(e, f.id) = {1}
    <3>1. 1 \in DOMAIN l
      BY <2>2, <2>4
    <3>2. l[1].id = f.id
      BY <2>1, <2>2
    <3> QED BY <2>5, <2>6, <2>11, <3>1, <3>2 DEF Where
  <2>13. ToSet(l) \subseteq ToSet(made.list) \cup {d}
    BY <2>2, <2>6 DEF ToSet
  <2>14. [e EXCEPT !.list = Tail(@)] = made
    <3> DEFINE c == [e EXCEPT !.list = Tail(@)]
    <3>1. c = [e EXCEPT !.list = made.list]
      BY <2>2, <2>5
    <3>2. c = [made EXCEPT !.list = made.list]
      BY <1>4, <2>3, <3>1 DEF ReassRecord
    <3>3. [made EXCEPT !.list = made.list] = made
      BY <1>4 DEF ReassRecord
    <3> QED BY <3>2, <3>3
  <2> QED BY <1>2, <2>2, <2>5, <2>10, <2>12, <2>13, <2>14 DEF e, d
<1> QED BY <1>1, <1>6, <1>7

\* All the data of a datagram, each byte once
Whole(F) == F \in SUBSET Fragments /\ IsFiniteSet(F) /\ Apart(F) /\ Contiguous(F)

\* One of several fragments reaches furthest.
LEMMA LastExists ==
  ASSUME NEW F \in SUBSET Fragments, IsFiniteSet(F), F # {}
  PROVE  \E g \in F : \A h \in F : h.end <= g.end
<1> DEFINE Bad == {T \in SUBSET F : T # {} /\ ~\E g \in T : \A h \in T : h.end <= g.end}
<1>1. ASSUME Bad # {} PROVE FALSE
  <2>1. PICK T \in Bad : \A U \in Bad : U \subseteq T => U = T
    <3>1. \A T \in Bad : IsFiniteSet(T)
      BY FS_Subset
    <3> HIDE DEF Bad
    <3> QED BY <1>1, <3>1, LeastSet
  <2>2. T \in SUBSET F /\ T # {} /\ ~\E g \in T : \A h \in T : h.end <= g.end
    BY <2>1
  <2>3. PICK x \in T : TRUE
    BY <2>2
  <2> DEFINE R == T \ {x}
  <2>4. \A h \in T : h.end \in Nat
    BY <2>2, FragmentTypes
  <2>5. CASE R = {}
    <3>1. \A h \in T : h.end <= x.end
      BY <2>4, <2>5
    <3> QED BY <2>2, <3>1
  <2>6. CASE R # {}
    <3>1. R \in SUBSET F /\ R # T /\ R \subseteq T
      BY <2>2
    <3>2. PICK g \in R : \A h \in R : h.end <= g.end
      BY <2>1, <2>6, <3>1
    <3>3. g \in T /\ \A h \in T : h = x \/ h.end <= g.end
      BY <3>2
    <3>4. CASE x.end <= g.end
      BY <2>2, <3>3, <3>4
    <3>5. CASE g.end <= x.end
      <4>1. \A h \in T : h.end <= x.end
        BY <2>4, <3>3, <3>5
      <4> QED BY <2>2, <4>1
    <3>6. x.end <= g.end \/ g.end <= x.end
      BY <2>4, <3>3
    <3> QED BY <3>4, <3>5, <3>6
  <2> QED BY <2>5, <2>6
<1> QED BY <1>1

\* The length of fragments is the end of one of them, and is not 0.
LEMMA LengthFacts ==
  ASSUME NEW F \in SUBSET Fragments, IsFiniteSet(F), F # {}
  PROVE  \E g \in F : LengthOf(F) = g.end /\ LengthOf(F) \in Nat /\ LengthOf(F) > 0
<1> DEFINE E == {f.end : f \in F}
<1>1. PICK g \in F : \A h \in F : h.end <= g.end
  BY LastExists
<1>2. \A h \in F : h.end \in Nat /\ h.end > 0
  <2> SUFFICES ASSUME NEW h \in F PROVE h.end \in Nat /\ h.end > 0
    OBVIOUS
  <2>1. h.start \in Nat /\ h.end \in Nat /\ h.start < h.end
    BY FragmentTypes
  <2> QED BY <2>1
<1>3. g.end \in E /\ \A y \in E : g.end >= y
  BY <1>1, <1>2
<1>4. LengthOf(F) = CHOOSE x \in E : \A y \in E : x >= y
  BY DEF LengthOf, Max
<1>5. LengthOf(F) \in E
  <2> HIDE DEF E
  <2> QED BY <1>3, <1>4
<1> QED BY <1>2, <1>5

\* Each byte of a whole datagram is in one fragment: at most one, as they have
\* nothing in common, and in one, for otherwise the first fragment that begins
\* behind the byte would begin where none ends.
LEMMA WholeCovered ==
  ASSUME NEW F, Whole(F), F # {}, NEW b \in 0 .. (LengthOf(F) - 1)
  PROVE  Cardinality({f \in F : f.start <= b /\ b < f.end}) = 1
<1> DEFINE C == {f \in F : f.start <= b /\ b < f.end}
<1>1. F \in SUBSET Fragments /\ IsFiniteSet(F) /\ Apart(F) /\ Contiguous(F)
  BY DEF Whole
<1>2. \A f \in F : f.start \in Nat /\ f.end \in Nat /\ f.start < f.end
  BY <1>1, FragmentTypes
<1>3. PICK last \in F : LengthOf(F) = last.end /\ LengthOf(F) \in Nat
  BY <1>1, LengthFacts
<1>4. b \in Nat /\ b < last.end
  BY <1>3
<1> DEFINE Behind == {f \in F : b < f.end}
           Starts == {f.start : f \in Behind}
<1>5. Starts \subseteq Nat /\ Starts # {}
  BY <1>2, <1>3, <1>4
<1>6. PICK m \in Starts : \A s \in Starts : m <= s
  <2> HIDE DEF Starts
  <2> QED BY <1>5, LeastNat
<1>7. PICK g \in F : b < g.end /\ \A f \in F : b < f.end => g.start <= f.start
  <2>1. PICK g \in Behind : m = g.start
    BY <1>6
  <2>2. \A f \in Behind : g.start <= f.start
    BY <1>6, <2>1
  <2> QED BY <2>1, <2>2
<1>8. g.start <= b
  <2> SUFFICES ASSUME ~(g.start <= b) PROVE FALSE
    OBVIOUS
  <2>1. b < g.start /\ g.start # 0
    BY <1>2, <1>4
  <2>2. PICK h \in F : h.end = g.start
    BY <1>1, <2>1 DEF Contiguous
  <2>3. g.start <= h.start
    BY <1>7, <2>1, <2>2
  <2>4. h.start < h.end /\ h.start \in Nat /\ h.end \in Nat
    BY <1>2
  <2> QED BY <2>2, <2>3, <2>4
<1>9. g \in C
  BY <1>7, <1>8
<1>10. \A f \in C : f = g
  <2> SUFFICES ASSUME NEW f \in F, f.start <= b, b < f.end, f # g PROVE FALSE
    OBVIOUS
  <2>1. f.end <= g.start \/ g.end <= f.start
    BY <1>1 DEF Apart
  <2>2. f.start \in Nat /\ f.end \in Nat /\ g.start \in Nat /\ g.end \in Nat
    BY <1>2
  <2> QED BY <1>4, <1>7, <1>8, <2>1, <2>2
<1>11. C = {g}
  <2> HIDE DEF C
  <2> QED BY <1>9, <1>10
<1> HIDE DEF C
<1>12. Cardinality(C) = 1
  BY <1>11, FS_Singleton
<1> QED BY <1>12 DEF C

Counted(e, l, c) == [e EXCEPT !.list = l, !.count = c]
HandedUp(e, l, c, F) == [e EXCEPT !.list = l, !.count = c, !.up = F]

\* What changes of a Reass record, and what does not
LEMMA CountedFacts ==
  ASSUME NEW e \in ReassRecord, NEW l \in Seq(Datagram), NEW c \in Int
  PROVE  LET a == Counted(e, l, c)
         IN  a \in ReassRecord /\ a.list = l /\ a.count = c /\ a.freed = e.freed /\ a.up = e.up
<1> DEFINE D == Seq(Datagram)
           R == [list : D, count : Int, freed : Int, exceeded : D, up : SUBSET Fragments]
           a == Counted(e, l, c)
<1>1. l \in D /\ e \in R /\ R = ReassRecord
  BY DEF ReassRecord
<1> HIDE DEF D
<1>2. a \in R /\ a.list = l /\ a.count = c /\ a.freed = e.freed /\ a.up = e.up
  BY <1>1 DEF Counted
<1> HIDE DEF R, a
<1>3. a \in ReassRecord /\ a.list = l /\ a.count = c /\ a.freed = e.freed /\ a.up = e.up
  BY <1>1, <1>2
<1> QED BY <1>3 DEF a

\* The same when a datagram goes up
LEMMA HandedUpFacts ==
  ASSUME NEW e \in ReassRecord, NEW l \in Seq(Datagram), NEW c \in Int, NEW F \in SUBSET Fragments
  PROVE  LET a == HandedUp(e, l, c, F)
         IN  a \in ReassRecord /\ a.list = l /\ a.count = c /\ a.freed = e.freed /\ a.up = F
<1> DEFINE D == Seq(Datagram)
           R == [list : D, count : Int, freed : Int, exceeded : D, up : SUBSET Fragments]
           a == HandedUp(e, l, c, F)
<1>1. l \in D /\ e \in R /\ R = ReassRecord
  BY DEF ReassRecord
<1> HIDE DEF D
<1>2. a \in R /\ a.list = l /\ a.count = c /\ a.freed = e.freed /\ a.up = F
  BY <1>1 DEF HandedUp
<1> HIDE DEF R, a
<1>3. a \in ReassRecord /\ a.list = l /\ a.count = c /\ a.freed = e.freed /\ a.up = F
  BY <1>1, <1>2
<1> QED BY <1>3 DEF a

\* A fragment joins its datagram, which leaves the list when it is whole.
LEMMA ChainedFacts ==
  ASSUME NEW e, ReassOK(e), e.up = {}, NEW i \in DOMAIN e.list, NEW f \in Fragments,
         e.list[i].id = f.id, ~Overlaps(e.list[i].frags, f)
  PROVE  LET b == Chained(e, i, f)
         IN  /\ ReassOK(b) /\ b.freed = e.freed
             /\ b.count + PbufsOf(b.up) = e.count + f.n
             /\ b.up = {} \/ Whole(b.up)
             /\ \A x \in ToSet(b.list) : \/ x \in ToSet(e.list) /\ x.id # f.id
                                         \/ x.id = f.id /\ e.list[i].frags \subseteq x.frags
<1> DEFINE d == e.list[i]
           G == d.frags \cup {f}
           whole == (f.last \/ d.last) /\ Contiguous(d.frags \cup {f})
           b == Chained(e, i, f)
<1>1. /\ e \in ReassRecord /\ ListOK(e.list) /\ e.count = PbufsIn(e.list)
      /\ Len(e.list) <= MEMP_NUM_REASSDATA
  BY DEF ReassOK
<1>2. /\ DatagramOK(d) /\ d \in Datagram /\ IsFiniteSet(d.frags) /\ d.frags \in SUBSET Fragments
      /\ Apart(d.frags) /\ d.last \in BOOLEAN /\ \A g \in d.frags : g.id = d.id
  BY <1>1, DatagramTypes DEF ListOK, DatagramOK
<1>3. /\ f.id \in Ids /\ f.start \in Nat /\ f.end \in Nat /\ f.n \in Nat /\ f.last \in BOOLEAN
      /\ f.start < f.end
  BY FragmentTypes
<1>4. f \notin d.frags /\ \A g \in d.frags : f.end <= g.start \/ g.end <= f.start
  <2> SUFFICES ASSUME NEW g \in d.frags PROVE f # g /\ (f.end <= g.start \/ g.end <= f.start)
    OBVIOUS
  <2>1. f.start # g.start /\ ~(f.start < g.end /\ g.start < f.end)
    BY DEF Overlaps
  <2>2. g.start \in Nat /\ g.end \in Nat
    BY <1>2, FragmentTypes
  <2> QED BY <1>3, <2>1, <2>2
<1>5. IsFiniteSet(G) /\ G \in SUBSET Fragments /\ Apart(G) /\ \A g \in G : g.id = f.id
  <2>1. IsFiniteSet(G)
    <3> DEFINE D == d.frags
    <3>1. IsFiniteSet(D)
      BY <1>2
    <3> HIDE DEF D
    <3>2. IsFiniteSet(D \cup {f})
      BY <3>1, FS_AddElement
    <3> QED BY <3>2 DEF D
  <2>2. Apart(G)
    <3> SUFFICES ASSUME NEW g \in G, NEW h \in G, g # h PROVE g.end <= h.start \/ h.end <= g.start
      BY DEF Apart
    <3> QED BY <1>2, <1>4 DEF Apart
  <2> QED BY <1>2, <2>1, <2>2
<1>6. PbufsOf(G) = PbufsOf(d.frags) + f.n /\ PbufsOf(d.frags) \in Nat
  <2> DEFINE D == d.frags
             S == {f}
  <2>1. D \in SUBSET Fragments /\ IsFiniteSet(D) /\ S \in SUBSET Fragments /\ IsFiniteSet(S) /\ D \cap S = {}
    BY <1>2, <1>4, FS_Singleton
  <2>2. PbufsOf(S) = f.n
    BY PbufsFacts
  <2>3. G = D \cup S
    OBVIOUS
  <2> HIDE DEF D, S, G
  <2>4. PbufsOf(D \cup S) = PbufsOf(D) + PbufsOf(S) /\ PbufsOf(D) \in Nat
    BY <2>1, PbufsUnion, PbufsFacts
  <2> QED BY <2>2, <2>3, <2>4 DEF D
<1>7. e.count \in Nat /\ Len(e.list) \in Nat /\ MEMP_NUM_REASSDATA \in Nat
  BY ReassTypes
<1>8. CASE whole
  <2> DEFINE l == RemoveAt(e.list, i)
             c == e.count - PbufsOf(d.frags)
  <2>1. b = HandedUp(e, l, c, G)
    BY <1>8 DEF Chained, HandedUp
  <2>2. ListOK(l) /\ Len(l) <= Len(e.list) /\ ToSet(l) = ToSet(e.list) \ {d}
    <3> DEFINE list == e.list
    <3>1. ListOK(list) /\ i \in DOMAIN list
      BY <1>1
    <3> HIDE DEF list
    <3>2. /\ ListOK(RemoveAt(list, i)) /\ Len(RemoveAt(list, i)) <= Len(list)
          /\ ToSet(RemoveAt(list, i)) = ToSet(list) \ {list[i]}
      BY <3>1, ListRemove
    <3> QED BY <3>2 DEF list
  <2> HIDE DEF l, b
  <2>3. d \in ToSet(e.list)
    BY DEF ToSet
  <2>4. \A x \in ToSet(l) : x \in ToSet(e.list) /\ x.id # f.id
    <3> SUFFICES ASSUME NEW x \in ToSet(l) PROVE x \in ToSet(e.list) /\ x.id # f.id
      OBVIOUS
    <3>1. x \in ToSet(e.list) /\ x # d
      BY <2>2
    <3>2. x.id = d.id => x = d
      BY <1>1, <2>3, <3>1, SameElement
    <3> QED BY <3>1, <3>2
  <2>5. AllFrags(e.list) = AllFrags(l) \cup d.frags
    BY <2>2, <2>3, AllFragsSet
  <2>6. AllFrags(l) \cap d.frags = {}
    <3> SUFFICES ASSUME NEW x \in ToSet(l), NEW g \in x.frags, g \in d.frags PROVE FALSE
      BY AllFragsSet
    <3>1. DatagramOK(x)
      BY <2>2 DEF ListOK, ToSet
    <3>2. g.id = x.id /\ g.id = d.id
      BY <1>2, <3>1 DEF DatagramOK
    <3> QED BY <2>4, <3>2
  <2>7. c = PbufsIn(l) /\ c \in Nat
    <3>1. /\ PbufsIn(l) = PbufsOf(AllFrags(l)) /\ IsFiniteSet(AllFrags(l))
          /\ AllFrags(l) \in SUBSET Fragments
      BY <2>2, PbufsInAll
    <3>2. PbufsIn(e.list) = PbufsOf(AllFrags(e.list))
      BY <1>1, PbufsInAll
    <3>3. PbufsOf(AllFrags(l)) \in Nat
      BY <3>1, PbufsFacts
    <3> DEFINE A == AllFrags(l)
               D == d.frags
    <3>4. PbufsOf(A \cup D) = PbufsOf(A) + PbufsOf(D)
      <4>1. /\ A \in SUBSET Fragments /\ IsFiniteSet(A) /\ D \in SUBSET Fragments
            /\ IsFiniteSet(D) /\ A \cap D = {}
        BY <1>2, <2>6, <3>1
      <4> HIDE DEF A, D
      <4> QED BY <4>1, PbufsUnion
    <3>5. e.count = PbufsOf(A) + PbufsOf(D)
      BY <1>1, <2>5, <3>2, <3>4
    <3> HIDE DEF A, D
    <3>6. PbufsOf(A) \in Nat /\ PbufsOf(D) \in Nat /\ c = e.count - PbufsOf(D) /\ PbufsIn(l) = PbufsOf(A)
      BY <1>6, <3>1, <3>3 DEF A, D
    <3> HIDE DEF c
    <3> QED BY <3>5, <3>6
  <2> HIDE DEF c, G
  <2>8. l \in Seq(Datagram)
    BY <2>2 DEF ListOK
  <2>9. b \in ReassRecord /\ b.list = l /\ b.count = c /\ b.freed = e.freed /\ b.up = G
    <3>1. e \in ReassRecord /\ G \in SUBSET Fragments /\ c \in Int
      BY <1>1, <1>5, <2>7
    <3> QED BY <2>1, <2>8, <3>1, HandedUpFacts
  <2>10. Len(l) <= MEMP_NUM_REASSDATA
    <3>1. Len(l) \in Nat
      BY <2>8
    <3> QED BY <1>1, <1>7, <2>2, <3>1
  <2>11. ReassOK(b)
    BY <2>2, <2>7, <2>9, <2>10 DEF ReassOK
  <2>12. Whole(G)
    BY <1>5, <1>8 DEF Whole, G
  <2>13. c + PbufsOf(G) = e.count + f.n
    BY <1>3, <1>6, <1>7 DEF c
  <2> QED BY <2>4, <2>9, <2>11, <2>12, <2>13 DEF b
<1>9. CASE ~whole
  <2> DEFINE fl == d.last \/ f.last
             d2 == [d EXCEPT !.frags = G, !.last = fl]
             l == Replaced(e.list, i, d2)
             c == e.count + f.n
  <2>1. b = [e EXCEPT !.list[i].frags = @ \cup {f}, !.list[i].last = @ \/ f.last, !.count = c]
    BY <1>9 DEF Chained
  <2>2. e.list \in Seq(Datagram) /\ i \in DOMAIN e.list
    BY <1>1 DEF ListOK
  <2>3. b = Counted(e, l, c)
    <3> HIDE DEF b
    <3> QED BY <1>1, <1>2, <2>1, <2>2 DEF ReassRecord, Datagram, Replaced, Counted
  <2>4. fl \in BOOLEAN
    BY <1>2, <1>3
  <2> HIDE DEF fl, d, G, b
  <2>5. d2 \in Datagram /\ d2.frags = G /\ d2.id = d.id
    BY <1>2, <1>5, <2>4 DEF Datagram
  <2> HIDE DEF d2
  <2>6. d.id = f.id
    BY DEF d
  <2>7. DatagramOK(d2)
    BY <1>5, <2>5, <2>6 DEF DatagramOK
  <2>8. /\ ListOK(l) /\ Len(l) = Len(e.list) /\ DOMAIN l = DOMAIN e.list
        /\ l[i] = d2 /\ \A j \in DOMAIN e.list : j # i => l[j] = e.list[j]
    <3> DEFINE list == e.list
    <3>1. ListOK(list) /\ i \in DOMAIN list /\ d2.id = list[i].id /\ l = Replaced(list, i, d2)
      BY <1>1, <2>5 DEF d
    <3> HIDE DEF list, l
    <3>2. /\ ListOK(l) /\ Len(l) = Len(list) /\ DOMAIN l = DOMAIN list
          /\ l[i] = d2 /\ \A j \in DOMAIN list : j # i => l[j] = list[j]
      BY <2>7, <3>1, ListPut
    <3> QED BY <3>2 DEF list
  <2> HIDE DEF l
  <2>9. AllFrags(l) = AllFrags(e.list) \cup {f}
    <3>1. ASSUME NEW x \in AllFrags(l) PROVE x \in AllFrags(e.list) \cup {f}
      <4>1. PICK j \in DOMAIN l : x \in l[j].frags
        BY DEF AllFrags
      <4>2. CASE j = i
        BY <2>5, <2>8, <4>1, <4>2 DEF AllFrags, G, d
      <4>3. CASE j # i
        BY <2>8, <4>1, <4>3 DEF AllFrags
      <4> QED BY <4>2, <4>3
    <3>2. ASSUME NEW x \in AllFrags(e.list) PROVE x \in AllFrags(l)
      <4>1. PICK j \in DOMAIN e.list : x \in e.list[j].frags
        BY DEF AllFrags
      <4>2. x \in l[j].frags /\ j \in DOMAIN l
        BY <2>5, <2>8, <4>1 DEF G, d
      <4> QED BY <4>2 DEF AllFrags
    <3>3. f \in AllFrags(l)
      BY <2>5, <2>8 DEF AllFrags, G
    <3> QED BY <3>1, <3>2, <3>3
  <2>10. f \notin AllFrags(e.list)
    <3> SUFFICES ASSUME NEW j \in DOMAIN e.list, f \in e.list[j].frags PROVE FALSE
      BY DEF AllFrags
    <3>1. f.id = e.list[j].id
      BY <1>1 DEF ListOK, DatagramOK
    <3>2. j = i
      BY <1>1, <3>1 DEF ListOK
    <3> QED BY <1>4, <3>2 DEF d
  <2>11. c = PbufsIn(l) /\ c \in Nat
    <3> DEFINE A == AllFrags(e.list)
               S == {f}
    <3>1. PbufsIn(e.list) = PbufsOf(A) /\ IsFiniteSet(A) /\ A \in SUBSET Fragments
      BY <1>1, PbufsInAll
    <3>2. PbufsIn(l) = PbufsOf(A \cup S)
      BY <2>8, <2>9, PbufsInAll
    <3>3. S \in SUBSET Fragments /\ IsFiniteSet(S) /\ A \cap S = {} /\ PbufsOf(S) = f.n
      BY <2>10, FS_Singleton, PbufsFacts
    <3> HIDE DEF A, S
    <3>4. PbufsOf(A \cup S) = PbufsOf(A) + PbufsOf(S)
      BY <3>1, <3>3, PbufsUnion
    <3> QED BY <1>1, <1>3, <1>7, <3>1, <3>2, <3>3, <3>4
  <2> HIDE DEF c
  <2>12. l \in Seq(Datagram)
    BY <2>8 DEF ListOK
  <2>13. b \in ReassRecord /\ b.list = l /\ b.count = c /\ b.freed = e.freed /\ b.up = {}
    <3>1. e \in ReassRecord /\ c \in Int /\ e.up = {}
      BY <1>1, <2>11
    <3>2. /\ b \in ReassRecord /\ b.list = l /\ b.count = c /\ b.freed = e.freed
          /\ b.up = e.up
      BY <2>3, <2>12, <3>1, CountedFacts
    <3> QED BY <3>1, <3>2
  <2>14. ReassOK(b)
    BY <1>1, <2>8, <2>11, <2>13 DEF ReassOK
  <2>15. \A x \in ToSet(l) : \/ x \in ToSet(e.list) /\ x.id # f.id
                             \/ x.id = f.id /\ d.frags \subseteq x.frags
    <3> SUFFICES ASSUME NEW j \in DOMAIN e.list
                 PROVE  \/ l[j] \in ToSet(e.list) /\ l[j].id # f.id
                        \/ l[j].id = f.id /\ d.frags \subseteq l[j].frags
      BY <2>8 DEF ToSet
    <3>1. CASE j = i
      BY <2>5, <2>6, <2>8, <3>1 DEF G
    <3>2. CASE j # i
      <4>1. l[j] = e.list[j] /\ e.list[j].id # e.list[i].id
        BY <1>1, <2>8, <3>2 DEF ListOK
      <4> QED BY <4>1 DEF ToSet
    <3> QED BY <3>1, <3>2
  <2>16. c + PbufsOf({}) = e.count + f.n
    BY <1>3, <1>7, PbufsFacts DEF c
  <2> QED BY <2>13, <2>14, <2>15, <2>16 DEF b, d
<1> QED BY <1>8, <1>9

\* What holds after a fragment, whatever becomes of it
Taken(r, b, f) ==
  /\ ReassOK(b) /\ b.count <= IP_REASS_MAX_PBUFS /\ b.freed >= r.freed
  /\ b.up = {} \/ Whole(b.up)
  /\ PbufsOf(b.up) \in Nat /\ PbufsOf(b.up) <= IP_REASS_MAX_PBUFS
  /\ b.freed + b.count + PbufsOf(b.up) = r.freed + r.count + f.n
  /\ Keeps(r.list, b.list)

\* A fragment that is dropped is counted as freed, after other datagrams went.
LEMMA DroppedFacts ==
  ASSUME NEW r, ReassOK(r), r.up = {}, r.count <= IP_REASS_MAX_PBUFS, NEW f \in Fragments,
         NEW x, Shrunk(r, x, f.id)
  PROVE  Taken(r, Dropped(x, f), f)
<1> DEFINE b == Dropped(x, f)
<1>1. /\ ReassOK(x) /\ x \in ReassRecord /\ x.freed + x.count = r.freed + r.count
      /\ x.freed >= r.freed /\ x.up = {} /\ ToSet(x.list) \subseteq ToSet(r.list)
  BY DEF Shrunk, ReassOK
<1>2. f.n \in Nat
  BY FragmentTypes
<1>3. /\ x.freed \in Int /\ x.count \in Nat /\ r.freed \in Int /\ r.count \in Nat
      /\ IP_REASS_MAX_PBUFS \in Nat
  BY <1>1, ReassTypes
<1>4. /\ b \in ReassRecord /\ b.list = x.list /\ b.count = x.count /\ b.freed = x.freed + f.n
      /\ b.up = {}
  <2> DEFINE n == x.freed + f.n
             D == Seq(Datagram)
  <2>1. x \in [list : D, count : Int, freed : Int, exceeded : D, up : SUBSET Fragments] /\ n \in Int
    BY <1>1, <1>2, <1>3 DEF ReassRecord
  <2>2. b = [x EXCEPT !.freed = n]
    BY DEF Dropped
  <2> HIDE DEF n, D, b
  <2>3. /\ b \in [list : D, count : Int, freed : Int, exceeded : D, up : SUBSET Fragments]
        /\ b.list = x.list /\ b.count = x.count /\ b.freed = n /\ b.up = x.up
    BY <2>1, <2>2
  <2> QED BY <1>1, <2>3 DEF ReassRecord, n, D
<1> HIDE DEF b
<1>5. ReassOK(b)
  BY <1>1, <1>4 DEF ReassOK
<1>6. Keeps(r.list, b.list)
  <2> DEFINE l == r.list
             k == b.list
  <2>1. ListOK(l) /\ ToSet(k) \subseteq ToSet(l)
    BY <1>1, <1>4 DEF ReassOK
  <2> HIDE DEF l, k
  <2>2. Keeps(l, k)
    BY <2>1, ShrunkKeeps
  <2> QED BY <2>2 DEF l, k
<1>7. PbufsOf(b.up) = 0
  BY <1>4, PbufsFacts
<1>8. /\ b.count <= IP_REASS_MAX_PBUFS /\ b.freed >= r.freed
      /\ b.freed + b.count + 0 = r.freed + r.count + f.n
  BY <1>1, <1>2, <1>3, <1>4
<1>9. Taken(r, b, f)
  BY <1>3, <1>4, <1>5, <1>6, <1>7, <1>8 DEF Taken
<1> QED BY <1>9 DEF b

\* ip4_reass() loses no buffer, keeps the limit and the datagrams that stay.
LEMMA ReassFacts ==
  ASSUME NEW r, ReassOK(r), r.up = {}, r.count <= IP_REASS_MAX_PBUFS, NEW f \in Fragments
  PROVE  Taken(r, ip4_reass(r, f), f)
<1> DEFINE room == Room(r, f)
           m == room.r
           new == Where(m, f.id) = {}
           e == IF new THEN Enqueue(m, f) ELSE m
           at == Where(e, f.id)
           i == CHOOSE j \in at : TRUE
           b == ip4_reass(r, f)
           thrown == TooLong(f) \/ Overlaps(e.list[i].frags, f)
<1>1. b = IF ~room.ok \/ at = {} THEN Dropped(IF room.ok THEN e ELSE m, f)
          ELSE IF thrown THEN Dropped(IF new THEN [e EXCEPT !.list = Tail(@)] ELSE e, f)
          ELSE Chained(e, i, f)
  BY DEF ip4_reass
<1>2. Shrunk(r, m, f.id) /\ (room.ok => m.count + f.n <= IP_REASS_MAX_PBUFS)
  BY RoomFacts
<1> HIDE DEF room, b
<1>3. ReassOK(m)
  BY <1>2 DEF Shrunk
<1>4. ASSUME new
      PROVE  \E x : /\ Shrunk(m, x, f.id)
                    /\ \/ e = x /\ at = {}
                       \/ /\ ReassOK(e) /\ e.freed = x.freed /\ e.count = x.count /\ e.up = x.up
                          /\ at = {1} /\ ToSet(e.list) \subseteq ToSet(x.list) \cup {NewDatagram(f)}
                          /\ [e EXCEPT !.list = Tail(@)] = x
  <2> HIDE DEF m
  <2>1. \E x : /\ Shrunk(m, x, f.id)
               /\ \/ Enqueue(m, f) = x /\ Where(Enqueue(m, f), f.id) = {}
                  \/ /\ ReassOK(Enqueue(m, f)) /\ Enqueue(m, f).freed = x.freed
                     /\ Enqueue(m, f).count = x.count /\ Enqueue(m, f).up = x.up
                     /\ Where(Enqueue(m, f), f.id) = {1}
                     /\ ToSet(Enqueue(m, f).list) \subseteq ToSet(x.list) \cup {NewDatagram(f)}
                     /\ [Enqueue(m, f) EXCEPT !.list = Tail(@)] = x
    BY <1>3, <1>4, EnqueueFacts
  <2>2. e = Enqueue(m, f)
    BY <1>4
  <2> HIDE DEF e
  <2> QED BY <2>1, <2>2
<1>5. PICK x : /\ Shrunk(m, x, f.id) /\ (~new => e = x)
               /\ \/ e = x
                  \/ /\ new /\ ReassOK(e) /\ e.freed = x.freed /\ e.count = x.count /\ e.up = x.up
                     /\ ToSet(e.list) \subseteq ToSet(x.list) \cup {NewDatagram(f)}
                     /\ [e EXCEPT !.list = Tail(@)] = x
               /\ new /\ at # {} => [e EXCEPT !.list = Tail(@)] = x
               /\ at = {} => e = x
  <2>1. CASE new
    <3> HIDE DEF e
    <3>1. PICK x : /\ Shrunk(m, x, f.id)
                   /\ \/ e = x /\ at = {}
                      \/ /\ ReassOK(e) /\ e.freed = x.freed /\ e.count = x.count /\ e.up = x.up
                         /\ at = {1} /\ ToSet(e.list) \subseteq ToSet(x.list) \cup {NewDatagram(f)}
                         /\ [e EXCEPT !.list = Tail(@)] = x
      BY <1>4, <2>1
    <3> HIDE DEF at, m
    <3>2. at = {1} => at # {}
      OBVIOUS
    <3> QED BY <2>1, <3>1, <3>2
  <2>2. CASE ~new
    <3> DEFINE id == f.id
    <3>1. e = m
      BY <2>2
    <3> HIDE DEF m, e, at, id
    <3>2. Shrunk(m, m, id)
      BY <1>3, ShrunkFacts
    <3> QED BY <2>2, <3>1, <3>2 DEF id
  <2> QED BY <2>1, <2>2
<1> HIDE DEF m, e, at, new
<1>6. Shrunk(r, x, f.id)
  <2> DEFINE id == f.id
  <2>1. Shrunk(r, m, id) /\ Shrunk(m, x, id)
    BY <1>2, <1>5
  <2> HIDE DEF id
  <2>2. Shrunk(r, x, id)
    BY <2>1, ShrunkFacts
  <2> QED BY <2>2 DEF id
<1>7. CASE ~room.ok
  <2>1. b = Dropped(m, f)
    BY <1>1, <1>7
  <2> QED BY <1>2, <2>1, DroppedFacts DEF b
<1>8. CASE room.ok /\ at = {}
  <2>1. b = Dropped(x, f)
    BY <1>1, <1>5, <1>8
  <2> QED BY <1>6, <2>1, DroppedFacts DEF b
<1>9. CASE room.ok /\ at # {} /\ thrown
  <2> HIDE DEF thrown
  <2>1. b = Dropped(IF new THEN [e EXCEPT !.list = Tail(@)] ELSE e, f)
    BY <1>1, <1>9
  <2>2. b = Dropped(x, f)
    BY <1>5, <1>9, <2>1
  <2> QED BY <1>6, <2>2, DroppedFacts DEF b
<1>10. CASE room.ok /\ at # {} /\ ~thrown
  <2>1. b = Chained(e, i, f) /\ ~Overlaps(e.list[i].frags, f)
    BY <1>1, <1>10
  <2>2. /\ ReassOK(x) /\ x.freed + x.count = r.freed + r.count /\ x.freed >= r.freed /\ x.up = {}
        /\ ToSet(x.list) \subseteq ToSet(r.list)
    BY <1>6 DEF Shrunk
  <2>3. ReassOK(e) /\ e.freed = x.freed /\ e.count = x.count /\ e.up = {}
    BY <1>5, <2>2
  <2>4. i \in DOMAIN e.list /\ e.list[i].id = f.id
    <3>1. i \in at
      BY <1>10
    <3> QED BY <3>1 DEF at, Where
  <2> HIDE DEF i, thrown
  <2> DEFINE c == Chained(e, i, f)
  <2>5. /\ ReassOK(c) /\ c.freed = e.freed /\ c.count + PbufsOf(c.up) = e.count + f.n
        /\ c.up = {} \/ Whole(c.up)
        /\ \A y \in ToSet(c.list) : \/ y \in ToSet(e.list) /\ y.id # f.id
                                    \/ y.id = f.id /\ e.list[i].frags \subseteq y.frags
    BY <2>1, <2>3, <2>4, ChainedFacts
  <2>6. b = c
    BY <2>1
  <2> HIDE DEF c
  <2>7. PbufsOf(c.up) \in Nat
    <3>1. IsFiniteSet(c.up) /\ c.up \in SUBSET Fragments
      BY <2>5, FS_EmptySet DEF Whole
    <3> QED BY <3>1, PbufsFacts
  <2>8. /\ x.freed \in Int /\ x.count \in Nat /\ r.freed \in Int /\ r.count \in Nat
        /\ c.count \in Nat /\ m.count \in Nat /\ m.freed \in Int /\ IP_REASS_MAX_PBUFS \in Nat
        /\ f.n \in Nat
    BY <1>3, <2>2, <2>5, ReassTypes, FragmentTypes
  <2>9. x.count + f.n <= IP_REASS_MAX_PBUFS
    <3>1. x.freed + x.count = m.freed + m.count /\ x.freed >= m.freed
      BY <1>5 DEF Shrunk
    <3>2. m.count + f.n <= IP_REASS_MAX_PBUFS
      BY <1>2, <1>10
    <3> QED BY <2>8, <3>1, <3>2
  <2>10. Keeps(r.list, c.list)
    <3> SUFFICES ASSUME NEW d \in ToSet(r.list), NEW y \in ToSet(c.list), d.id = y.id
                 PROVE  d.frags \subseteq y.frags
      BY DEF Keeps
    <3>1. CASE y \in ToSet(e.list) /\ y.id # f.id
      <4>1. y # NewDatagram(f)
        BY <3>1 DEF NewDatagram
      <4>2. y \in ToSet(x.list)
        BY <1>5, <3>1, <4>1
      <4>3. y \in ToSet(r.list) /\ ListOK(r.list)
        BY <2>2, <4>2 DEF ReassOK
      <4>4. d = y
        <5> DEFINE l == r.list
        <5>1. ListOK(l) /\ d \in ToSet(l) /\ y \in ToSet(l)
          BY <4>3
        <5> HIDE DEF l
        <5> QED BY <5>1, SameElement
      <4> QED BY <4>4
    <3>2. CASE y.id = f.id /\ e.list[i].frags \subseteq y.frags
      <4>1. d \in ToSet(m.list)
        BY <1>2, <3>2 DEF Shrunk
      <4>2. ~new
        <5>1. PICK j \in DOMAIN m.list : d = m.list[j]
          BY <4>1 DEF ToSet
        <5>2. j \in Where(m, f.id)
          BY <3>2, <5>1 DEF Where
        <5> QED BY <5>2 DEF new
      <4>3. e = m
        BY <4>2 DEF e
      <4>4. d = e.list[i]
        <5> DEFINE l == e.list
                   g == e.list[i]
        <5>1. ListOK(l) /\ d \in ToSet(l) /\ g \in ToSet(l) /\ d.id = g.id
          BY <2>3, <2>4, <3>2, <4>1, <4>3 DEF ReassOK, ToSet
        <5> HIDE DEF l, g
        <5>2. d = g
          BY <5>1, SameElement
        <5> QED BY <5>2 DEF g
      <4> QED BY <3>2, <4>4
    <3> QED BY <2>5, <3>1, <3>2
  <2>11. /\ c.count <= IP_REASS_MAX_PBUFS /\ c.freed >= r.freed
         /\ PbufsOf(c.up) <= IP_REASS_MAX_PBUFS
         /\ c.freed + c.count + PbufsOf(c.up) = r.freed + r.count + f.n
    <3> DEFINE p == PbufsOf(c.up)
    <3>1. p \in Nat /\ c.count + p = e.count + f.n
      BY <2>5, <2>7
    <3> HIDE DEF p
    <3>2. /\ c.count <= IP_REASS_MAX_PBUFS /\ c.freed >= r.freed /\ p <= IP_REASS_MAX_PBUFS
          /\ c.freed + c.count + p = r.freed + r.count + f.n
      BY <2>2, <2>3, <2>5, <2>8, <2>9, <3>1
    <3> QED BY <3>2 DEF p
  <2>12. Taken(r, c, f)
    BY <2>5, <2>7, <2>10, <2>11 DEF Taken
  <2> QED BY <2>6, <2>12 DEF b
<1> HIDE DEF thrown
<1>11. Taken(r, b, f)
  BY <1>7, <1>8, <1>9, <1>10 DEF b
<1> QED BY <1>11 DEF b

-----------------------------------------------------------------------------
(* The inductive invariant.                                                *)

ArpInv ==
  /\ arp_table \in ArpTable /\ etharp_cached_entry \in Index
  /\ sent \subseteq [ip : Hosts, mac : Macs]
  /\ TableOK(arp_table, announced) /\ \A p \in sent : p.mac = announced[p.ip]

ReassInv ==
  /\ reassdatagrams \in Seq(Datagram) /\ ListOK(reassdatagrams)
  /\ Len(reassdatagrams) <= MEMP_NUM_REASSDATA
  /\ ip_reass_pbufcount = PbufsIn(reassdatagrams) /\ ip_reass_pbufcount <= IP_REASS_MAX_PBUFS

\* udp_server_recv() frees every request: the copy for printing is never empty
\* and there is always memory for it.
RequestsFreed == RecvOk = {TRUE} /\ \A d \in Datagrams : d.len # 0

InUse == free + KeptIn(arp_table) + PbufsIn(reassdatagrams)

PoolInv == /\ free \in Nat /\ InUse <= PBUF_POOL_SIZE
           /\ RequestsFreed => InUse = PBUF_POOL_SIZE

IInv ==
  /\ server \in BOOLEAN /\ announced \in [Hosts -> Macs \cup {NoMac}]
  /\ delivered = {} \/ Whole(delivered)
  /\ ArpInv /\ ReassInv /\ PoolInv

\* What the lemmas about a and r ask of the records is true before a step ...
LEMMA ArpNow ==
  ASSUME IInv
  PROVE  /\ ArpOK(Arp, announced) /\ Held(Arp) = KeptIn(arp_table) /\ KeptIn(arp_table) \in Nat
         /\ Arp.freed = 0 /\ Arp.sent = {} /\ DOMAIN announced = Hosts
         /\ \A i \in Index : arp_table[i] \in ArpEntry
<1>1. /\ arp_table \in ArpTable /\ etharp_cached_entry \in Index
      /\ TableOK(arp_table, announced)
  BY DEF IInv, ArpInv
<1>2. /\ Arp.table = arp_table /\ Arp.cached = etharp_cached_entry /\ Arp.freed = 0
      /\ Arp.sent = {} /\ Arp \in ArpRecord
  BY <1>1 DEF Arp, ArpRecord
<1>3. KeptIn(arp_table) \in Nat
  BY <1>1, KeptNat
<1>4. ArpOK(Arp, announced)
  BY <1>1, <1>2 DEF ArpOK
<1>5. Held(Arp) = KeptIn(arp_table)
  BY <1>2, <1>3 DEF Held
<1>6. DOMAIN announced = Hosts
  BY DEF IInv
<1> QED BY <1>1, <1>2, <1>3, <1>4, <1>5, <1>6 DEF ArpTable

\* The same of the record for ip4_frag.c
LEMMA ReassNow ==
  ASSUME IInv
  PROVE  /\ ReassOK(Reass) /\ Reass.up = {} /\ Reass.freed = 0 /\ Reass.count <= IP_REASS_MAX_PBUFS
         /\ Reass.list = reassdatagrams /\ Reass.count = PbufsIn(reassdatagrams)
         /\ PbufsIn(reassdatagrams) \in Nat
<1>1. /\ reassdatagrams \in Seq(Datagram) /\ ListOK(reassdatagrams)
      /\ Len(reassdatagrams) <= MEMP_NUM_REASSDATA
      /\ ip_reass_pbufcount = PbufsIn(reassdatagrams) /\ ip_reass_pbufcount <= IP_REASS_MAX_PBUFS
  BY DEF IInv, ReassInv
<1>2. PbufsIn(reassdatagrams) \in Nat
  <2> DEFINE F == AllFrags(reassdatagrams)
  <2>1. PbufsIn(reassdatagrams) = PbufsOf(F) /\ IsFiniteSet(F) /\ F \in SUBSET Fragments
    BY <1>1, PbufsInAll
  <2> HIDE DEF F
  <2>2. PbufsOf(F) \in Nat
    BY <2>1, PbufsFacts
  <2> QED BY <2>1, <2>2
<1>3. /\ Reass.list = reassdatagrams /\ Reass.count = ip_reass_pbufcount /\ Reass.freed = 0
      /\ Reass.up = {}
  BY DEF Reass
<1>4. Reass \in ReassRecord
  <2>1. << >> \in Seq(Datagram) /\ {} \in SUBSET Fragments /\ ip_reass_pbufcount \in Int
    BY <1>1, <1>2
  <2> QED BY <1>1, <2>1 DEF Reass, ReassRecord
<1>5. ReassOK(Reass)
  <2> HIDE DEF Reass
  <2> QED BY <1>1, <1>3, <1>4 DEF ReassOK
<1> QED BY <1>1, <1>2, <1>3, <1>5

\* ... and what they say of them is the invariant after it.
LEMMA ArpLater ==
  ASSUME NEW a, ArpOK(a, announced'), SetArp(a)
  PROVE  ArpInv' /\ KeptIn(arp_table)' = KeptIn(a.table) /\ KeptIn(a.table) \in Nat
         /\ a.freed \in Int /\ Held(a) = a.freed + KeptIn(a.table)
<1>1. a \in ArpRecord /\ TableOK(a.table, announced') /\ \A p \in a.sent : p.mac = announced'[p.ip]
  BY DEF ArpOK
<1>2. arp_table' = a.table /\ etharp_cached_entry' = a.cached /\ sent' = a.sent
  BY DEF SetArp
<1>3. /\ a.table \in ArpTable /\ a.cached \in Index /\ a.sent \subseteq [ip : Hosts, mac : Macs]
      /\ KeptIn(a.table) \in Nat /\ a.freed \in Int
  BY <1>1, ArpTypes
<1>4. ArpInv'
  BY <1>1, <1>2, <1>3 DEF ArpInv
<1>5. KeptIn(arp_table)' = KeptIn(a.table)
  BY <1>2
<1> QED BY <1>3, <1>4, <1>5 DEF Held

\* The same of the list and its count
LEMMA ReassLater ==
  ASSUME NEW r, ReassOK(r), r.count <= IP_REASS_MAX_PBUFS, SetReass(r)
  PROVE  ReassInv' /\ PbufsIn(reassdatagrams)' = r.count /\ r.count \in Nat /\ r.freed \in Int
<1>1. /\ r \in ReassRecord /\ ListOK(r.list) /\ Len(r.list) <= MEMP_NUM_REASSDATA
      /\ r.count = PbufsIn(r.list)
  BY DEF ReassOK
<1>2. reassdatagrams' = r.list /\ ip_reass_pbufcount' = r.count
  BY DEF SetReass
<1>3. r.list \in Seq(Datagram) /\ r.count \in Nat /\ r.freed \in Int
  BY ReassTypes
<1>4. ReassInv'
  BY <1>1, <1>2, <1>3 DEF ReassInv
<1>5. PbufsIn(reassdatagrams)' = r.count
  BY <1>1, <1>2
<1> QED BY <1>3, <1>4, <1>5

\* The pool after a step that took n buffers: the table holds kept1 instead of
\* kept and frees the rest, the list holds queued1 instead of queued.
LEMMA PoolLater ==
  ASSUME IInv, NEW n \in Int, NEW freed \in Int, NEW kept \in Nat, NEW queued \in Nat,
         KeptIn(arp_table)' = kept, PbufsIn(reassdatagrams)' = queued,
         free' = free - n + freed, free' >= 0,
         freed + kept + queued <= n + KeptIn(arp_table) + PbufsIn(reassdatagrams),
         RequestsFreed => freed + kept + queued = n + KeptIn(arp_table) + PbufsIn(reassdatagrams)
  PROVE  PoolInv'
<1>1. /\ free \in Nat /\ InUse <= PBUF_POOL_SIZE
      /\ RequestsFreed => InUse = PBUF_POOL_SIZE
  BY DEF IInv, PoolInv
<1>2. KeptIn(arp_table) \in Nat /\ PbufsIn(reassdatagrams) \in Nat /\ PBUF_POOL_SIZE \in Nat
  BY ArpNow, ReassNow, NetAssumption
<1>3. InUse' = free' + kept + queued
  BY DEF InUse
<1>4. free' \in Nat /\ InUse' <= PBUF_POOL_SIZE
  BY <1>1, <1>2, <1>3 DEF InUse
<1>5. RequestsFreed => InUse' = PBUF_POOL_SIZE
  BY <1>1, <1>2, <1>3 DEF InUse
<1> QED BY <1>4, <1>5 DEF PoolInv, RequestsFreed

\* Nothing is in the table or the list at first.
LEMMA InitHolds == Init => IInv
<1> SUFFICES ASSUME Init PROVE IInv
  OBVIOUS
<1>1. arp_table = [i \in Index |-> Empty] /\ arp_table \in ArpTable
  BY EntryMade, EntrySet, Constants DEF Init, ArpTable, Empty
<1>2. \A i \in Index : arp_table[i].state = "EMPTY" /\ arp_table[i].q = << >>
  BY <1>1 DEF Empty
<1>3. ArpInv
  BY <1>1, <1>2, Constants DEF Init, ArpInv, TableOK, Unique, EntryOK, StableState
<1>4. KeptIn(arp_table) = 0
  BY <1>1, <1>2, KeptNone
<1>5. ListOK(reassdatagrams) /\ Len(reassdatagrams) = 0 /\ reassdatagrams \in Seq(Datagram)
  BY DEF Init, ListOK
<1>6. PbufsIn(reassdatagrams) = 0
  <2>1. AllFrags(reassdatagrams) = {}
    BY DEF Init, AllFrags
  <2> QED BY <1>5, <2>1, PbufsInAll, PbufsFacts
<1>7. ReassInv
  BY <1>5, <1>6, FragmentAssumption DEF Init, ReassInv
<1>8. PoolInv
  BY <1>4, <1>6, NetAssumption DEF Init, PoolInv, InUse
<1>9. server \in BOOLEAN /\ announced \in [Hosts -> Macs \cup {NoMac}] /\ delivered = {}
  BY DEF Init
<1> QED BY <1>3, <1>7, <1>8, <1>9 DEF IInv

\* A step that leaves the table, the list and the pool alone
LEMMA InitServerKeeps == IInv /\ udp_server_init => IInv'
<1> SUFFICES ASSUME IInv, udp_server_init PROVE IInv'
  OBVIOUS
<1>1. /\ arp_table' = arp_table /\ etharp_cached_entry' = etharp_cached_entry
      /\ reassdatagrams' = reassdatagrams /\ ip_reass_pbufcount' = ip_reass_pbufcount
      /\ free' = free /\ announced' = announced /\ sent' = {} /\ delivered' = {}
      /\ server' \in BOOLEAN
  BY DEF udp_server_init, arpVars, reassVars
<1>2. ArpInv'
  BY <1>1 DEF IInv, ArpInv
<1>3. ReassInv'
  BY <1>1 DEF IInv, ReassInv
<1>4. PoolInv'
  BY <1>1 DEF IInv, PoolInv, InUse, RequestsFreed
<1>5. announced' \in [Hosts -> Macs \cup {NoMac}]
  BY <1>1 DEF IInv
<1> QED BY <1>1, <1>2, <1>3, <1>4, <1>5 DEF IInv

\* A step in which nothing changes
LEMMA StutterKeeps == IInv /\ UNCHANGED vars => IInv'
<1> SUFFICES ASSUME IInv, UNCHANGED vars PROVE IInv'
  OBVIOUS
<1>1. /\ arp_table' = arp_table /\ etharp_cached_entry' = etharp_cached_entry
      /\ reassdatagrams' = reassdatagrams /\ ip_reass_pbufcount' = ip_reass_pbufcount
      /\ free' = free /\ announced' = announced /\ sent' = sent /\ delivered' = delivered
      /\ server' = server
  BY DEF vars
<1>2. ArpInv'
  BY <1>1 DEF IInv, ArpInv
<1>3. ReassInv'
  BY <1>1 DEF IInv, ReassInv
<1>4. PoolInv'
  BY <1>1 DEF IInv, PoolInv, InUse, RequestsFreed
<1> QED BY <1>1, <1>2, <1>3, <1>4 DEF IInv

\* A step that only etharp.c takes: what the table loses is freed.
LEMMA ArpStep ==
  ASSUME IInv, NEW a, ArpOK(a, announced'), SetArp(a), Held(a) = Held(Arp), a.freed >= 0,
         free' = free + a.freed, delivered' = {}, UNCHANGED <<reassVars, server>>,
         announced' \in [Hosts -> Macs \cup {NoMac}]
  PROVE  IInv'
<1>1. /\ reassdatagrams' = reassdatagrams /\ ip_reass_pbufcount' = ip_reass_pbufcount
      /\ server' = server
  BY DEF reassVars
<1>2. /\ ArpInv' /\ KeptIn(arp_table)' = KeptIn(a.table) /\ KeptIn(a.table) \in Nat
      /\ a.freed \in Int /\ a.freed + KeptIn(a.table) = KeptIn(arp_table)
  BY ArpLater, ArpNow
<1>3. ReassInv'
  BY <1>1 DEF IInv, ReassInv
<1>4. PbufsIn(reassdatagrams)' = PbufsIn(reassdatagrams) /\ PbufsIn(reassdatagrams) \in Nat
  BY <1>1, ReassNow
<1>5. PoolInv'
  <2>1. free \in Nat /\ KeptIn(arp_table) \in Nat
    BY ArpNow DEF IInv, PoolInv
  <2> DEFINE n == a.freed
             k == KeptIn(a.table)
             q == PbufsIn(reassdatagrams)
  <2>2. n \in Int /\ k \in Nat /\ q \in Nat /\ n + k = KeptIn(arp_table) /\ n >= 0 /\ free' = free + n
    BY <1>2, <1>4
  <2>3. KeptIn(arp_table)' = k /\ PbufsIn(reassdatagrams)' = q /\ q = PbufsIn(reassdatagrams)
    BY <1>2, <1>4
  <2> HIDE DEF n, k, q
  <2>4. free' = free - 0 + n /\ free' >= 0 /\ n + k + q = 0 + KeptIn(arp_table) + PbufsIn(reassdatagrams)
    BY <2>1, <2>2, <2>3
  <2>5. n + k + q <= 0 + KeptIn(arp_table) + PbufsIn(reassdatagrams) /\ 0 \in Int
    BY <2>1, <2>2, <2>3, <2>4
  <2> QED BY <2>2, <2>3, <2>4, <2>5, PoolLater
<1> QED BY <1>1, <1>2, <1>3, <1>5 DEF IInv

\* An ARP packet changes the address that its sender announced last.
LEMMA InputArpKeeps ==
  ASSUME IInv, NEW ip \in Hosts, NEW mac \in Macs, NEW for_us \in BOOLEAN, InputArp(ip, mac, for_us)
  PROVE  IInv'
<1>1. PICK a : /\ a = etharp_input(Arp, ip, mac, for_us) /\ SetArp(a) /\ free' = free + a.freed
  BY DEF InputArp
<1>2. /\ announced' = [announced EXCEPT ![ip] = mac] /\ delivered' = {}
      /\ UNCHANGED <<reassVars, server>>
  BY DEF InputArp
<1>3. ArpOK(a, announced') /\ Held(a) = Held(Arp) /\ a.freed >= 0
  <2> HIDE DEF Arp
  <2>1. /\ ArpOK(etharp_input(Arp, ip, mac, for_us), [announced EXCEPT ![ip] = mac])
        /\ Held(etharp_input(Arp, ip, mac, for_us)) = Held(Arp)
        /\ etharp_input(Arp, ip, mac, for_us).freed >= Arp.freed
    BY ArpNow, InputFacts
  <2> QED BY <1>1, <1>2, <2>1, ArpNow
<1>4. announced' \in [Hosts -> Macs \cup {NoMac}]
  BY <1>2 DEF IInv
<1> QED BY <1>1, <1>2, <1>3, <1>4, ArpStep

\* etharp_tmr() frees the packets of the entries that expire.
LEMMA ArpTimerKeeps == IInv /\ ArpTimer => IInv'
<1> SUFFICES ASSUME IInv, ArpTimer PROVE IInv'
  OBVIOUS
<1>1. PICK a : a = Tmr(Arp) /\ SetArp(a) /\ free' = free + a.freed
  BY DEF ArpTimer
<1>2. announced' = announced /\ delivered' = {} /\ UNCHANGED <<reassVars, server>>
  BY DEF ArpTimer
<1>3. ArpOK(a, announced) /\ Held(a) = Held(Arp) /\ a.freed >= 0
  BY <1>1, ArpNow, TmrFacts
<1>4. announced' \in [Hosts -> Macs \cup {NoMac}]
  BY <1>2 DEF IInv
<1>5. ArpOK(a, announced')
  BY <1>2, <1>3
<1> QED BY <1>1, <1>2, <1>3, <1>4, <1>5, ArpStep

\* A query without a packet
LEMMA DhcpCheckKeeps ==
  ASSUME IInv, NEW ip \in Hosts, DhcpCheck(ip)
  PROVE  IInv'
<1>1. PICK a : a = etharp_query_null(Arp, ip) /\ SetArp(a) /\ free' = free + a.freed
  BY DEF DhcpCheck
<1>2. announced' = announced /\ delivered' = {} /\ UNCHANGED <<reassVars, server>>
  BY DEF DhcpCheck
<1>3. ArpOK(a, announced) /\ Held(a) = Held(Arp) /\ a.freed >= 0
  BY <1>1, ArpNow, QueryNullFacts
<1>4. announced' \in [Hosts -> Macs \cup {NoMac}]
  BY <1>2 DEF IInv
<1>5. ArpOK(a, announced')
  BY <1>2, <1>3
<1> QED BY <1>1, <1>2, <1>3, <1>4, <1>5, ArpStep

\* A datagram that is not fragmented: the buffers it took wait or are freed.
LEMMA InputDatagramKeeps ==
  ASSUME IInv, NEW d \in Datagrams, InputDatagram(d)
  PROVE  IInv'
<1>1. PICK mem \in RecvOk, ok \in HeapOk, m \in Outcomes :
        \E a \in {udp_input(Arp, d.src, d.len, d.n, mem, ok, m)} :
          SetArp(a) /\ free' = free - d.n + a.freed
  BY DEF InputDatagram
<1>2. PICK a : /\ a = udp_input(Arp, d.src, d.len, d.n, mem, ok, m)
               /\ SetArp(a) /\ free' = free - d.n + a.freed
  BY <1>1
<1>3. /\ free >= d.n /\ delivered' = {} /\ reassdatagrams' = reassdatagrams
      /\ ip_reass_pbufcount' = ip_reass_pbufcount /\ server' = server /\ announced' = announced
  BY DEF InputDatagram, reassVars
<1>4. d.src \in Hosts /\ d.n \in 0 .. MaxPacket /\ d.n \in Nat
  BY NetAssumption, Constants
<1>5. mem \in BOOLEAN /\ ok \in BOOLEAN /\ (RequestsFreed => d.len # 0 /\ mem)
  BY OutcomeFacts DEF RequestsFreed
<1>6. /\ ArpOK(a, announced) /\ a.freed >= 0 /\ Held(a) <= KeptIn(arp_table) + d.n
      /\ RequestsFreed => Held(a) = KeptIn(arp_table) + d.n
  BY <1>2, <1>4, <1>5, ArpNow, UdpFacts
<1>7. ArpOK(a, announced')
  BY <1>3, <1>6
<1>8. /\ ArpInv' /\ KeptIn(arp_table)' = KeptIn(a.table) /\ KeptIn(a.table) \in Nat
      /\ a.freed \in Int /\ Held(a) = a.freed + KeptIn(a.table)
  BY <1>2, <1>7, ArpLater
<1>9. ReassInv'
  BY <1>3 DEF IInv, ReassInv
<1>10. PoolInv'
  <2>1. /\ free \in Nat /\ KeptIn(arp_table) \in Nat /\ PbufsIn(reassdatagrams) \in Nat
        /\ PbufsIn(reassdatagrams)' = PbufsIn(reassdatagrams)
    BY <1>3, ArpNow, ReassNow DEF IInv, PoolInv
  <2> DEFINE n == d.n
             u == a.freed
             k == KeptIn(a.table)
             q == PbufsIn(reassdatagrams)
  <2>2. /\ n \in Int /\ u \in Int /\ k \in Nat /\ q \in Nat /\ u >= 0 /\ free >= n
        /\ free' = free - n + u
        /\ u + k <= KeptIn(arp_table) + n /\ (RequestsFreed => u + k = KeptIn(arp_table) + n)
    BY <1>2, <1>3, <1>4, <1>6, <1>8, <2>1
  <2>3. KeptIn(arp_table)' = k /\ PbufsIn(reassdatagrams)' = q /\ q = PbufsIn(reassdatagrams)
    BY <1>8, <2>1
  <2> HIDE DEF n, u, k, q
  <2>4. /\ free' >= 0
        /\ u + k + q <= n + KeptIn(arp_table) + PbufsIn(reassdatagrams)
        /\ RequestsFreed => u + k + q = n + KeptIn(arp_table) + PbufsIn(reassdatagrams)
    BY <2>1, <2>2, <2>3
  <2> QED BY <2>2, <2>3, <2>4, PoolLater
<1>11. server' \in BOOLEAN /\ announced' \in [Hosts -> Macs \cup {NoMac}]
  BY <1>3 DEF IInv
<1> QED BY <1>3, <1>8, <1>9, <1>10, <1>11 DEF IInv

\* The messages to the senders of datagrams that were removed
LEMMA ToldFacts ==
  ASSUME IInv, NEW r, ReassOK(r), NEW ms
  PROVE  LET a == icmp_time_exceeded(Arp, r.exceeded, ms)
         IN  ArpOK(a, announced) /\ Held(a) = KeptIn(arp_table) /\ a.freed >= 0
<1> DEFINE ds == r.exceeded
           a == icmp_time_exceeded(Arp, ds, ms)
<1>1. ds \in Seq(Datagram)
  BY ReassTypes
<1> HIDE DEF ds
<1>2. ArpOK(a, announced) /\ Held(a) = Held(Arp) /\ a.freed >= Arp.freed
  BY <1>1, ArpNow, ExceededFacts
<1>3. ArpOK(a, announced) /\ Held(a) = KeptIn(arp_table) /\ a.freed >= 0
  <2> HIDE DEF a
  <2> QED BY <1>2, ArpNow
<1> QED BY <1>3 DEF ds

\* The timer of reassembly frees the buffers of the datagrams it removes.
LEMMA ReassTimerKeeps == IInv /\ ReassTimer => IInv'
<1> SUFFICES ASSUME IInv, ReassTimer PROVE IInv'
  OBVIOUS
<1>1. PICK r : /\ r = ip_reass_tmr(Reass) /\ SetReass(r)
               /\ \E ms \in [DOMAIN r.exceeded -> Outcomes] :
                    \E a \in {icmp_time_exceeded(Arp, r.exceeded, ms)} :
                      SetArp(a) /\ free' = free + r.freed + a.freed
  BY DEF ReassTimer
<1>2. PICK ms : \E a \in {icmp_time_exceeded(Arp, r.exceeded, ms)} :
                  SetArp(a) /\ free' = free + r.freed + a.freed
  BY <1>1
<1>3. PICK a : /\ a = icmp_time_exceeded(Arp, r.exceeded, ms) /\ SetArp(a)
               /\ free' = free + r.freed + a.freed
  BY <1>2
<1>4. delivered' = {} /\ server' = server /\ announced' = announced
  BY DEF ReassTimer
<1>5. /\ ReassOK(r) /\ r.freed + r.count = Reass.freed + Reass.count /\ r.freed >= Reass.freed
  BY <1>1, ReassNow, ReassTmrFacts
<1>6. /\ Reass.freed = 0 /\ Reass.count = PbufsIn(reassdatagrams) /\ PbufsIn(reassdatagrams) \in Nat
      /\ Reass.count <= IP_REASS_MAX_PBUFS /\ IP_REASS_MAX_PBUFS \in Nat
      /\ r.count \in Nat /\ r.freed \in Int
  BY <1>5, ReassNow, ReassTypes
<1>7. r.count <= IP_REASS_MAX_PBUFS /\ r.freed + r.count = PbufsIn(reassdatagrams) /\ r.freed >= 0
  BY <1>5, <1>6
<1>8. ReassInv' /\ PbufsIn(reassdatagrams)' = r.count
  BY <1>1, <1>5, <1>7, ReassLater
<1>9. ArpOK(a, announced) /\ Held(a) = KeptIn(arp_table) /\ a.freed >= 0
  BY <1>3, <1>5, ToldFacts
<1>10. ArpOK(a, announced')
  BY <1>4, <1>9
<1>11. /\ ArpInv' /\ KeptIn(arp_table)' = KeptIn(a.table) /\ KeptIn(a.table) \in Nat
       /\ a.freed \in Int /\ Held(a) = a.freed + KeptIn(a.table)
  BY <1>3, <1>10, ArpLater
<1>12. PoolInv'
  <2>1. free \in Nat /\ KeptIn(arp_table) \in Nat
    BY ArpNow DEF IInv, PoolInv
  <2> DEFINE u == r.freed + a.freed
             k == KeptIn(a.table)
             q == r.count
  <2>2. /\ u \in Int /\ k \in Nat /\ q \in Nat /\ u >= 0 /\ free' = free - 0 + u
        /\ u + k + q = 0 + KeptIn(arp_table) + PbufsIn(reassdatagrams)
    BY <1>3, <1>6, <1>7, <1>9, <1>11, <2>1
  <2>3. KeptIn(arp_table)' = k /\ PbufsIn(reassdatagrams)' = q
    BY <1>8, <1>11
  <2> HIDE DEF u, k, q
  <2>4. /\ free' >= 0 /\ u + k + q <= 0 + KeptIn(arp_table) + PbufsIn(reassdatagrams) /\ 0 \in Int
    BY <1>6, <2>1, <2>2
  <2> QED BY <2>2, <2>3, <2>4, PoolLater
<1>13. server' \in BOOLEAN /\ announced' \in [Hosts -> Macs \cup {NoMac}]
  BY <1>4 DEF IInv
<1> QED BY <1>4, <1>8, <1>11, <1>12, <1>13 DEF IInv

\* A fragment: its buffers are queued, handed up with the whole datagram, or
\* freed, with those of the datagrams that made room for it.
LEMMA InputFragmentKeeps ==
  ASSUME IInv, NEW f \in Fragments, InputFragment(f)
  PROVE  IInv'
<1>1. PICK r : /\ r = ip4_reass(Reass, f) /\ SetReass(r) /\ delivered' = r.up
               /\ \E ms \in [DOMAIN r.exceeded -> Outcomes],
                     mem \in RecvOk, ok \in HeapOk, m \in Outcomes :
                    \E a \in {icmp_time_exceeded(Arp, r.exceeded, ms)} :
                    \E b \in {IF r.up = {} THEN a
                              ELSE udp_input(a, Src[f.id], LengthOf(r.up), PbufsOf(r.up), mem, ok, m)} :
                      SetArp(b) /\ free' = free - f.n + r.freed + b.freed
  BY DEF InputFragment
<1>2. PICK ms \in [DOMAIN r.exceeded -> Outcomes],
           mem \in RecvOk, ok \in HeapOk, m \in Outcomes :
        \E a \in {icmp_time_exceeded(Arp, r.exceeded, ms)} :
        \E b \in {IF r.up = {} THEN a
                  ELSE udp_input(a, Src[f.id], LengthOf(r.up), PbufsOf(r.up), mem, ok, m)} :
          SetArp(b) /\ free' = free - f.n + r.freed + b.freed
  BY <1>1
<1>3. PICK a, b : /\ a = icmp_time_exceeded(Arp, r.exceeded, ms)
                  /\ b = IF r.up = {} THEN a
                         ELSE udp_input(a, Src[f.id], LengthOf(r.up), PbufsOf(r.up), mem, ok, m)
                  /\ SetArp(b) /\ free' = free - f.n + r.freed + b.freed
  BY <1>2
<1>4. free >= f.n /\ server' = server /\ announced' = announced
  BY DEF InputFragment
<1>5. Taken(Reass, r, f)
  BY <1>1, ReassNow, ReassFacts
<1>6. /\ ReassOK(r) /\ r.count <= IP_REASS_MAX_PBUFS /\ r.freed >= 0
      /\ r.up = {} \/ Whole(r.up)
      /\ PbufsOf(r.up) \in Nat /\ PbufsOf(r.up) <= IP_REASS_MAX_PBUFS
      /\ r.freed + r.count + PbufsOf(r.up) = PbufsIn(reassdatagrams) + f.n
  <2>1. Reass.freed = 0 /\ Reass.count = PbufsIn(reassdatagrams) /\ PbufsIn(reassdatagrams) \in Nat
    BY ReassNow
  <2> HIDE DEF Reass
  <2> QED BY <1>5, <2>1 DEF Taken
<1>7. ReassInv' /\ PbufsIn(reassdatagrams)' = r.count /\ r.count \in Nat /\ r.freed \in Int
  BY <1>1, <1>6, ReassLater
<1>8. ArpOK(a, announced) /\ Held(a) = KeptIn(arp_table) /\ a.freed >= 0
  BY <1>3, <1>6, ToldFacts
<1>9. /\ ArpOK(b, announced) /\ b.freed >= 0 /\ Held(b) <= KeptIn(arp_table) + PbufsOf(r.up)
      /\ RequestsFreed => Held(b) = KeptIn(arp_table) + PbufsOf(r.up)
  <2>1. CASE r.up = {}
    <3>1. PbufsOf(r.up) = 0 /\ b = a /\ KeptIn(arp_table) \in Nat
      BY <1>3, <2>1, PbufsFacts, ArpNow
    <3> QED BY <1>8, <3>1
  <2>2. CASE r.up # {}
    <3> DEFINE src == Src[f.id]
               len == LengthOf(r.up)
               n == PbufsOf(r.up)
    <3>1. b = udp_input(a, src, len, n, mem, ok, m)
      BY <1>3, <2>2
    <3>2. src \in Hosts
      BY NetAssumption, FragmentTypes
    <3>3. n \in 0 .. MaxPacket
      BY <1>6, Constants, NetAssumption, FragmentAssumption
    <3>4. len # 0
      <4>1. r.up \in SUBSET Fragments /\ IsFiniteSet(r.up)
        BY <1>6, <2>2 DEF Whole
      <4> DEFINE F == r.up
      <4>2. F \in SUBSET Fragments /\ IsFiniteSet(F) /\ F # {}
        BY <2>2, <4>1
      <4> HIDE DEF F
      <4>3. LengthOf(F) \in Nat /\ LengthOf(F) > 0
        BY <4>2, LengthFacts
      <4> QED BY <4>3 DEF F
    <3>5. mem \in BOOLEAN /\ ok \in BOOLEAN /\ (RequestsFreed => mem)
      BY OutcomeFacts DEF RequestsFreed
    <3> HIDE DEF src, len, n
    <3>6. /\ ArpOK(b, announced) /\ b.freed >= a.freed /\ Held(b) <= Held(a) + n
          /\ len # 0 /\ mem => Held(b) = Held(a) + n
      BY <1>8, <3>1, <3>2, <3>3, <3>5, UdpFacts
    <3>7. b.freed >= 0
      <4>1. a.freed \in Int /\ b.freed \in Int
        BY <1>8, <3>6, ArpTypes DEF ArpOK
      <4> QED BY <1>8, <3>6, <4>1
    <3> QED BY <1>8, <3>4, <3>5, <3>6, <3>7 DEF n
  <2> QED BY <2>1, <2>2
<1>10. ArpOK(b, announced')
  BY <1>4, <1>9
<1>11. /\ ArpInv' /\ KeptIn(arp_table)' = KeptIn(b.table) /\ KeptIn(b.table) \in Nat
       /\ b.freed \in Int /\ Held(b) = b.freed + KeptIn(b.table)
  BY <1>3, <1>10, ArpLater
<1>12. PoolInv'
  <2>1. /\ free \in Nat /\ KeptIn(arp_table) \in Nat /\ PbufsIn(reassdatagrams) \in Nat /\ f.n \in Nat
    BY ArpNow, ReassNow, FragmentTypes DEF IInv, PoolInv
  <2> DEFINE n == f.n
             u == r.freed + b.freed
             k == KeptIn(b.table)
             q == r.count
             p == PbufsOf(r.up)
  <2>2. /\ r.freed \in Int /\ b.freed \in Int /\ r.freed >= 0 /\ b.freed >= 0
        /\ free' = free - n + r.freed + b.freed
    BY <1>3, <1>6, <1>7, <1>9, <1>11
  <2>3. n \in Int /\ u \in Int /\ k \in Nat /\ q \in Nat /\ p \in Nat /\ u >= 0 /\ free >= n
    BY <1>4, <1>6, <1>7, <1>11, <2>1, <2>2
  <2>4. free' = free - n + u
    BY <2>1, <2>2
  <2>5. r.freed + q + p = PbufsIn(reassdatagrams) + n
    BY <1>6
  <2>6. /\ b.freed + k <= KeptIn(arp_table) + p
        /\ RequestsFreed => b.freed + k = KeptIn(arp_table) + p
    BY <1>9, <1>11
  <2>7. KeptIn(arp_table)' = k /\ PbufsIn(reassdatagrams)' = q
    BY <1>7, <1>11
  <2>8. u = r.freed + b.freed
    OBVIOUS
  <2> HIDE DEF n, u, k, q, p
  <2>9. /\ free' >= 0
        /\ u + k + q <= n + KeptIn(arp_table) + PbufsIn(reassdatagrams)
    BY <2>1, <2>2, <2>3, <2>4, <2>5, <2>6, <2>8
  <2>10. RequestsFreed => u + k + q = n + KeptIn(arp_table) + PbufsIn(reassdatagrams)
    <3> SUFFICES ASSUME RequestsFreed
                 PROVE  u + k + q = n + KeptIn(arp_table) + PbufsIn(reassdatagrams)
      OBVIOUS
    <3>1. b.freed + k = KeptIn(arp_table) + p
      BY <2>6
    <3> DEFINE K == KeptIn(arp_table)
               Q == PbufsIn(reassdatagrams)
               x == r.freed
               y == b.freed
    <3>2. /\ x \in Int /\ y \in Int /\ K \in Int /\ Q \in Int /\ y + k = K + p
          /\ u = x + y /\ x + q + p = Q + n
      BY <2>1, <2>2, <2>5, <2>8, <3>1
    <3> HIDE DEF K, Q, x, y
    <3>3. u + k + q = n + K + Q
      BY <2>3, <3>2
    <3> QED BY <3>3 DEF K, Q
  <2> QED BY <2>3, <2>4, <2>7, <2>9, <2>10, PoolLater
<1>13. delivered' = {} \/ Whole(delivered')
  BY <1>1, <1>6
<1>14. server' \in BOOLEAN /\ announced' \in [Hosts -> Macs \cup {NoMac}]
  BY <1>4 DEF IInv
<1> QED BY <1>7, <1>11, <1>12, <1>13, <1>14 DEF IInv

\* Every step keeps the invariant.
LEMMA NextKeeps == IInv /\ [Next]_vars => IInv'
<1> SUFFICES ASSUME IInv, [Next]_vars PROVE IInv'
  OBVIOUS
<1>1. CASE udp_server_init
  BY <1>1, InitServerKeeps
<1>2. CASE \E ip \in Hosts, mac \in Macs, for_us \in BOOLEAN : InputArp(ip, mac, for_us)
  BY <1>2, InputArpKeeps
<1>3. CASE \E d \in Datagrams : InputDatagram(d)
  BY <1>3, InputDatagramKeeps
<1>4. CASE \E f \in Fragments : InputFragment(f)
  BY <1>4, InputFragmentKeeps
<1>5. CASE ArpTimer
  BY <1>5, ArpTimerKeeps
<1>6. CASE ReassTimer
  BY <1>6, ReassTimerKeeps
<1>7. CASE \E ip \in Hosts : DhcpCheck(ip)
  BY <1>7, DhcpCheckKeeps
<1>8. CASE UNCHANGED vars
  BY <1>8, StutterKeeps
<1> QED BY <1>1, <1>2, <1>3, <1>4, <1>5, <1>6, <1>7, <1>8 DEF Next, Input

-----------------------------------------------------------------------------
(* The theorems.                                                           *)

(***************************************************************************)
(* In every behaviour of the board the ARP table, the list of datagrams in *)
(* reassembly and the buffers of the pool fit together.                    *)
(***************************************************************************)
THEOREM Invariance == Spec => []IInv
<1> QED BY InitHolds, NextKeeps, PTL DEF Spec

\* The invariant has the types of the module.
LEMMA TypesHold == IInv => TypeOK
<1> SUFFICES ASSUME IInv PROVE TypeOK
  OBVIOUS
<1>1. /\ arp_table \in [Index -> ArpEntry] /\ etharp_cached_entry \in Index
      /\ sent \subseteq [ip : Hosts, mac : Macs]
  BY DEF IInv, ArpInv, ArpTable
<1>2. /\ reassdatagrams \in Seq(Datagram) /\ Len(reassdatagrams) <= MEMP_NUM_REASSDATA
      /\ ip_reass_pbufcount = PbufsIn(reassdatagrams) /\ ip_reass_pbufcount <= IP_REASS_MAX_PBUFS
  BY DEF IInv, ReassInv
<1>3. KeptIn(arp_table) \in Nat /\ PbufsIn(reassdatagrams) \in Nat
  BY ArpNow, ReassNow
<1>4. ip_reass_pbufcount \in 0 .. IP_REASS_MAX_PBUFS
  BY <1>2, <1>3, FragmentAssumption
<1>5. free \in 0 .. PBUF_POOL_SIZE
  <2>1. free \in Nat /\ InUse <= PBUF_POOL_SIZE
    BY DEF IInv, PoolInv
  <2> QED BY <1>3, <2>1, NetAssumption DEF InUse
<1>6. delivered \subseteq Fragments
  BY DEF IInv, Whole
<1>7. server \in BOOLEAN /\ announced \in [Hosts -> Macs \cup {NoMac}]
  BY DEF IInv
<1> QED BY <1>1, <1>2, <1>4, <1>5, <1>6, <1>7 DEF TypeOK

(***************************************************************************)
(* The ARP table is consistent, for any number of entries and of hosts:    *)
(* etharp_find_entry() never makes a second entry for an address, and      *)
(* never recycles a stable entry that has a queue.                         *)
(***************************************************************************)
THEOREM TableIsConsistent == Spec => []TableConsistent
<1>1. IInv => TableConsistent
  <2> SUFFICES ASSUME IInv PROVE TableConsistent
    OBVIOUS
  <2>1. Unique(arp_table) /\ \A i \in Index : EntryOK(arp_table[i], announced)
    BY DEF IInv, ArpInv, TableOK
  <2>2. OneEntryPerAddress
    BY <2>1 DEF OneEntryPerAddress, Unique
  <2>3. OnlyPendingQueue
    BY <2>1 DEF OnlyPendingQueue, EntryOK
  <2> QED BY <2>2, <2>3, TypesHold DEF TableConsistent
<1> QED BY <1>1, Invariance, PTL

(***************************************************************************)
(* Every packet leaves for the hardware address that its destination       *)
(* announced last, also through etharp_cached_entry.                       *)
(***************************************************************************)
THEOREM SentToRightHost == Spec => []RightHost
<1>1. IInv => RightHost
  <2> SUFFICES ASSUME IInv PROVE RightHost
    OBVIOUS
  <2>1. \A p \in sent : p.mac = announced[p.ip]
    BY DEF IInv, ArpInv
  <2>2. \A i \in Index : EntryOK(arp_table[i], announced)
    BY DEF IInv, ArpInv, TableOK
  <2> QED BY <2>1, <2>2 DEF RightHost, EntryOK
<1> QED BY <1>1, Invariance, PTL

(***************************************************************************)
(* ip4_reass() hands up only datagrams whose fragments cover every byte    *)
(* exactly once.                                                           *)
(***************************************************************************)
THEOREM WholeDelivered == Spec => []DeliveredWhole
<1>1. IInv => DeliveredWhole
  <2> SUFFICES ASSUME IInv, delivered # {}, NEW b \in 0 .. (LengthOf(delivered) - 1)
               PROVE  Cardinality({f \in delivered : f.start <= b /\ b < f.end}) = 1
    BY DEF DeliveredWhole
  <2>1. Whole(delivered)
    BY DEF IInv
  <2> QED BY <2>1, WholeCovered
<1> QED BY <1>1, Invariance, PTL

(***************************************************************************)
(* No buffer of the pool is lost and the count of reassembly is true, as   *)
(* long as udp_server_recv() frees its requests, which it does not do with *)
(* an empty one or without memory (the finding of the run net_empty).      *)
(***************************************************************************)
THEOREM NothingLost ==
  ASSUME RequestsFreed
  PROVE  Spec => []NoLeak
<1>1. IInv => NoLeak
  <2> SUFFICES ASSUME IInv PROVE NoLeak
    OBVIOUS
  <2>1. free + KeptIn(arp_table) + PbufsIn(reassdatagrams) = PBUF_POOL_SIZE
    BY DEF IInv, PoolInv, InUse
  <2>2. CountIsTrue
    BY DEF IInv, ReassInv, ListOK, CountIsTrue
  <2> QED BY <2>1, <2>2 DEF NoLeak
<1> QED BY <1>1, Invariance, PTL

NoDoubleFree == InUse <= PBUF_POOL_SIZE /\ CountIsTrue

(***************************************************************************)
(* The buffers in use are never more than the pool has, also without the   *)
(* condition of NothingLost: none is freed twice (icmp_time_exceeded(),    *)
(* ip_reass_free_complete_datagram() and etharp.c free what is theirs).    *)
(***************************************************************************)
THEOREM NothingFreedTwice == Spec => []NoDoubleFree
<1>1. IInv => NoDoubleFree
  BY DEF IInv, PoolInv, ReassInv, ListOK, CountIsTrue, NoDoubleFree
<1> QED BY <1>1, Invariance, PTL

\* The list keeps or loses a datagram, but none of its fragments alone.
LEMMA ListKeeps ==
  ASSUME IInv, [Next]_vars
  PROVE  Keeps(reassdatagrams, reassdatagrams')
<1>1. ListOK(reassdatagrams)
  BY DEF IInv, ReassInv
<1>2. Keeps(reassdatagrams, reassdatagrams)
  BY <1>1, ShrunkKeeps
<1>3. CASE UNCHANGED reassdatagrams
  BY <1>2, <1>3
<1>4. CASE \E f \in Fragments : InputFragment(f)
  <2>1. PICK f \in Fragments : InputFragment(f)
    BY <1>4
  <2>2. Taken(Reass, ip4_reass(Reass, f), f)
    BY ReassNow, ReassFacts
  <2>3. reassdatagrams' = ip4_reass(Reass, f).list
    BY <2>1 DEF InputFragment, SetReass
  <2> QED BY <2>2, <2>3, ReassNow DEF Taken
<1>5. CASE ReassTimer
  <2>1. Keeps(Reass.list, ip_reass_tmr(Reass).list)
    BY ReassNow, ReassTmrFacts
  <2>2. reassdatagrams' = ip_reass_tmr(Reass).list
    BY <1>5 DEF ReassTimer, SetReass
  <2> QED BY <2>1, <2>2, ReassNow
<1> QED BY <1>3, <1>4, <1>5
    DEF Next, Input, udp_server_init, InputArp, InputDatagram, ArpTimer, DhcpCheck, reassVars, vars

(***************************************************************************)
(* A datagram in reassembly never loses a fragment while it is in the      *)
(* list, also when other datagrams are removed to make room for one of its *)
(* own fragments.                                                          *)
(***************************************************************************)
THEOREM OwnDatagramKept == Spec => KeepsOwnDatagram
<1>1. ASSUME IInv, [Next]_vars
      PROVE  [\A id \in Ids : FragsOf(reassdatagrams, id)' # {} =>
                FragsOf(reassdatagrams, id) \subseteq FragsOf(reassdatagrams, id)']_vars
  <2> SUFFICES ASSUME NEW id \in Ids, FragsOf(reassdatagrams, id)' # {},
                      NEW g \in FragsOf(reassdatagrams, id)
               PROVE  g \in FragsOf(reassdatagrams, id)'
    OBVIOUS
  <2>1. PICK j \in DOMAIN reassdatagrams' : reassdatagrams'[j].id = id
    BY DEF FragsOf
  <2>2. PICK i \in DOMAIN reassdatagrams : reassdatagrams[i].id = id /\ g \in reassdatagrams[i].frags
    BY DEF FragsOf
  <2>3. reassdatagrams[i].frags \subseteq reassdatagrams'[j].frags
    BY <1>1, <2>1, <2>2, ListKeeps DEF Keeps, ToSet
  <2> QED BY <2>1, <2>2, <2>3 DEF FragsOf
<1> QED BY <1>1, Invariance, PTL DEF Spec, KeepsOwnDatagram

=============================================================================
