---------------------------- MODULE Heap_proofs -----------------------------
(***************************************************************************)
(* Proofs about Heap, for every size of the heap, of its structs and of    *)
(* the smallest block, every alignment, every width of mem_size_t and all  *)
(* sizes that are asked for.                                               *)
(*                                                                         *)
(* Three facts, of which no property of Heap speaks, make HeapConsistent   *)
(* inductive: the links back lead where the links forward come from, for   *)
(* plug_holes() follows them; all structs are aligned, so that what is     *)
(* aligned fits wherever what was asked for does; and the struct at the    *)
(* end of the heap stays as mem_init() made it.                            *)
(***************************************************************************)
EXTENDS Heap, WellFoundedInduction, TLAPS

Z == MEM_SIZE_ALIGNED
S == SIZEOF_STRUCT_MEM
A == MEM_ALIGNMENT
Tiny == MIN_SIZE_ALIGNED

\* The list of structs: aligned, inside the heap, in order and linked both ways
Linked(m) ==
  /\ DOMAIN m \subseteq 0..Z /\ 0 \in DOMAIN m /\ Z \in DOMAIN m
  /\ \A o \in DOMAIN m : m[o] \in [next : DOMAIN m, prev : DOMAIN m, used : BOOLEAN]
                         /\ o % A = 0
  /\ m[0].prev = 0 /\ m[Z].next = Z /\ m[Z].prev = Z /\ m[Z].used
  /\ \A o \in DOMAIN m \ {Z} :
       /\ o + S + Tiny <= m[o].next
       /\ \A x \in DOMAIN m : x <= o \/ x >= m[o].next
       /\ m[o].next # Z => m[m[o].next].prev = o
  /\ \A o \in DOMAIN m \ {0, Z} : m[o].prev # Z /\ m[m[o].prev].next = o

\* No two free structs in a row
NoHoles(m) == \A o \in DOMAIN m \ {Z} : m[o].used \/ m[m[o].next].used

\* low is the lowest free struct of m, or the end.
Lowest(m, low) ==
  low \in DOMAIN m /\ (\A o \in DOMAIN m : o < low => m[o].used) /\ (m[low].used => low = Z)

IInv ==
  /\ Linked(mem) /\ NoHoles(mem) /\ Lowest(mem, lfree)
  /\ failed \in 0..(Width - 1)
  /\ UsedIsHeld /\ FailsOnlyWhenFull
  /\ \A a \in DOMAIN blocks : blocks[a] \in Nat

----------------------------------------------------------------------------
(* Numbers.                                                                *)

\* The constants, without the definitions
LEMMA Constants ==
  /\ Z \in Nat \ {0} /\ S \in Nat \ {0} /\ A \in Nat \ {0} /\ Width \in Nat \ {0}
  /\ MIN_SIZE \in Nat \ {0}
  /\ Z % A = 0 /\ S % A = 0 /\ S + MIN_SIZE + A <= Z /\ Z < Width
  /\ Sizes \subseteq 0..(Width - 1)
BY HeapAssumption DEF Z, S, A

\* Multiples of the alignment
LEMMA Multiple ==
  ASSUME NEW x \in Nat
  PROVE  x % A = 0 <=> \E q \in Nat : x = q * A
<1>1. A \in Nat \ {0}
  BY Constants
<1>2. x % A = 0 => x = (x \div A) * A /\ x \div A \in Nat
  BY <1>1
<1>3. ASSUME NEW q \in Nat PROVE (q * A) % A = 0
  BY <1>1
<1> QED BY <1>2, <1>3

\* Sums of multiples are multiples.
LEMMA SumOfMultiples ==
  ASSUME NEW x \in Nat, NEW y \in Nat, x % A = 0, y % A = 0
  PROVE  (x + y) % A = 0
<1>1. PICK q \in Nat : x = q * A
  BY Multiple
<1>2. PICK r \in Nat : y = r * A
  BY Multiple
<1>3. x + y = (q + r) * A /\ q + r \in Nat
  BY <1>1, <1>2, Constants
<1> QED BY <1>3, Multiple

\* A multiple that is less than another is less by the alignment at least.
LEMMA MultipleBelow ==
  ASSUME NEW x \in Nat, NEW y \in Nat, x % A = 0, y % A = 0, x < y + A
  PROVE  x <= y
<1>1. PICK q \in Nat : x = q * A
  BY Multiple
<1>2. PICK r \in Nat : y = r * A
  BY Multiple
<1>3. A \in Nat \ {0} /\ q * A < r * A + A
  BY <1>1, <1>2, Constants
<1>4. q * A <= r * A
  BY <1>3
<1> QED BY <1>1, <1>2, <1>4

\* So are differences.
LEMMA DifferenceOfMultiples ==
  ASSUME NEW x \in Nat, NEW y \in Nat, x % A = 0, y % A = 0, y <= x
  PROVE  x - y \in Nat /\ (x - y) % A = 0
<1>1. PICK q \in Nat : x = q * A
  BY Multiple
<1>2. PICK r \in Nat : y = r * A
  BY Multiple
<1>3. A \in Nat \ {0} /\ r * A <= q * A
  BY <1>1, <1>2, Constants
<1>4. r <= q
  BY <1>3
<1>5. x - y = (q - r) * A /\ q - r \in Nat
  BY <1>1, <1>2, <1>3, <1>4
<1> QED BY <1>5, Multiple, Constants

\* LWIP_MEM_ALIGN_SIZE rounds up to a multiple, unless that does not fit in
\* mem_size_t.
LEMMA RoundUp ==
  ASSUME NEW n \in Nat
  PROVE  \E k \in Nat : /\ k % A = 0 /\ n <= k /\ k < n + A
                        /\ k < Width => Aligned(n) = k
                        /\ k >= Width /\ n < Width => Aligned(n) = k - Width
<1> DEFINE k == ((n + A - 1) \div A) * A
<1>1. A \in Nat \ {0} /\ n + A - 1 \in Nat /\ Width \in Nat \ {0} /\ A < Width
  BY Constants
<1>2. k <= n + A - 1 /\ n + A - 1 < k + A /\ (n + A - 1) \div A \in Nat
  BY <1>1
<1>3. k \in Nat /\ k % A = 0
  BY <1>1, <1>2
<1>4. Aligned(n) = k % Width
  BY DEF Aligned, A
<1> HIDE DEF k
<1>5. n <= k /\ k < n + A
  BY <1>1, <1>2, <1>3
<1>6. k < Width => Aligned(n) = k
  BY <1>1, <1>3, <1>4
<1>7. k >= Width /\ n < Width => Aligned(n) = k - Width
  BY <1>1, <1>3, <1>4, <1>5
<1> QED BY <1>3, <1>5, <1>6, <1>7

\* The smallest block is aligned, and fits in the heap.
LEMMA TinyFacts == Tiny \in Nat \ {0} /\ Tiny % A = 0 /\ S + Tiny <= Z /\ A <= S
<1>1. PICK k \in Nat : /\ k % A = 0 /\ MIN_SIZE <= k /\ k < MIN_SIZE + A
                       /\ k < Width => Aligned(MIN_SIZE) = k
  BY Constants, RoundUp
<1>2. k < Width /\ S + k <= Z
  BY <1>1, Constants
<1>3. Tiny = k
  BY <1>1, <1>2 DEF Tiny, MIN_SIZE_ALIGNED
<1>4. A <= S
  BY Constants
<1> QED BY <1>1, <1>2, <1>3, <1>4, Constants

\* A size that passes the tests of mem_malloc() is aligned and has room for what
\* was asked.
LEMMA PossibleFacts ==
  ASSUME NEW n \in 0..(Width - 1), ~Impossible(n)
  PROVE  /\ DataSize(n) \in Nat /\ DataSize(n) % A = 0
         /\ n <= DataSize(n) /\ Tiny <= DataSize(n) /\ DataSize(n) <= Z
<1>1. n \in Nat /\ n < Width /\ A < Width
  BY Constants
<1>2. PICK k \in Nat : /\ k % A = 0 /\ n <= k /\ k < n + A
                       /\ k < Width => Aligned(n) = k
                       /\ k >= Width /\ n < Width => Aligned(n) = k - Width
  BY <1>1, RoundUp
<1>3. Aligned(n) \in Nat
  BY <1>1, <1>2, Constants
<1>4. DataSize(n) = IF Aligned(n) < Tiny THEN Tiny ELSE Aligned(n)
  BY DEF DataSize, Tiny
<1>5. DataSize(n) <= Z /\ n <= DataSize(n)
  BY <1>1, <1>3, <1>4, TinyFacts, Constants DEF Impossible, Z
<1>6. k >= Width => Aligned(n) < n
  BY <1>1, <1>2, Constants
<1>7. DataSize(n) % A = 0
  <2>1. CASE k < Width
    BY <1>2, <1>4, <2>1, TinyFacts
  <2>2. CASE k >= Width
    <3>1. DataSize(n) = Tiny
      BY <1>1, <1>3, <1>4, <1>5, <1>6, <2>2, TinyFacts
    <3> QED BY <3>1, TinyFacts
  <2>3. k < Width \/ k >= Width
    BY <1>2, Constants
  <2> QED BY <2>1, <2>2, <2>3
<1> QED BY <1>3, <1>4, <1>5, <1>7, TinyFacts

\* What fits in an aligned room fits there aligned.
LEMMA FitsAligned ==
  ASSUME NEW n \in 0..(Width - 1), NEW r \in Nat, r % A = 0, n <= r, r <= Z, Tiny <= r
  PROVE  /\ DataSize(n) \in Nat /\ DataSize(n) % A = 0 /\ n <= DataSize(n)
         /\ Tiny <= DataSize(n) /\ DataSize(n) <= r
<1>1. n \in Nat /\ r < Width
  BY Constants
<1>2. PICK k \in Nat : /\ k % A = 0 /\ n <= k /\ k < n + A
                       /\ k < Width => Aligned(n) = k
  BY <1>1, RoundUp
<1>3. k <= r
  <2>1. k < r + A
    BY <1>1, <1>2, Constants
  <2> QED BY <1>2, <2>1, MultipleBelow
<1>4. Aligned(n) = k
  BY <1>1, <1>2, <1>3, Constants
<1>5. DataSize(n) = IF k < Tiny THEN Tiny ELSE k
  BY <1>4 DEF DataSize, Tiny
<1> QED BY <1>1, <1>2, <1>3, <1>5, TinyFacts

\* An impossible size does not fit into the heap, next to the first struct.
LEMMA ImpossibleFacts ==
  ASSUME NEW n \in 0..(Width - 1), Impossible(n)
  PROVE  Z - S < n
<1> SUFFICES ASSUME n <= Z - S PROVE FALSE
  BY Constants
<1>1. Z - S \in Nat /\ (Z - S) % A = 0 /\ Tiny <= Z - S /\ Z - S <= Z
  <2>1. S <= Z /\ Z \in Nat /\ S \in Nat /\ Z % A = 0 /\ S % A = 0
    BY Constants, TinyFacts
  <2>2. Z - S \in Nat /\ (Z - S) % A = 0
    BY <2>1, DifferenceOfMultiples
  <2> QED BY <2>1, <2>2, TinyFacts
<1>2. DataSize(n) \in Nat /\ n <= DataSize(n) /\ DataSize(n) <= Z - S
  BY <1>1, FitsAligned
<1> QED BY <1>1, <1>2, Constants DEF Impossible, Z

\* There is a least offset in every set of offsets that is not empty.
LEMMA LeastFacts ==
  ASSUME NEW T, T \subseteq Nat, T # {}
  PROVE  Least(T) \in T /\ \A y \in T : Least(T) <= y
<1>1. IsWellFoundedOn(OpToRel(<, Nat), Nat)
  BY NatLessThanWellFounded
<1>2. PICK x \in T : \A y \in T : ~(<<y, x>> \in OpToRel(<, Nat))
  BY <1>1, WFMin
<1>3. \A y \in T : ~(y < x)
  BY <1>2 DEF OpToRel
<1>4. \A y \in T : x <= y
  BY <1>3
<1> QED BY <1>2, <1>4 DEF Least

----------------------------------------------------------------------------
(* The list.                                                               *)

\* Everything about one struct that Linked says
LEMMA StructFacts ==
  ASSUME NEW m, Linked(m), NEW o \in DOMAIN m, o # Z
  PROVE  /\ o \in Nat /\ o % A = 0 /\ o < Z
         /\ m[o].next \in DOMAIN m /\ m[o].next \in 0..Z /\ o + S + Tiny <= m[o].next
         /\ m[o].next % A = 0 /\ o < m[o].next
         /\ Room(m, o) \in Nat /\ Room(m, o) % A = 0 /\ Tiny <= Room(m, o) /\ Room(m, o) <= Z - S - o
         /\ m[o].next = o + S + Room(m, o)
<1>1. /\ o \in 0..Z /\ o % A = 0 /\ m[o].next \in DOMAIN m /\ m[o].next \in 0..Z
      /\ m[o].next % A = 0 /\ o + S + Tiny <= m[o].next
  BY DEF Linked
<1>2. S \in Nat \ {0} /\ Tiny \in Nat \ {0} /\ Z \in Nat /\ S % A = 0
  BY Constants, TinyFacts
<1>3. o \in Nat /\ o < Z /\ o < m[o].next /\ o + S \in Nat /\ o + S <= m[o].next
  BY <1>1, <1>2
<1>4. (o + S) % A = 0
  BY <1>1, <1>2, <1>3, SumOfMultiples
<1>5. Room(m, o) = m[o].next - (o + S)
  BY DEF Room, S
<1>6. Room(m, o) \in Nat /\ Room(m, o) % A = 0
  BY <1>1, <1>2, <1>3, <1>4, <1>5, DifferenceOfMultiples
<1>7. Tiny <= Room(m, o) /\ Room(m, o) <= Z - S - o /\ m[o].next = o + S + Room(m, o)
  BY <1>1, <1>2, <1>3, <1>5
<1> QED BY <1>1, <1>3, <1>6, <1>7

\* m2 is m, but for the mark of the struct at o.
Remarked(m, m2, o) ==
  /\ DOMAIN m2 = DOMAIN m /\ \A x \in DOMAIN m \ {o} : m2[x] = m[x]
  /\ m2[o].next = m[o].next /\ m2[o].prev = m[o].prev
  /\ m2[o] \in [next : DOMAIN m, prev : DOMAIN m, used : BOOLEAN]

\* Taking or freeing a struct leaves the list as it is.
LEMMA MarkFacts ==
  ASSUME NEW m, Linked(m), NEW o \in DOMAIN m, o # Z, NEW m2, Remarked(m, m2, o)
  PROVE  /\ Linked(m2) /\ DOMAIN m2 = DOMAIN m
         /\ \A x \in DOMAIN m : m2[x].next = m[x].next
         /\ \A x \in DOMAIN m \ {o} : m2[x].used = m[x].used
<1>1. \A x \in DOMAIN m : m[x] \in [next : DOMAIN m, prev : DOMAIN m, used : BOOLEAN]
  BY DEF Linked
<1>2. DOMAIN m2 = DOMAIN m /\ \A x \in DOMAIN m \ {o} : m2[x] = m[x]
  BY DEF Remarked
<1>3. \A x \in DOMAIN m : /\ m2[x].next = m[x].next /\ m2[x].prev = m[x].prev
                          /\ m2[x] \in [next : DOMAIN m, prev : DOMAIN m, used : BOOLEAN]
  BY <1>1 DEF Remarked
<1>4. Linked(m2)
  BY <1>2, <1>3 DEF Linked
<1> QED BY <1>2, <1>3, <1>4

\* A struct is taken.
LEMMA MarkUsed ==
  ASSUME NEW m, Linked(m), NEW o \in DOMAIN m, NEW m2, m2 = [m EXCEPT ![o].used = TRUE]
  PROVE  Remarked(m, m2, o) /\ m2[o].used
<1>1. m[o] \in [next : DOMAIN m, prev : DOMAIN m, used : BOOLEAN]
  BY DEF Linked
<1>2. DOMAIN m2 = DOMAIN m /\ m2[o] = [m[o] EXCEPT !.used = TRUE] /\ \A x \in DOMAIN m \ {o} : m2[x] = m[x]
  OBVIOUS
<1> QED BY <1>1, <1>2 DEF Remarked

\* A struct is freed.
LEMMA MarkFree ==
  ASSUME NEW m, Linked(m), NEW o \in DOMAIN m, NEW m2, m2 = [m EXCEPT ![o].used = FALSE]
  PROVE  Remarked(m, m2, o) /\ ~m2[o].used
<1>1. m[o] \in [next : DOMAIN m, prev : DOMAIN m, used : BOOLEAN]
  BY DEF Linked
<1>2. DOMAIN m2 = DOMAIN m /\ m2[o] = [m[o] EXCEPT !.used = FALSE] /\ \A x \in DOMAIN m \ {o} : m2[x] = m[x]
  OBVIOUS
<1> QED BY <1>1, <1>2 DEF Remarked

\* The links of all structs lead to offsets in D.
Typed(m, D) == \A x \in DOMAIN m : m[x] \in [next : D, prev : D, used : BOOLEAN]

\* What LinkBack() changes, in terms of the struct after o
LEMMA LinkBackFacts ==
  ASSUME NEW m, NEW D, Typed(m, D), NEW o \in DOMAIN m, o \in D, m[o].next \in DOMAIN m, NEW m2, m2 = LinkBack(m, o)
  PROVE  /\ DOMAIN m2 = DOMAIN m
         /\ \A x \in DOMAIN m :
              /\ m2[x].next = m[x].next /\ m2[x].used = m[x].used
              /\ m2[x].prev = (IF x = m[o].next /\ x # Z THEN o ELSE m[x].prev)
              /\ m2[x] \in [next : D, prev : D, used : BOOLEAN]
<1>0. \A x \in DOMAIN m : m[x] \in [next : D, prev : D, used : BOOLEAN]
  BY DEF Typed
<1>1. CASE m[o].next = Z
  BY <1>0, <1>1 DEF LinkBack, Z
<1>2. CASE m[o].next # Z
  <2> DEFINE n == m[o].next
  <2>1. m2 = [m EXCEPT ![n].prev = o]
    BY <1>2 DEF LinkBack, Z
  <2>2. n \in DOMAIN m
    OBVIOUS
  <2> HIDE DEF n
  <2>3. DOMAIN m2 = DOMAIN m /\ m2[n] = [m[n] EXCEPT !.prev = o]
        /\ \A x \in DOMAIN m \ {n} : m2[x] = m[x]
    BY <2>1, <2>2
  <2>4. /\ m2[n].next = m[n].next /\ m2[n].used = m[n].used /\ m2[n].prev = o
        /\ m2[n] \in [next : D, prev : D, used : BOOLEAN]
    BY <1>0, <2>2, <2>3
  <2>5. n # Z
    BY <1>2 DEF n
  <2> QED BY <1>0, <2>3, <2>4, <2>5 DEF n
<1> QED BY <1>1, <1>2

\* There is room for a struct at at, within the data of the one at o.
Between(m, o, at) ==
  at \in Nat /\ at % A = 0 /\ o + S + Tiny <= at /\ at + S + Tiny <= m[o].next

\* m2 is m with a free struct at at, between the one at o and the one after it.
Inserted(m, m2, o, at) ==
  /\ Linked(m2) /\ at \notin DOMAIN m /\ at # Z /\ DOMAIN m2 = DOMAIN m \cup {at}
  /\ m2[o].next = at /\ m2[at].next = m[o].next /\ ~m2[at].used
  /\ \A x \in DOMAIN m : m2[x].used = m[x].used
  /\ \A x \in DOMAIN m \ {o} : m2[x].next = m[x].next

\* A struct that is made within the data of another goes into the list after it.
LEMMA InsertFacts ==
  ASSUME NEW m, Linked(m), NEW o \in DOMAIN m, o # Z,
         NEW at, Between(m, o, at), NEW m2, m2 = Insert(m, o, at)
  PROVE  Inserted(m, m2, o, at)
<1>1. /\ o \in Nat /\ o < Z /\ m[o].next \in DOMAIN m /\ m[o].next \in 0..Z
      /\ S \in Nat \ {0} /\ Tiny \in Nat \ {0} /\ Z \in Nat
  BY StructFacts, Constants, TinyFacts
<1>2. /\ o < at /\ at < m[o].next /\ at \in 0..Z /\ at # Z
      /\ at \in Nat /\ at % A = 0 /\ o + S + Tiny <= at /\ at + S + Tiny <= m[o].next
  BY <1>1 DEF Between
<1>3. DOMAIN m \subseteq 0..Z /\ \A x \in DOMAIN m : x <= o \/ x >= m[o].next
  BY DEF Linked
<1>4. at \notin DOMAIN m
  BY <1>1, <1>2, <1>3
<1> DEFINE r == [next |-> m[o].next, prev |-> o, used |-> FALSE]
           m1 == With([m EXCEPT ![o].next = at], at, r)
<1>5. /\ DOMAIN m1 = DOMAIN m \cup {at} /\ m1[at] = r
      /\ m1[o] = [m[o] EXCEPT !.next = at]
      /\ \A x \in DOMAIN m \ {o} : m1[x] = m[x]
  <2> DEFINE f == [m EXCEPT ![o].next = at]
  <2>1. DOMAIN f = DOMAIN m /\ f[o] = [m[o] EXCEPT !.next = at]
        /\ \A x \in DOMAIN m \ {o} : f[x] = m[x]
    OBVIOUS
  <2> HIDE DEF f, r
  <2>2. m1 = [x \in DOMAIN f \cup {at} |-> IF x = at THEN r ELSE f[x]]
    BY DEF f, With
  <2> HIDE DEF m1
  <2> QED BY <1>4, <2>1, <2>2
<1>6. m2 = LinkBack(m1, at)
  BY DEF Insert
<1> HIDE DEF m1
<1>7. \A x \in DOMAIN m : m[x] \in [next : DOMAIN m, prev : DOMAIN m, used : BOOLEAN]
  BY DEF Linked
<1>8. /\ m1[o].next = at /\ m1[o].prev = m[o].prev /\ m1[o].used = m[o].used
      /\ m1[o] \in [next : DOMAIN m1, prev : DOMAIN m1, used : BOOLEAN]
  BY <1>5, <1>7
<1>9. /\ m1[at].next = m[o].next /\ m1[at].prev = o /\ m1[at].used = FALSE
      /\ m1[at] \in [next : DOMAIN m1, prev : DOMAIN m1, used : BOOLEAN]
  BY <1>1, <1>5
<1> HIDE DEF r
<1>10. Typed(m1, DOMAIN m1)
  BY <1>5, <1>7, <1>8, <1>9 DEF Typed
<1>11. at \in DOMAIN m1 /\ m1[at].next \in DOMAIN m1
  BY <1>1, <1>5, <1>9
<1>12. /\ DOMAIN m2 = DOMAIN m \cup {at}
       /\ \A x \in DOMAIN m2 :
            /\ m2[x].next = m1[x].next /\ m2[x].used = m1[x].used
            /\ m2[x].prev = (IF x = m[o].next /\ x # Z THEN at ELSE m1[x].prev)
            /\ m2[x] \in [next : DOMAIN m2, prev : DOMAIN m2, used : BOOLEAN]
  <2>1. /\ DOMAIN m2 = DOMAIN m1
        /\ \A x \in DOMAIN m1 :
             /\ m2[x].next = m1[x].next /\ m2[x].used = m1[x].used
             /\ m2[x].prev = (IF x = m1[at].next /\ x # Z THEN at ELSE m1[x].prev)
             /\ m2[x] \in [next : DOMAIN m1, prev : DOMAIN m1, used : BOOLEAN]
    <3> DEFINE D == DOMAIN m1
    <3>1. Typed(m1, D) /\ at \in D
      BY <1>10, <1>11
    <3> HIDE DEF D
    <3>2. /\ DOMAIN m2 = DOMAIN m1
          /\ \A x \in DOMAIN m1 :
               /\ m2[x].next = m1[x].next /\ m2[x].used = m1[x].used
               /\ m2[x].prev = (IF x = m1[at].next /\ x # Z THEN at ELSE m1[x].prev)
               /\ m2[x] \in [next : D, prev : D, used : BOOLEAN]
      BY <1>6, <1>11, <3>1, LinkBackFacts
    <3> QED BY <3>2 DEF D
  <2> QED BY <1>5, <1>9, <2>1
<1>13. /\ m2[o].next = at /\ m2[at].next = m[o].next /\ ~m2[at].used
       /\ \A x \in DOMAIN m : m2[x].used = m[x].used
       /\ \A x \in DOMAIN m \ {o} : m2[x].next = m[x].next
  BY <1>4, <1>5, <1>8, <1>9, <1>12
<1>14. /\ m2[at].prev = o
       /\ m[o].next # Z => m2[m[o].next].prev = at
       /\ \A x \in DOMAIN m : x # m[o].next \/ x = Z => m2[x].prev = m[x].prev
  BY <1>1, <1>2, <1>4, <1>5, <1>8, <1>9, <1>12
<1>15. Linked(m2)
  <2>1. /\ DOMAIN m2 \subseteq 0..Z /\ 0 \in DOMAIN m2 /\ Z \in DOMAIN m2
        /\ m2[Z].next = Z /\ m2[Z].prev = Z /\ m2[Z].used
        /\ \A x \in DOMAIN m2 : x % A = 0
    <3>1. /\ Z \in DOMAIN m /\ 0 \in DOMAIN m /\ m[Z].next = Z /\ m[Z].prev = Z /\ m[Z].used
          /\ \A x \in DOMAIN m : x % A = 0
      BY DEF Linked
    <3>2. m2[Z].next = Z /\ m2[Z].used /\ m2[Z].prev = Z
      BY <1>13, <1>14, <3>1
    <3> QED BY <1>2, <1>3, <1>12, <3>1, <3>2
  <2>2. m2[0].prev = 0
    BY <1>1, <1>2, <1>14 DEF Linked
  <2>3. ASSUME NEW x \in DOMAIN m2 \ {Z}
        PROVE  /\ x + S + Tiny <= m2[x].next
               /\ \A y \in DOMAIN m2 : y <= x \/ y >= m2[x].next
               /\ m2[x].next # Z => m2[m2[x].next].prev = x
    <3>1. CASE x = o
      BY <1>1, <1>2, <1>3, <1>12, <1>13, <1>14, <3>1
    <3>2. CASE x = at
      BY <1>1, <1>2, <1>3, <1>12, <1>13, <1>14, <3>2
    <3>3. CASE x # o /\ x # at
      <4>1. /\ x \in DOMAIN m \ {Z} /\ m2[x].next = m[x].next /\ x \in 0..Z
            /\ x + S + Tiny <= m[x].next /\ m[x].next \in 0..Z /\ m[x].next \in DOMAIN m
            /\ \A y \in DOMAIN m : y <= x \/ y >= m[x].next
            /\ m[x].next # Z => m[m[x].next].prev = x
        BY <1>3, <1>12, <1>13, <3>3 DEF Linked
      <4>2. at <= x \/ at >= m[x].next
        <5>1. CASE x < o
          BY <1>1, <1>2, <4>1, <5>1
        <5>2. CASE x > o
          BY <1>1, <1>2, <1>3, <4>1, <5>2
        <5> QED BY <1>1, <3>3, <4>1, <5>1, <5>2
      <4>3. m[x].next # Z => m[x].next # m[o].next
        BY <3>3, <4>1 DEF Linked
      <4> QED BY <1>12, <1>14, <4>1, <4>2, <4>3
    <3> QED BY <3>1, <3>2, <3>3
  <2>4. ASSUME NEW x \in DOMAIN m2 \ {0, Z}
        PROVE  m2[x].prev # Z /\ m2[m2[x].prev].next = x
    <3>1. CASE x = at
      BY <1>1, <1>13, <1>14, <3>1
    <3>2. CASE x = m[o].next
      BY <1>1, <1>2, <1>13, <1>14, <3>2
    <3>3. CASE x # at /\ x # m[o].next
      <4>1. /\ x \in DOMAIN m \ {0, Z} /\ m[x].prev # Z /\ m[m[x].prev].next = x
            /\ m[x].prev \in DOMAIN m
        BY <1>12, <3>3 DEF Linked
      <4>2. m[x].prev # o
        BY <3>3, <4>1
      <4> QED BY <1>13, <1>14, <3>3, <4>1, <4>2
    <3> QED BY <3>1, <3>2, <3>3
  <2> QED BY <1>12, <2>1, <2>2, <2>3, <2>4 DEF Linked
<1> QED BY <1>2, <1>4, <1>12, <1>13, <1>15 DEF Inserted

\* A struct that is merged with the one before it leaves the list.
LEMMA AbsorbFacts ==
  ASSUME NEW m, Linked(m), NEW a \in DOMAIN m, a # Z, NEW b, b = m[a].next, b # Z,
         NEW m2, m2 = Absorb(m, a, b)
  PROVE  /\ Linked(m2) /\ DOMAIN m2 = DOMAIN m \ {b}
         /\ m2[a].next = m[b].next
         /\ \A x \in DOMAIN m2 : m2[x].used = m[x].used
         /\ \A x \in DOMAIN m2 \ {a} : m2[x].next = m[x].next
<1> DEFINE c == m[b].next
<1>1. /\ a \in Nat /\ b \in DOMAIN m /\ b \in 0..Z /\ a + S + Tiny <= b
      /\ c \in DOMAIN m /\ c \in 0..Z /\ b + S + Tiny <= c
      /\ S \in Nat \ {0} /\ Tiny \in Nat \ {0} /\ Z \in Nat
  BY StructFacts, Constants, TinyFacts
<1>2. a < b /\ b < c
  BY <1>1
<1>3. /\ DOMAIN m \subseteq 0..Z /\ Typed(m, DOMAIN m)
      /\ \A x \in DOMAIN m : (x <= a \/ x >= b) /\ (x <= b \/ x >= c)
  BY <1>1 DEF Linked, Typed
<1> DEFINE m1 == [x \in DOMAIN m \ {b} |-> IF x = a THEN [m[a] EXCEPT !.next = c] ELSE m[x]]
<1>4. /\ DOMAIN m1 = DOMAIN m \ {b} /\ m1[a] = [m[a] EXCEPT !.next = c]
      /\ \A x \in DOMAIN m \ {a, b} : m1[x] = m[x]
  BY <1>1, <1>2
<1>5. m2 = LinkBack(m1, a)
  BY DEF Absorb
<1> HIDE DEF m1, c
<1>6. /\ m1[a].next = c /\ m1[a].prev = m[a].prev /\ m1[a].used = m[a].used
      /\ m1[a] \in [next : DOMAIN m, prev : DOMAIN m, used : BOOLEAN]
  BY <1>1, <1>3, <1>4 DEF Typed
<1>7. Typed(m1, DOMAIN m) /\ a \in DOMAIN m1 /\ m1[a].next \in DOMAIN m1
  BY <1>1, <1>2, <1>3, <1>4, <1>6 DEF Typed
<1>8. /\ DOMAIN m2 = DOMAIN m \ {b}
      /\ \A x \in DOMAIN m2 :
           /\ m2[x].next = m1[x].next /\ m2[x].used = m1[x].used
           /\ m2[x].prev = (IF x = c /\ x # Z THEN a ELSE m1[x].prev)
           /\ m2[x] \in [next : DOMAIN m, prev : DOMAIN m, used : BOOLEAN]
  <2>1. /\ DOMAIN m2 = DOMAIN m1
        /\ \A x \in DOMAIN m1 :
             /\ m2[x].next = m1[x].next /\ m2[x].used = m1[x].used
             /\ m2[x].prev = (IF x = m1[a].next /\ x # Z THEN a ELSE m1[x].prev)
             /\ m2[x] \in [next : DOMAIN m, prev : DOMAIN m, used : BOOLEAN]
    BY <1>5, <1>7, LinkBackFacts
  <2> QED BY <1>4, <1>6, <2>1
<1>9. /\ m2[a].next = c
      /\ \A x \in DOMAIN m2 : m2[x].used = m[x].used
      /\ \A x \in DOMAIN m2 \ {a} : m2[x].next = m[x].next
  BY <1>1, <1>2, <1>4, <1>6, <1>8
<1>10. /\ c # Z => m2[c].prev = a
       /\ \A x \in DOMAIN m2 : x # c \/ x = Z => m2[x].prev = m[x].prev
  BY <1>1, <1>2, <1>4, <1>6, <1>8
<1>11. \A x \in DOMAIN m : x # c \/ x = Z => m[x].prev # b
  <2> SUFFICES ASSUME NEW x \in DOMAIN m, x # c \/ x = Z, m[x].prev = b PROVE FALSE
    OBVIOUS
  <2>1. CASE x # 0 /\ x # Z
    BY <2>1 DEF Linked, c
  <2>2. CASE x = 0
    BY <1>1, <1>2, <2>2 DEF Linked
  <2>3. CASE x = Z
    BY <1>1, <1>2, <2>3 DEF Linked
  <2> QED BY <2>1, <2>2, <2>3
<1>12. \A x \in DOMAIN m : m[x].next = b => x = a
  <2> SUFFICES ASSUME NEW x \in DOMAIN m, m[x].next = b PROVE x = a
    OBVIOUS
  <2> QED BY <1>1, <1>2 DEF Linked
<1>13. \A x \in DOMAIN m2 : m2[x] \in [next : DOMAIN m2, prev : DOMAIN m2, used : BOOLEAN]
  <2> SUFFICES ASSUME NEW x \in DOMAIN m2
               PROVE  m2[x] \in [next : DOMAIN m2, prev : DOMAIN m2, used : BOOLEAN]
    OBVIOUS
  <2>1. m2[x] \in [next : DOMAIN m, prev : DOMAIN m, used : BOOLEAN]
    BY <1>8
  <2>2. m2[x].next # b
    BY <1>1, <1>2, <1>8, <1>9, <1>12
  <2>3. m2[x].prev # b
    BY <1>1, <1>2, <1>8, <1>10, <1>11
  <2> QED BY <1>8, <2>1, <2>2, <2>3
<1>14. Linked(m2)
  <2>1. /\ DOMAIN m2 \subseteq 0..Z /\ 0 \in DOMAIN m2 /\ Z \in DOMAIN m2
        /\ m2[Z].next = Z /\ m2[Z].prev = Z /\ m2[Z].used
        /\ \A x \in DOMAIN m2 : x % A = 0
    BY <1>1, <1>2, <1>8, <1>9, <1>10 DEF Linked
  <2>2. m2[0].prev = 0
    BY <1>1, <1>2, <1>8, <1>10 DEF Linked
  <2>3. ASSUME NEW x \in DOMAIN m2 \ {Z}
        PROVE  /\ x + S + Tiny <= m2[x].next
               /\ \A y \in DOMAIN m2 : y <= x \/ y >= m2[x].next
               /\ m2[x].next # Z => m2[m2[x].next].prev = x
    <3>1. CASE x = a
      <4>1. x + S + Tiny <= c
        BY <1>1, <1>2, <3>1
      <4>2. \A y \in DOMAIN m2 : y <= a \/ y >= c
        <5> SUFFICES ASSUME NEW y \in DOMAIN m2 PROVE y <= a \/ y >= c
          OBVIOUS
        <5>1. y \in 0..Z /\ y # b /\ (y <= a \/ y >= b) /\ (y <= b \/ y >= c)
          BY <1>3, <1>8
        <5> QED BY <1>1, <1>2, <5>1
      <4> QED BY <1>9, <1>10, <3>1, <4>1, <4>2
    <3>2. CASE x # a
      <4>1. /\ x \in DOMAIN m \ {b, Z} /\ m2[x].next = m[x].next
            /\ x + S + Tiny <= m[x].next
            /\ \A y \in DOMAIN m : y <= x \/ y >= m[x].next
            /\ m[x].next # Z => m[m[x].next].prev = x
        BY <1>8, <1>9, <3>2 DEF Linked
      <4>2. m[x].next # b /\ m[x].next \in DOMAIN m2
        BY <1>8, <1>12, <1>3, <3>2, <4>1 DEF Typed
      <4>3. m[x].next = c => c = Z
        <5>1. c # Z => m[c].prev = b
          BY <1>1 DEF Linked, c
        <5> QED BY <4>1, <5>1
      <4> QED BY <1>8, <1>10, <4>1, <4>2, <4>3
    <3> QED BY <3>1, <3>2
  <2>4. ASSUME NEW x \in DOMAIN m2 \ {0, Z}
        PROVE  m2[x].prev # Z /\ m2[m2[x].prev].next = x
    <3>1. CASE x = c
      BY <1>9, <1>10, <3>1
    <3>2. CASE x # c
      <4>1. /\ x \in DOMAIN m \ {0, Z, b} /\ m[x].prev # Z /\ m[m[x].prev].next = x
            /\ m[x].prev \in DOMAIN m /\ m[x].prev # b
        BY <1>3, <1>8, <1>11, <3>2 DEF Linked, Typed
      <4>2. m[x].prev # a
        BY <1>8, <4>1
      <4>3. m2[x].prev = m[x].prev
        BY <1>10, <3>2
      <4> QED BY <1>8, <1>9, <4>1, <4>2, <4>3
    <3> QED BY <3>1, <3>2
  <2> QED BY <1>13, <2>1, <2>2, <2>3, <2>4 DEF Linked
<1> QED BY <1>8, <1>9, <1>14 DEF c

\* No two free structs in a row, but for the one at o and its neighbours
NoHolesBut(m, o) ==
  \A x \in DOMAIN m \ {Z} : m[x].used \/ m[m[x].next].used \/ x = o \/ m[x].next = o

\* The first half of plug_holes(), for the struct at o and the one after it
LEMMA ForwardFacts ==
  ASSUME NEW m, Linked(m), NEW o \in DOMAIN m, o # Z, ~m[o].used, NoHolesBut(m, o),
         NEW low, Lowest(m, low), NEW n, n = m[o].next, ~m[n].used,
         NEW m1, m1 = Absorb(m, o, n)
  PROVE  /\ Linked(m1) /\ o \in DOMAIN m1 /\ ~m1[o].used /\ m1[m1[o].next].used
         /\ NoHolesBut(m1, o) /\ Lowest(m1, low) /\ low # n
         /\ DOMAIN m1 \subseteq DOMAIN m
         /\ \A x \in DOMAIN m1 : m1[x].used = m[x].used
         /\ \A x \in DOMAIN m : m[x].used => x \in DOMAIN m1 /\ m1[x].next = m[x].next
<1>1. n \in DOMAIN m /\ n # Z /\ n \in Nat /\ o \in Nat /\ o < n
  BY StructFacts DEF Linked
<1>2. /\ Linked(m1) /\ DOMAIN m1 = DOMAIN m \ {n} /\ m1[o].next = m[n].next
      /\ \A x \in DOMAIN m1 : m1[x].used = m[x].used
      /\ \A x \in DOMAIN m1 \ {o} : m1[x].next = m[x].next
  BY <1>1, AbsorbFacts
<1>3. m[n].next \in DOMAIN m /\ n < m[n].next /\ m[n].next \in Nat
  BY <1>1, StructFacts, Constants
<1>4. m[m[n].next].used
  BY <1>1, <1>3 DEF NoHolesBut
<1>5. o \in DOMAIN m1 /\ ~m1[o].used /\ m1[m1[o].next].used
  BY <1>1, <1>2, <1>3, <1>4
<1>6. NoHolesBut(m1, o)
  <2> SUFFICES ASSUME NEW x \in DOMAIN m1 \ {Z}, x # o, m1[x].next # o, ~m1[x].used
               PROVE  m1[m1[x].next].used
    BY DEF NoHolesBut
  <2>1. m1[x].next = m[x].next /\ x \in DOMAIN m \ {Z} /\ ~m[x].used
    BY <1>2
  <2>2. m1[x].next \in DOMAIN m1
    BY <1>2 DEF Linked
  <2>3. m[m[x].next].used
    BY <2>1 DEF NoHolesBut
  <2> QED BY <1>2, <2>1, <2>2, <2>3
<1>7. low \in Nat /\ low <= o /\ low \in DOMAIN m
  BY <1>1 DEF Lowest, Linked
<1>8. low # n /\ Lowest(m1, low)
  BY <1>1, <1>2, <1>7 DEF Lowest
<1>9. \A x \in DOMAIN m : m[x].used => x \in DOMAIN m1 /\ m1[x].next = m[x].next
  BY <1>2
<1> QED BY <1>2, <1>5, <1>6, <1>8, <1>9

\* The second half, for the struct at o and the one before it
LEMMA BackwardFacts ==
  ASSUME NEW m, Linked(m), NEW o \in DOMAIN m, o # Z, ~m[o].used, m[m[o].next].used,
         NoHolesBut(m, o), NEW low, Lowest(m, low), NEW q, q = m[o].prev, q # o, ~m[q].used,
         NEW m2, m2 = Absorb(m, q, o)
  PROVE  /\ Linked(m2) /\ NoHoles(m2) /\ Lowest(m2, low) /\ low # o
         /\ DOMAIN m2 \subseteq DOMAIN m
         /\ \A x \in DOMAIN m2 : m2[x].used = m[x].used
         /\ \A x \in DOMAIN m : m[x].used => x \in DOMAIN m2 /\ m2[x].next = m[x].next
<1>1. o # 0 /\ q \in DOMAIN m /\ q # Z /\ m[q].next = o
  BY DEF Linked
<1>2. q \in Nat /\ o \in Nat /\ q < o /\ m[o].next \in DOMAIN m /\ m[o].next \in Nat /\ o < m[o].next
  BY <1>1, StructFacts, Constants
<1>3. /\ Linked(m2) /\ DOMAIN m2 = DOMAIN m \ {o} /\ m2[q].next = m[o].next
      /\ \A x \in DOMAIN m2 : m2[x].used = m[x].used
      /\ \A x \in DOMAIN m2 \ {q} : m2[x].next = m[x].next
  BY <1>1, AbsorbFacts
<1>4. NoHoles(m2)
  <2> SUFFICES ASSUME NEW x \in DOMAIN m2 \ {Z}, ~m2[x].used
               PROVE  m2[m2[x].next].used
    BY DEF NoHoles
  <2>1. x \in DOMAIN m \ {Z, o} /\ ~m[x].used
    BY <1>3
  <2>2. m2[x].next \in DOMAIN m2
    BY <1>3 DEF Linked
  <2>3. CASE x = q
    BY <1>2, <1>3, <2>2, <2>3
  <2>4. CASE x # q
    <3>1. m2[x].next = m[x].next /\ m[x].next # o
      BY <1>3, <2>2, <2>4
    <3>2. m[m[x].next].used
      BY <2>1, <3>1 DEF NoHolesBut
    <3> QED BY <1>3, <2>2, <3>1, <3>2
  <2> QED BY <2>3, <2>4
<1>5. low \in Nat /\ low <= q /\ low \in DOMAIN m
  BY <1>1, <1>2 DEF Lowest, Linked
<1>6. low # o /\ Lowest(m2, low)
  BY <1>2, <1>3, <1>5 DEF Lowest
<1>7. \A x \in DOMAIN m : m[x].used => x \in DOMAIN m2 /\ m2[x].next = m[x].next
  BY <1>3
<1> QED BY <1>3, <1>4, <1>6, <1>7

\* plug_holes() closes the gap in the list and leaves every struct in use, and
\* lfree, where they are.
LEMMA PlugFacts ==
  ASSUME NEW m, Linked(m), NEW o \in DOMAIN m, o # Z, ~m[o].used, NoHolesBut(m, o),
         NEW low, Lowest(m, low), NEW s, s = plug_holes(m, low, o)
  PROVE  /\ Linked(s.mem) /\ NoHoles(s.mem) /\ Lowest(s.mem, s.lfree)
         /\ DOMAIN s.mem \subseteq DOMAIN m
         /\ \A x \in DOMAIN s.mem : s.mem[x].used = m[x].used
         /\ \A x \in DOMAIN m : m[x].used => x \in DOMAIN s.mem /\ s.mem[x].next = m[x].next
<1> DEFINE n == m[o].next
           forward == o # n /\ ~m[n].used /\ n # Z
           m1 == IF forward THEN Absorb(m, o, n) ELSE m
           low1 == IF forward /\ low = n THEN o ELSE low
           q == m1[o].prev
           backward == q # o /\ ~m1[q].used
<1>1. /\ s.mem = IF backward THEN Absorb(m1, q, o) ELSE m1
      /\ s.lfree = IF backward /\ low1 = o THEN q ELSE low1
  BY DEF plug_holes, Z
<1>2. o # n /\ (n = Z => m[n].used)
  BY StructFacts DEF Linked
<1>3. /\ Linked(m1) /\ o \in DOMAIN m1 /\ ~m1[o].used /\ m1[m1[o].next].used
      /\ NoHolesBut(m1, o) /\ Lowest(m1, low1) /\ low1 = low
      /\ DOMAIN m1 \subseteq DOMAIN m
      /\ \A x \in DOMAIN m1 : m1[x].used = m[x].used
      /\ \A x \in DOMAIN m : m[x].used => x \in DOMAIN m1 /\ m1[x].next = m[x].next
  <2>1. CASE forward
    <3>1. m1 = Absorb(m, o, n)
      BY <2>1
    <3> HIDE DEF m1
    <3>2. /\ Linked(m1) /\ o \in DOMAIN m1 /\ ~m1[o].used /\ m1[m1[o].next].used
          /\ NoHolesBut(m1, o) /\ Lowest(m1, low) /\ low # n
          /\ DOMAIN m1 \subseteq DOMAIN m
          /\ \A x \in DOMAIN m1 : m1[x].used = m[x].used
          /\ \A x \in DOMAIN m : m[x].used => x \in DOMAIN m1 /\ m1[x].next = m[x].next
      BY <2>1, <3>1, ForwardFacts
    <3>3. low1 = low
      BY <3>2
    <3> HIDE DEF low1
    <3> QED BY <3>2, <3>3
  <2>2. CASE ~forward
    <3>1. m1 = m /\ low1 = low /\ m[n].used
      BY <1>2, <2>2
    <3> HIDE DEF m1, low1, forward
    <3> QED BY <3>1
  <2> QED BY <2>1, <2>2
<1> HIDE DEF m1, low1, forward, n
<1>4. CASE backward
  <2> DEFINE m2 == Absorb(m1, q, o)
  <2>1. /\ Linked(m2) /\ NoHoles(m2) /\ Lowest(m2, low) /\ low # o
        /\ DOMAIN m2 \subseteq DOMAIN m1
        /\ \A x \in DOMAIN m2 : m2[x].used = m1[x].used
        /\ \A x \in DOMAIN m1 : m1[x].used => x \in DOMAIN m2 /\ m2[x].next = m1[x].next
    BY <1>3, <1>4, BackwardFacts
  <2>2. s.mem = m2 /\ s.lfree = low
    BY <1>1, <1>3, <1>4, <2>1
  <2> HIDE DEF m2
  <2> QED BY <1>3, <2>1, <2>2
<1>5. CASE ~backward
  <2>1. s.mem = m1 /\ s.lfree = low
    BY <1>1, <1>3, <1>5
  <2>2. NoHoles(m1)
    <3> SUFFICES ASSUME NEW x \in DOMAIN m1 \ {Z}, ~m1[x].used, x # o
                 PROVE  m1[m1[x].next].used
      BY <1>3 DEF NoHoles
    <3>1. m1[x].next # o
      <4> SUFFICES ASSUME m1[x].next = o PROVE FALSE
        OBVIOUS
      <4>1. m1[o].prev = x
        BY <1>3 DEF Linked
      <4> QED BY <1>5, <4>1
    <3> QED BY <1>3, <3>1 DEF NoHolesBut
  <2> QED BY <1>3, <2>1, <2>2
<1> QED BY <1>4, <1>5

----------------------------------------------------------------------------
(* The operations.                                                         *)

\* UsedIsHeld, from the struct to the block and back
Holds(m, b) ==
  /\ \A a \in DOMAIN b : /\ a \in Nat /\ b[a] \in Nat /\ a - S \in DOMAIN m /\ a - S # Z
                         /\ m[a - S].used /\ b[a] <= Room(m, a - S)
  /\ \A o \in DOMAIN m \ {Z} : m[o].used => o + S \in DOMAIN b

\* UsedIsHeld of m and b
Held(m, b) ==
  /\ DOMAIN b = {o + S : o \in {x \in DOMAIN m \ {Z} : m[x].used}}
  /\ \A a \in DOMAIN b : b[a] <= Room(m, a - S)
  /\ \A a \in DOMAIN b : b[a] \in Nat

\* The two forms say the same of a list.
LEMMA HoldsIsHeld ==
  ASSUME NEW m, Linked(m), NEW b
  PROVE  Holds(m, b) <=> Held(m, b)
<1>1. S \in Nat /\ \A o \in DOMAIN m : o \in Nat
  BY Constants DEF Linked
<1>2. Held(m, b) <=>
        /\ DOMAIN b = {o + S : o \in {x \in DOMAIN m \ {Z} : m[x].used}}
        /\ \A a \in DOMAIN b : b[a] <= Room(m, a - S)
        /\ \A a \in DOMAIN b : b[a] \in Nat
  BY DEF Held
<1>3. ASSUME Holds(m, b)
      PROVE  Held(m, b)
  <2>1. \A a \in DOMAIN b : /\ a \in Nat /\ b[a] \in Nat /\ a - S \in DOMAIN m
                                 /\ a - S # Z /\ m[a - S].used /\ b[a] <= Room(m, a - S)
    BY <1>3 DEF Holds
  <2>2. \A o \in DOMAIN m \ {Z} : m[o].used => o + S \in DOMAIN b
    BY <1>3 DEF Holds
  <2>3. \A a \in DOMAIN b : a = (a - S) + S
    BY <1>1, <2>1
  <2>4. DOMAIN b = {o + S : o \in {x \in DOMAIN m \ {Z} : m[x].used}}
    BY <2>1, <2>2, <2>3
  <2> QED BY <1>2, <2>1, <2>4
<1>4. ASSUME Held(m, b)
      PROVE  Holds(m, b)
  <2>1. ASSUME NEW a \in DOMAIN b
        PROVE  a \in Nat /\ a - S \in DOMAIN m /\ a - S # Z /\ m[a - S].used
    <3>1. PICK o \in DOMAIN m \ {Z} : m[o].used /\ a = o + S
      BY <1>2, <1>4
    <3>2. a - S = o /\ a \in Nat
      BY <1>1, <3>1
    <3> QED BY <3>1, <3>2
  <2> QED BY <1>2, <1>4, <2>1 DEF Holds
<1> QED BY <1>3, <1>4

\* The invariant, without blocks that are only a history
LEMMA InvParts ==
  IInv <=> /\ Linked(mem) /\ NoHoles(mem) /\ Lowest(mem, lfree) /\ Holds(mem, blocks)
           /\ failed \in 0..(Width - 1) /\ FailsOnlyWhenFull
<1>1. Linked(mem) => (Holds(mem, blocks) <=> Held(mem, blocks))
  BY HoldsIsHeld
<1> QED BY <1>1 DEF IInv, Held, UsedIsHeld, S, Z

\* A call that does not fail leaves the invariant when it leaves these four parts.
LEMMA Succeeds ==
  ASSUME NEW m, NEW l, NEW b, mem' = m, lfree' = l, blocks' = b, failed' = 0,
         Linked(m), NoHoles(m), Lowest(m, l), Holds(m, b)
  PROVE  IInv'
<1>1. FailsOnlyWhenFull' /\ (failed \in 0..(Width - 1))'
  BY Constants DEF FailsOnlyWhenFull
<1>2. UsedIsHeld' /\ \A a \in DOMAIN blocks' : blocks'[a] \in Nat
  <2>1. Held(m, b)
    BY HoldsIsHeld
  <2> QED BY <2>1 DEF Held, UsedIsHeld, S, Z
<1> QED BY <1>1, <1>2 DEF IInv

\* mem_init()
LEMMA InitInv == Init => IInv
<1> SUFFICES ASSUME Init PROVE IInv
  OBVIOUS
<1>1. Z \in Nat \ {0} /\ S \in Nat \ {0} /\ S + Tiny <= Z /\ Tiny \in Nat /\ Z % A = 0 /\ 0 % A = 0
  BY Constants, TinyFacts
<1>2. /\ DOMAIN mem = {0, Z}
      /\ mem[0] = [next |-> Z, prev |-> 0, used |-> FALSE]
      /\ mem[Z] = [next |-> Z, prev |-> Z, used |-> TRUE]
      /\ lfree = 0 /\ failed = 0
  BY <1>1 DEF Init, Z
<1>3. Linked(mem)
  <2>1. mem[0].next = Z /\ mem[0].prev = 0 /\ mem[Z].next = Z /\ mem[Z].prev = Z /\ mem[Z].used
    BY <1>2
  <2>2. \A o \in {0, Z} : mem[o] \in [next : {0, Z}, prev : {0, Z}, used : BOOLEAN]
    <3>1. [next |-> Z, prev |-> 0, used |-> FALSE] \in [next : {0, Z}, prev : {0, Z}, used : BOOLEAN]
      OBVIOUS
    <3>2. [next |-> Z, prev |-> Z, used |-> TRUE] \in [next : {0, Z}, prev : {0, Z}, used : BOOLEAN]
      OBVIOUS
    <3> QED BY <1>2, <3>1, <3>2
  <2>3. \A x \in {0, Z} : (x <= 0 \/ x >= Z) /\ x % A = 0 /\ x \in 0..Z
    BY <1>1
  <2>4. 0 + S + Tiny <= Z
    BY <1>1
  <2> QED BY <1>2, <2>1, <2>2, <2>3, <2>4 DEF Linked
<1>4. NoHoles(mem) /\ Lowest(mem, lfree) /\ FailsOnlyWhenFull /\ failed \in 0..(Width - 1)
  BY <1>1, <1>2, Constants DEF NoHoles, Lowest, FailsOnlyWhenFull
<1>5. DOMAIN blocks = {}
  BY DEF Init
<1>6. Holds(mem, blocks)
  BY <1>1, <1>2, <1>5 DEF Holds
<1> QED BY <1>3, <1>4, <1>6, InvParts

\* mem_malloc() that fails: no free struct has room for what was asked for.
LEMMA MallocFails ==
  ASSUME IInv, NEW n \in Sizes, n # 0, Impossible(n) \/ Fitting(DataSize(n)) = {},
         failed' = n, UNCHANGED <<mem, lfree, blocks>>
  PROVE  IInv'
<1>1. n \in 0..(Width - 1) /\ Z \in Nat /\ S \in Nat \ {0}
  BY Constants
<1>2. Linked(mem) /\ Lowest(mem, lfree) /\ NoHoles(mem) /\ Holds(mem, blocks)
  BY InvParts
<1>3. ASSUME NEW o \in DOMAIN mem, ~mem[o].used, n <= Room(mem, o)
      PROVE  FALSE
  <2>1. o # Z
    BY <1>2, <1>3 DEF Linked
  <2>2. /\ o \in Nat /\ Room(mem, o) \in Nat /\ Room(mem, o) % A = 0 /\ Tiny <= Room(mem, o)
        /\ Room(mem, o) <= Z - S - o
    BY <1>2, <2>1, StructFacts
  <2>3. CASE Impossible(n)
    BY <1>1, <1>3, <2>2, <2>3, ImpossibleFacts
  <2>4. CASE Fitting(DataSize(n)) = {}
    <3>1. DataSize(n) \in Nat /\ DataSize(n) <= Room(mem, o)
      BY <1>1, <1>3, <2>2, FitsAligned
    <3>2. o < Z - DataSize(n)
      BY <1>1, <2>2, <3>1
    <3>3. lfree <= o
      <4>1. lfree \in Nat /\ ~(o < lfree)
        BY <1>2, <1>3 DEF Lowest, Linked
      <4> QED BY <2>2, <4>1
    <3> QED BY <1>3, <2>4, <3>1, <3>2, <3>3 DEF Fitting, Z
  <2> QED BY <2>3, <2>4
<1>4. FailsOnlyWhenFull'
  <2> SUFFICES ASSUME NEW o \in DOMAIN mem, ~mem[o].used PROVE Room(mem, o) < n
    BY DEF FailsOnlyWhenFull
  <2>1. o # Z
    BY <1>2 DEF Linked
  <2>2. Room(mem, o) \in Nat
    BY <1>2, <2>1, StructFacts
  <2> QED BY <1>1, <1>3, <2>2
<1>5. UsedIsHeld' /\ \A a \in DOMAIN blocks' : blocks'[a] \in Nat
  BY DEF IInv, UsedIsHeld
<1> QED BY <1>1, <1>2, <1>4, <1>5 DEF IInv

\* Where mem_malloc() finds a struct
LEMMA FoundFacts ==
  ASSUME IInv, NEW n \in Sizes, ~Impossible(n), Fitting(DataSize(n)) # {},
         NEW o, o = Least(Fitting(DataSize(n)))
  PROVE  /\ o \in DOMAIN mem /\ o # Z /\ ~mem[o].used /\ lfree <= o
         /\ DataSize(n) <= Room(mem, o)
         /\ DataSize(n) \in Nat /\ DataSize(n) % A = 0
         /\ n <= DataSize(n) /\ Tiny <= DataSize(n) /\ n \in Nat
<1>1. Linked(mem)
  BY DEF IInv
<1>2. Fitting(DataSize(n)) \subseteq Nat
  BY <1>1 DEF Fitting, Linked
<1>3. o \in Fitting(DataSize(n))
  BY <1>2, LeastFacts
<1>4. n \in 0..(Width - 1)
  BY Constants
<1>5. o \in DOMAIN mem /\ ~mem[o].used /\ lfree <= o /\ DataSize(n) <= Room(mem, o)
  BY <1>3 DEF Fitting
<1>6. o # Z
  BY <1>1, <1>5 DEF Linked
<1> QED BY <1>4, <1>5, <1>6, PossibleFacts

\* The scan for the next free struct after the one that was taken
LEMMA NextFreeFacts ==
  ASSUME NEW m, Linked(m), NEW o, \A x \in DOMAIN m : x < o => m[x].used, o \in Nat
  PROVE  Lowest(m, NextFree(m, o))
<1> DEFINE T == {Z} \cup {x \in DOMAIN m : x >= o /\ ~m[x].used}
<1>1. T \subseteq Nat /\ T # {}
  BY Constants DEF Linked
<1>2. Least(T) \in T /\ \A y \in T : Least(T) <= y
  <2> HIDE DEF T
  <2> QED BY <1>1, LeastFacts
<1>3. NextFree(m, o) = Least(T)
  BY DEF NextFree, Z
<1> DEFINE l == Least(T)
<1> HIDE DEF l
<1>4. l \in DOMAIN m /\ (m[l].used => l = Z) /\ l \in Nat
  BY <1>1, <1>2 DEF l, Linked
<1>5. ASSUME NEW x \in DOMAIN m, x < l
      PROVE  m[x].used
  <2>1. x \in Nat
    BY DEF Linked
  <2>2. x \notin T
    BY <1>2, <1>4, <1>5, <2>1 DEF l
  <2> QED BY <2>1, <2>2
<1> QED BY <1>3, <1>4, <1>5 DEF Lowest, l

\* The structs in use, but for the one at o, are the same in m0 and m.
SameUse(m0, m, o) ==
  /\ \A x \in DOMAIN m0 \ {o} : m0[x].used => x \in DOMAIN m /\ m[x].used /\ m[x].next = m0[x].next
  /\ \A x \in DOMAIN m \ {o} : m[x].used => x \in DOMAIN m0 /\ m0[x].used

\* b is b0 after n bytes were given to the struct at o.
Gave(b0, b, o, n) ==
  /\ DOMAIN b = DOMAIN b0 \cup {o + S} /\ b[o + S] = n
  /\ \A a \in DOMAIN b0 \ {o + S} : b[a] = b0[a]

\* When one struct is taken, or its block made smaller, every block still has a
\* struct of its own with room for it.
LEMMA HoldsAfter ==
  ASSUME NEW m0, Linked(m0), NEW b0, Holds(m0, b0), NEW m, Linked(m), NEW b, NEW n \in Nat,
         NEW o \in DOMAIN m, o # Z, m[o].used, n <= Room(m, o),
         SameUse(m0, m, o), Gave(b0, b, o, n)
  PROVE  Holds(m, b)
<1>1. S \in Nat \ {0} /\ Z \in Nat /\ DOMAIN m \subseteq Nat /\ DOMAIN m0 \subseteq Nat
  BY Constants DEF Linked
<1>2. ASSUME NEW a \in DOMAIN b
      PROVE  /\ a \in Nat /\ b[a] \in Nat /\ a - S \in DOMAIN m /\ a - S # Z
             /\ m[a - S].used /\ b[a] <= Room(m, a - S)
  <2>1. CASE a = o + S
    <3>1. a - S = o /\ a \in Nat /\ b[a] = n
      BY <1>1, <2>1 DEF Gave
    <3> QED BY <3>1
  <2>2. CASE a # o + S
    <3>1. a \in DOMAIN b0 /\ b[a] = b0[a]
      BY <2>2 DEF Gave
    <3>2. /\ a \in Nat /\ b0[a] \in Nat /\ a - S \in DOMAIN m0 /\ a - S # Z
          /\ m0[a - S].used /\ b0[a] <= Room(m0, a - S)
      BY <3>1 DEF Holds
    <3>3. a - S # o
      BY <1>1, <2>2, <3>2
    <3>4. a - S \in DOMAIN m /\ m[a - S].used /\ m[a - S].next = m0[a - S].next
      BY <3>2, <3>3 DEF SameUse
    <3>5. Room(m, a - S) = Room(m0, a - S)
      BY <3>4 DEF Room
    <3> QED BY <3>1, <3>2, <3>4, <3>5
  <2> QED BY <2>1, <2>2
<1>3. ASSUME NEW x \in DOMAIN m \ {Z}, m[x].used
      PROVE  x + S \in DOMAIN b
  <2>1. CASE x = o
    BY <2>1 DEF Gave
  <2>2. CASE x # o
    <3>1. x \in DOMAIN m0 /\ m0[x].used
      BY <1>3, <2>2 DEF SameUse
    <3>2. x + S \in DOMAIN b0
      BY <3>1 DEF Holds
    <3> QED BY <3>2 DEF Gave
  <2> QED BY <2>1, <2>2
<1> QED BY <1>2, <1>3 DEF Holds

\* at is where size bytes of data of the struct at o end.
EndOf(at, o, size) == at = o + S + size

\* m is m0 after size bytes of the struct at o were taken; what was left is a
\* free struct of its own, if it is one.
Took(m0, m, o, size) ==
  /\ Linked(m) /\ DOMAIN m0 \subseteq DOMAIN m /\ m[o].used /\ size <= Room(m, o)
  /\ \A x \in DOMAIN m0 \ {o} : m[x].used = m0[x].used /\ m[x].next = m0[x].next
  /\ \A x \in DOMAIN m \ DOMAIN m0 :
       ~m[x].used /\ EndOf(x, o, size) /\ x > o /\ x # Z /\ m[x].next = m0[o].next

\* size bytes of data, aligned, fit into the struct at o.
Suits(m, o, size) == size \in Nat /\ size % A = 0 /\ Tiny <= size /\ size <= Room(m, o)

\* The rest of the struct at o is large enough for a struct of its own.
Splits(m, o, size) == size + S + Tiny <= Room(m, o)

\* Where a block ends there is room for a struct.
LEMMA EndIsBetween ==
  ASSUME NEW m, Linked(m), NEW o \in DOMAIN m, o # Z, NEW size, Suits(m, o, size),
         Splits(m, o, size), NEW at, EndOf(at, o, size)
  PROVE  Between(m, o, at) /\ at > o
<1>1. /\ o \in Nat /\ o % A = 0 /\ Room(m, o) \in Nat /\ m[o].next = o + S + Room(m, o)
      /\ S \in Nat \ {0} /\ S % A = 0 /\ Tiny \in Nat \ {0}
  BY StructFacts, Constants, TinyFacts
<1>2. size \in Nat /\ size % A = 0 /\ Tiny <= size /\ size + S + Tiny <= Room(m, o)
  BY DEF Suits, Splits
<1>3. at \in Nat /\ o + S + Tiny <= at /\ at + S + Tiny <= m[o].next /\ at > o
  BY <1>1, <1>2 DEF EndOf
<1>4. at % A = 0
  <2>1. o + S \in Nat /\ (o + S) % A = 0
    BY <1>1, SumOfMultiples
  <2>2. (o + S + size) % A = 0
    BY <1>2, <2>1, SumOfMultiples
  <2> QED BY <2>2 DEF EndOf
<1> QED BY <1>3, <1>4 DEF Between

\* The room of a struct that ends at at
LEMMA RoomOfEnd ==
  ASSUME NEW m, NEW o \in Nat, NEW size \in Nat, NEW at, EndOf(at, o, size), m[o].next = at
  PROVE  Room(m, o) = size
BY Constants DEF Room, S, EndOf

\* The rest of the struct at o becomes a struct of its own.
LEMMA SplitTakes ==
  ASSUME NEW m, Linked(m), NEW o \in DOMAIN m, o # Z, m[o].used,
         NEW size, Suits(m, o, size), Splits(m, o, size), NEW at, EndOf(at, o, size),
         NEW m2, m2 = Insert(m, o, at)
  PROVE  Took(m, m2, o, size) /\ at \in DOMAIN m2 \ DOMAIN m
<1>1. Between(m, o, at) /\ at > o
  BY EndIsBetween
<1>2. /\ Linked(m2) /\ at \notin DOMAIN m /\ at # Z /\ DOMAIN m2 = DOMAIN m \cup {at}
      /\ m2[o].next = at /\ m2[at].next = m[o].next /\ ~m2[at].used
      /\ \A x \in DOMAIN m : m2[x].used = m[x].used
      /\ \A x \in DOMAIN m \ {o} : m2[x].next = m[x].next
  <2>1. Between(m, o, at)
    BY <1>1
  <2>2. Inserted(m, m2, o, at)
    BY <2>1, InsertFacts
  <2> QED BY <2>2 DEF Inserted
<1>3. size <= Room(m2, o)
  <2>1. o \in Nat /\ size \in Nat
    BY StructFacts DEF Suits
  <2>2. Room(m2, o) = size
    BY <1>2, <2>1, RoomOfEnd
  <2> QED BY <2>1, <2>2
<1> QED BY <1>1, <1>2, <1>3 DEF Took

\* No holes come from taking a struct, or a part of it when the next one is in use.
LEMMA TookNoHoles ==
  ASSUME NEW m0, Linked(m0), NoHoles(m0), NEW o \in DOMAIN m0, o # Z, m0[m0[o].next].used,
         NEW size, NEW m, Took(m0, m, o, size)
  PROVE  NoHoles(m)
<1> SUFFICES ASSUME NEW x \in DOMAIN m \ {Z}, ~m[x].used PROVE m[m[x].next].used
  BY DEF NoHoles
<1>0. /\ m[o].used /\ \A y \in DOMAIN m0 \ {o} : m[y].used = m0[y].used /\ m[y].next = m0[y].next
      /\ \A y \in DOMAIN m \ DOMAIN m0 : m[y].next = m0[o].next
  BY DEF Took
<1>1. \A y \in DOMAIN m0 : m0[y].used => m[y].used
  BY <1>0
<1>2. CASE x \in DOMAIN m0
  <2>1. x # o /\ ~m0[x].used /\ m[x].next = m0[x].next /\ m0[x].next \in DOMAIN m0
    BY <1>0, <1>2 DEF Linked
  <2>2. m0[m0[x].next].used
    BY <1>2, <2>1 DEF NoHoles
  <2> QED BY <1>1, <2>1, <2>2
<1>3. CASE x \notin DOMAIN m0
  <2>1. m[x].next = m0[o].next /\ m0[o].next \in DOMAIN m0
    BY <1>0, <1>3 DEF Linked
  <2> QED BY <1>1, <2>1
<1> QED BY <1>2, <1>3

\* The structs in use after one was taken
LEMMA TookSameUse ==
  ASSUME NEW m0, NEW o, NEW size, NEW m, Took(m0, m, o, size)
  PROVE  SameUse(m0, m, o)
BY DEF Took, SameUse

\* mem_malloc() that succeeds, with the structs and blocks before and after it
LEMMA TakeFacts ==
  ASSUME NEW m0, Linked(m0), NoHoles(m0), NEW l0, Lowest(m0, l0), NEW b0, Holds(m0, b0),
         NEW o \in DOMAIN m0, o # Z, ~m0[o].used, l0 <= o,
         NEW n \in Nat, NEW size \in Nat, n <= size,
         NEW m, Took(m0, m, o, size),
         NEW l, l = IF o = l0 THEN NextFree(m, o) ELSE l0, NEW b, b = With(b0, o + S, n)
  PROVE  NoHoles(m) /\ Lowest(m, l) /\ Holds(m, b)
<1>1. /\ o \in Nat /\ Z \in Nat /\ l0 \in Nat /\ Linked(m) /\ o \in DOMAIN m
      /\ DOMAIN m0 \subseteq Nat /\ DOMAIN m \subseteq Nat
      /\ Room(m, o) \in Nat /\ m[o].used /\ size <= Room(m, o)
  <2>1. Linked(m) /\ o \in DOMAIN m /\ m[o].used /\ size <= Room(m, o)
    BY DEF Took
  <2> QED BY <2>1, Constants, StructFacts DEF Lowest, Linked
<1>2. NoHoles(m)
  <2>1. m0[m0[o].next].used
    BY DEF NoHoles
  <2> QED BY <2>1, TookNoHoles
<1>3. Lowest(m, l)
  <2>1. \A x \in DOMAIN m : x < l0 => m[x].used
    <3> SUFFICES ASSUME NEW x \in DOMAIN m, x < l0 PROVE m[x].used
      OBVIOUS
    <3>1. x \in DOMAIN m0 /\ x # o
      BY <1>1 DEF Took
    <3>2. m0[x].used
      BY <3>1 DEF Lowest
    <3> QED BY <3>1, <3>2 DEF Took
  <2>2. CASE o = l0
    <3>1. Lowest(m, NextFree(m, o))
      BY <1>1, <2>1, <2>2, NextFreeFacts
    <3> QED BY <2>2, <3>1
  <2>3. CASE o # l0
    <3>1. l = l0 /\ l0 \in DOMAIN m0 /\ l0 # o /\ l0 < o
      BY <1>1, <2>3 DEF Lowest
    <3>2. l0 \in DOMAIN m /\ m[l0].used = m0[l0].used
      BY <3>1 DEF Took
    <3> QED BY <2>1, <3>1, <3>2 DEF Lowest
  <2> QED BY <2>2, <2>3
<1>4. Gave(b0, b, o, n)
  BY DEF Gave, With
<1>5. n <= Room(m, o)
  BY <1>1
<1>6. Holds(m, b)
  BY <1>1, <1>4, <1>5, TookSameUse, HoldsAfter
<1> QED BY <1>2, <1>3, <1>6

\* A free struct is taken, and split if enough of it is left.
LEMMA MarkAndSplit ==
  ASSUME NEW m0, Linked(m0), NEW o \in DOMAIN m0, o # Z, NEW size, Suits(m0, o, size),
         NEW at, EndOf(at, o, size), NEW m, Remarked(m0, m, o), m[o].used,
         NEW m2, \/ Splits(m0, o, size) /\ m2 = Insert(m, o, at)
                 \/ m2 = m
  PROVE  Took(m0, m2, o, size)
<1>1. /\ Linked(m) /\ DOMAIN m = DOMAIN m0
      /\ \A x \in DOMAIN m0 : m[x].next = m0[x].next
      /\ \A x \in DOMAIN m0 \ {o} : m[x].used = m0[x].used
  BY MarkFacts
<1>2. Room(m, o) = Room(m0, o)
  BY <1>1 DEF Room
<1>3. CASE Splits(m0, o, size) /\ m2 = Insert(m, o, at)
  <2>1. Suits(m, o, size) /\ Splits(m, o, size)
    BY <1>2, <1>3 DEF Suits, Splits
  <2>2. Took(m, m2, o, size)
    BY <1>1, <1>3, <2>1, SplitTakes
  <2> QED BY <1>1, <2>2 DEF Took
<1>4. CASE m2 = m
  <2>1. size <= Room(m, o)
    BY <1>2 DEF Suits
  <2> QED BY <1>1, <1>4, <2>1 DEF Took
<1> QED BY <1>3, <1>4

\* mem_malloc() that succeeds
LEMMA MallocSucceeds ==
  ASSUME IInv, NEW n \in Sizes, ~Impossible(n), Fitting(DataSize(n)) # {},
         NEW o, o = Least(Fitting(DataSize(n))), NEW m, m = [mem EXCEPT ![o].used = TRUE],
         NEW m2, m2 = IF SplitOff(o, DataSize(n))
                      THEN Insert(m, o, o + SIZEOF_STRUCT_MEM + DataSize(n)) ELSE m
  PROVE  /\ Linked(m2) /\ NoHoles(m2)
         /\ Lowest(m2, IF o = lfree THEN NextFree(m2, o) ELSE lfree)
         /\ Holds(m2, With(blocks, o + SIZEOF_STRUCT_MEM, n))
<1> DEFINE size == DataSize(n)
<1>1. /\ o \in DOMAIN mem /\ o # Z /\ ~mem[o].used /\ lfree <= o /\ size <= Room(mem, o)
      /\ size \in Nat /\ size % A = 0 /\ n <= size /\ Tiny <= size /\ n \in Nat
  BY FoundFacts
<1>2. Linked(mem) /\ NoHoles(mem) /\ Lowest(mem, lfree) /\ Holds(mem, blocks)
  BY InvParts
<1>3. Took(mem, m2, o, size)
  <2>1. SplitOff(o, size) => Splits(mem, o, size)
    <3>1. Room(mem, o) \in Nat /\ S \in Nat /\ Tiny \in Nat
      BY <1>1, <1>2, StructFacts, Constants, TinyFacts
    <3> HIDE DEF size
    <3> QED BY <1>1, <3>1 DEF SplitOff, Splits, S, Tiny
  <2> DEFINE at == o + S + size
  <2>2. m2 = IF SplitOff(o, size) THEN Insert(m, o, at) ELSE m
    BY DEF S
  <2>3. EndOf(at, o, size) /\ Suits(mem, o, size)
    BY <1>1 DEF EndOf, Suits
  <2>4. Remarked(mem, m, o) /\ m[o].used
    BY <1>1, <1>2, MarkUsed
  <2> HIDE DEF size, at
  <2>5. (Splits(mem, o, size) /\ m2 = Insert(m, o, at)) \/ m2 = m
    BY <2>1, <2>2
  <2> QED BY <1>1, <1>2, <2>3, <2>4, <2>5, MarkAndSplit
<1> DEFINE b == With(blocks, o + S, n)
           l == IF o = lfree THEN NextFree(m2, o) ELSE lfree
<1>4. NoHoles(m2) /\ Lowest(m2, l) /\ Holds(m2, b)
  <2>1. b = With(blocks, o + S, n) /\ l = IF o = lfree THEN NextFree(m2, o) ELSE lfree
    OBVIOUS
  <2> HIDE DEF size, b, l
  <2> QED BY <1>1, <1>2, <1>3, <2>1, TakeFacts
<1>5. Linked(m2)
  BY <1>3 DEF Took
<1> QED BY <1>4, <1>5 DEF S

\* A step of mem_malloc()
LEMMA MallocInv ==
  ASSUME IInv, NEW n \in Sizes, mem_malloc(n)
  PROVE  IInv'
<1>1. CASE n = 0 /\ failed' = 0 /\ UNCHANGED <<mem, lfree, blocks>>
  <2>1. Linked(mem) /\ NoHoles(mem) /\ Lowest(mem, lfree) /\ Holds(mem, blocks)
    BY InvParts
  <2> QED BY <1>1, <2>1, Succeeds
<1>2. CASE /\ n # 0 /\ (Impossible(n) \/ Fitting(DataSize(n)) = {})
           /\ failed' = n /\ UNCHANGED <<mem, lfree, blocks>>
  BY <1>2, MallocFails
<1>3. CASE /\ n # 0 /\ ~Impossible(n) /\ Fitting(DataSize(n)) # {}
           /\ \E o \in {Least(Fitting(DataSize(n)))} :
                \E m \in {[mem EXCEPT ![o].used = TRUE]} :
                  /\ mem' = IF SplitOff(o, DataSize(n))
                            THEN Insert(m, o, o + SIZEOF_STRUCT_MEM + DataSize(n)) ELSE m
                  /\ lfree' = IF o = lfree THEN NextFree(mem', o) ELSE lfree
                  /\ blocks' = With(blocks, o + SIZEOF_STRUCT_MEM, n)
           /\ failed' = 0
  <2>1. PICK o : /\ o = Least(Fitting(DataSize(n)))
                 /\ \E m \in {[mem EXCEPT ![o].used = TRUE]} :
                      /\ mem' = IF SplitOff(o, DataSize(n))
                                THEN Insert(m, o, o + SIZEOF_STRUCT_MEM + DataSize(n)) ELSE m
                      /\ lfree' = IF o = lfree THEN NextFree(mem', o) ELSE lfree
                      /\ blocks' = With(blocks, o + SIZEOF_STRUCT_MEM, n)
    BY <1>3
  <2>2. PICK m : /\ m = [mem EXCEPT ![o].used = TRUE]
                 /\ mem' = IF SplitOff(o, DataSize(n))
                           THEN Insert(m, o, o + SIZEOF_STRUCT_MEM + DataSize(n)) ELSE m
                 /\ lfree' = IF o = lfree THEN NextFree(mem', o) ELSE lfree
                 /\ blocks' = With(blocks, o + SIZEOF_STRUCT_MEM, n)
    BY <2>1
  <2>3. /\ Linked(mem') /\ NoHoles(mem') /\ Lowest(mem', lfree') /\ Holds(mem', blocks')
    BY <1>3, <2>1, <2>2, MallocSucceeds
  <2> QED BY <1>3, <2>3, Succeeds
<1> QED BY <1>1, <1>2, <1>3 DEF mem_malloc

\* o is the struct of the block at address a.
Precedes(o, a) == o = a - S

\* low is the lower of o and l.
Lower(low, o, l) == low = IF o < l THEN o ELSE l

\* mem_free(), with the structs and blocks before and after it
LEMMA FreeFacts ==
  ASSUME NEW m0, Linked(m0), NoHoles(m0), NEW l0, Lowest(m0, l0), NEW b0, Holds(m0, b0),
         NEW a \in DOMAIN b0, NEW o, Precedes(o, a), NEW m, Remarked(m0, m, o), ~m[o].used,
         NEW low, Lower(low, o, l0), NEW s, s = plug_holes(m, low, o),
         NEW b, b = [x \in DOMAIN b0 \ {a} |-> b0[x]]
  PROVE  Linked(s.mem) /\ NoHoles(s.mem) /\ Lowest(s.mem, s.lfree) /\ Holds(s.mem, b)
<1>1. o \in DOMAIN m0 /\ o # Z /\ m0[o].used /\ a \in Nat /\ o + S = a /\ o \in Nat /\ S \in Nat
  BY Constants DEF Holds, Linked, Precedes
<1>2. /\ Linked(m) /\ DOMAIN m = DOMAIN m0 /\ ~m[o].used
      /\ \A x \in DOMAIN m0 : m[x].next = m0[x].next
      /\ \A x \in DOMAIN m0 \ {o} : m[x].used = m0[x].used
  BY <1>1, MarkFacts
<1>3. NoHolesBut(m, o)
  <2> SUFFICES ASSUME NEW x \in DOMAIN m \ {Z}, ~m[x].used, x # o, m[x].next # o
               PROVE  m[m[x].next].used
    BY DEF NoHolesBut
  <2>1. ~m0[x].used /\ m[x].next = m0[x].next /\ m0[x].next \in DOMAIN m0
    BY <1>2 DEF Linked
  <2>2. m0[m0[x].next].used
    BY <1>2, <2>1 DEF NoHoles
  <2> QED BY <1>2, <2>1, <2>2
<1>4. Lowest(m, low)
  <2>1. l0 \in DOMAIN m0 /\ l0 \in Nat /\ DOMAIN m0 \subseteq Nat
    BY DEF Lowest, Linked
  <2>2. low \in DOMAIN m /\ low <= l0 /\ low <= o
    BY <1>1, <1>2, <2>1 DEF Lower
  <2>3. \A x \in DOMAIN m : x < low => x < l0 /\ x # o
    BY <1>1, <1>2, <2>1, <2>2
  <2>4. \A x \in DOMAIN m : x < low => m[x].used
    BY <1>2, <2>3 DEF Lowest
  <2>5. m[low].used => low = Z
    <3>1. CASE low = o
      BY <1>2, <3>1
    <3>2. CASE low # o
      BY <1>2, <2>1, <3>2 DEF Lowest, Lower
    <3> QED BY <3>1, <3>2
  <2> QED BY <2>2, <2>4, <2>5 DEF Lowest
<1>5. /\ Linked(s.mem) /\ NoHoles(s.mem) /\ Lowest(s.mem, s.lfree)
      /\ DOMAIN s.mem \subseteq DOMAIN m
      /\ \A x \in DOMAIN s.mem : s.mem[x].used = m[x].used
      /\ \A x \in DOMAIN m : m[x].used => x \in DOMAIN s.mem /\ s.mem[x].next = m[x].next
  <2>1. o \in DOMAIN m /\ o # Z
    BY <1>1, <1>2
  <2>2. Linked(m)
    BY <1>2
  <2> QED BY <1>3, <1>4, <2>1, <2>2, PlugFacts
<1>6. Holds(s.mem, b)
  <2>1. DOMAIN b = DOMAIN b0 \ {a} /\ \A x \in DOMAIN b : b[x] = b0[x]
    OBVIOUS
  <2>2. ASSUME NEW x \in DOMAIN b
        PROVE  /\ x \in Nat /\ b[x] \in Nat /\ x - S \in DOMAIN s.mem /\ x - S # Z
               /\ s.mem[x - S].used /\ b[x] <= Room(s.mem, x - S)
    <3>1. /\ x \in Nat /\ b0[x] \in Nat /\ x - S \in DOMAIN m0 /\ x - S # Z
          /\ m0[x - S].used /\ b0[x] <= Room(m0, x - S) /\ b[x] = b0[x]
      BY <2>1 DEF Holds
    <3>2. x - S # o
      BY <1>1, <2>1, <3>1
    <3>3. m[x - S].used /\ m[x - S].next = m0[x - S].next
      BY <1>2, <3>1, <3>2
    <3>4. x - S \in DOMAIN s.mem /\ s.mem[x - S].used /\ s.mem[x - S].next = m0[x - S].next
      BY <1>2, <1>5, <3>1, <3>3
    <3>5. Room(s.mem, x - S) = Room(m0, x - S)
      BY <3>4 DEF Room
    <3> QED BY <3>1, <3>4, <3>5
  <2>3. ASSUME NEW x \in DOMAIN s.mem \ {Z}, s.mem[x].used
        PROVE  x + S \in DOMAIN b
    <3>1. x \in DOMAIN m0 /\ m[x].used /\ x # o
      BY <1>2, <1>5, <2>3
    <3>2. m0[x].used /\ x \in Nat
      BY <1>2, <3>1 DEF Linked
    <3>3. x + S \in DOMAIN b0
      BY <2>3, <3>1, <3>2 DEF Holds
    <3>4. x + S # a
      BY <1>1, <3>1, <3>2
    <3> QED BY <2>1, <3>3, <3>4
  <2> QED BY <2>2, <2>3 DEF Holds
<1> QED BY <1>5, <1>6

\* A step of mem_free()
LEMMA FreeInv ==
  ASSUME IInv, NEW a \in DOMAIN blocks, mem_free(a)
  PROVE  IInv'
<1> DEFINE o == a - S
           m == [mem EXCEPT ![o].used = FALSE]
           low == IF o < lfree THEN o ELSE lfree
           s == plug_holes(m, low, o)
           b == [x \in DOMAIN blocks \ {a} |-> blocks[x]]
<1>1. mem' = s.mem /\ lfree' = s.lfree /\ blocks' = b /\ failed' = 0
  BY DEF mem_free, S
<1>2. Linked(mem) /\ NoHoles(mem) /\ Lowest(mem, lfree) /\ Holds(mem, blocks)
  BY InvParts
<1>3. Linked(s.mem) /\ NoHoles(s.mem) /\ Lowest(s.mem, s.lfree) /\ Holds(s.mem, b)
  <2>1. Precedes(o, a) /\ Lower(low, o, lfree)
    BY DEF Precedes, Lower
  <2>2. o \in DOMAIN mem
    BY <1>2 DEF Holds
  <2> HIDE DEF o
  <2>3. Remarked(mem, m, o) /\ ~m[o].used
    BY <1>2, <2>2, MarkFree
  <2>4. s = plug_holes(m, low, o)
    OBVIOUS
  <2>5. b = [x \in DOMAIN blocks \ {a} |-> blocks[x]]
    OBVIOUS
  <2> HIDE DEF m, low, s, b
  <2> QED BY <1>2, <2>1, <2>3, <2>4, <2>5, FreeFacts
<1> HIDE DEF s, b
<1> QED BY <1>1, <1>3, Succeeds

\* mem_trim() that finds a free struct after the block: that one grows.
LEMMA GrowFacts ==
  ASSUME NEW m0, Linked(m0), NoHoles(m0), NEW l0, Lowest(m0, l0),
         NEW o \in DOMAIN m0, o # Z, m0[o].used, NEW after, after = m0[o].next, ~m0[after].used,
         NEW size, Suits(m0, o, size), size # Room(m0, o),
         NEW at, EndOf(at, o, size),
         NEW m1, m1 = Absorb(m0, o, after), NEW m, m = Insert(m1, o, at),
         NEW l, l = IF l0 = after THEN at ELSE l0
  PROVE  /\ Linked(m) /\ NoHoles(m) /\ Lowest(m, l) /\ SameUse(m0, m, o)
         /\ o \in DOMAIN m /\ m[o].used /\ Room(m, o) = size
<1> DEFINE c == m0[after].next
<1>0. size \in Nat /\ size % A = 0 /\ Tiny <= size /\ size <= Room(m0, o)
  BY DEF Suits
<1>1. /\ o \in Nat /\ o % A = 0 /\ after \in DOMAIN m0 /\ after \in Nat /\ after = o + S + Room(m0, o)
      /\ Room(m0, o) \in Nat /\ after # Z /\ S \in Nat \ {0} /\ S % A = 0 /\ Tiny \in Nat \ {0}
      /\ DOMAIN m0 \subseteq Nat /\ Z \in Nat
  <2>1. after # Z /\ DOMAIN m0 \subseteq Nat
    BY DEF Linked
  <2> QED BY <2>1, StructFacts, Constants, TinyFacts
<1>2. c \in DOMAIN m0 /\ c \in Nat /\ after + S + Tiny <= c /\ m0[c].used
  BY <1>1, StructFacts DEF NoHoles
<1>3. at \in Nat /\ o + S + Tiny <= at /\ at < after /\ at + S + Tiny <= c /\ o < at /\ at < c
  BY <1>0, <1>1, <1>2 DEF EndOf
<1>4. at % A = 0
  <2>1. o + S \in Nat /\ (o + S) % A = 0
    BY <1>1, SumOfMultiples
  <2>2. (o + S + size) % A = 0
    BY <1>0, <2>1, SumOfMultiples
  <2> QED BY <2>2 DEF EndOf
<1> HIDE DEF c
<1>5. /\ Linked(m1) /\ DOMAIN m1 = DOMAIN m0 \ {after} /\ m1[o].next = c
      /\ \A x \in DOMAIN m1 : m1[x].used = m0[x].used
      /\ \A x \in DOMAIN m1 \ {o} : m1[x].next = m0[x].next
  <2>1. after # Z
    BY <1>1
  <2>2. /\ Linked(m1) /\ DOMAIN m1 = DOMAIN m0 \ {after} /\ m1[o].next = m0[after].next
        /\ \A x \in DOMAIN m1 : m1[x].used = m0[x].used
        /\ \A x \in DOMAIN m1 \ {o} : m1[x].next = m0[x].next
    BY <2>1, AbsorbFacts
  <2> QED BY <2>2 DEF c
<1>6. o \in DOMAIN m1 /\ Between(m1, o, at)
  BY <1>1, <1>3, <1>4, <1>5 DEF Between
<1>7. /\ Linked(m) /\ at \notin DOMAIN m1 /\ at # Z /\ DOMAIN m = DOMAIN m1 \cup {at}
      /\ m[o].next = at /\ m[at].next = m1[o].next /\ ~m[at].used
      /\ \A x \in DOMAIN m1 : m[x].used = m1[x].used
      /\ \A x \in DOMAIN m1 \ {o} : m[x].next = m1[x].next
  <2>1. Linked(m1)
    BY <1>5
  <2>2. Inserted(m1, m, o, at)
    BY <1>6, <2>1, InsertFacts
  <2> QED BY <2>2 DEF Inserted
<1>8. \A x \in DOMAIN m0 \ {after} : x \in DOMAIN m /\ m[x].used = m0[x].used
  BY <1>5, <1>7
<1>9. \A x \in DOMAIN m0 \ {after, o} : m[x].next = m0[x].next
  BY <1>5, <1>7
<1>10. \A x \in DOMAIN m \ {at} : x \in DOMAIN m0 /\ x # after
  BY <1>5, <1>7
<1>11. \A x \in DOMAIN m0 : m0[x].used => x \in DOMAIN m /\ m[x].used
  BY <1>8
<1>12. NoHoles(m)
  <2> SUFFICES ASSUME NEW x \in DOMAIN m \ {Z}, ~m[x].used PROVE m[m[x].next].used
    BY DEF NoHoles
  <2>1. CASE x = at
    BY <1>2, <1>5, <1>7, <1>11, <2>1
  <2>2. CASE x # at
    <3>1. x \in DOMAIN m0 /\ x # after /\ x # o /\ ~m0[x].used
      BY <1>8, <1>10, <2>2
    <3>2. m0[x].next \in DOMAIN m0 /\ m0[m0[x].next].used
      BY <3>1 DEF NoHoles, Linked
    <3> QED BY <1>9, <1>11, <3>1, <3>2
  <2> QED BY <2>1, <2>2
<1>13. /\ l0 \in DOMAIN m0 /\ l0 \in Nat /\ l0 <= after /\ l0 # o
       /\ \A x \in DOMAIN m0 : x < l0 => m0[x].used
  <2>1. /\ l0 \in DOMAIN m0 /\ \A x \in DOMAIN m0 : x < l0 => m0[x].used
        /\ m0[l0].used => l0 = Z
    BY DEF Lowest
  <2> QED BY <1>1, <2>1
<1>14. Lowest(m, l)
  <2>1. CASE l0 = after
    <3>1. l = at /\ at \in DOMAIN m
      BY <1>7, <2>1
    <3>2. ASSUME NEW x \in DOMAIN m, x < at PROVE m[x].used
      <4>1. x # at /\ x \in DOMAIN m0 /\ x # after
        BY <1>3, <1>10, <3>2
      <4>2. x < l0
        BY <1>1, <1>3, <2>1, <3>2, <4>1
      <4> QED BY <1>8, <1>13, <4>1, <4>2
    <3> QED BY <1>7, <3>1, <3>2 DEF Lowest
  <2>2. CASE l0 # after
    <3>1. l = l0 /\ l0 < o
      <4>1. \A x \in DOMAIN m0 : x <= o \/ x >= after
        BY DEF Linked
      <4> QED BY <1>1, <1>13, <2>2, <4>1
    <3>2. l0 \in DOMAIN m /\ m[l0].used = m0[l0].used
      BY <1>8, <1>13, <2>2
    <3>3. ASSUME NEW x \in DOMAIN m, x < l0 PROVE m[x].used
      <4>1. x # at /\ x \in DOMAIN m0 /\ x # after
        BY <1>1, <1>3, <1>10, <1>13, <3>1, <3>3
      <4> QED BY <1>8, <1>13, <3>3, <4>1
    <3> QED BY <3>1, <3>2, <3>3 DEF Lowest
  <2> QED BY <2>1, <2>2
<1>15. SameUse(m0, m, o)
  BY <1>7, <1>8, <1>9, <1>10 DEF SameUse
<1>16. Room(m, o) = size
  BY <1>0, <1>1, <1>7, RoomOfEnd
<1> QED BY <1>1, <1>7, <1>8, <1>12, <1>14, <1>15, <1>16

\* mem_trim() that makes a free struct of the rest of the block
LEMMA TrimSplitFacts ==
  ASSUME NEW m0, Linked(m0), NoHoles(m0), NEW l0, Lowest(m0, l0),
         NEW o \in DOMAIN m0, o # Z, m0[o].used, m0[m0[o].next].used,
         NEW size, Suits(m0, o, size), Splits(m0, o, size), NEW at, EndOf(at, o, size),
         NEW m, m = Insert(m0, o, at), NEW l, Lower(l, at, l0)
  PROVE  Took(m0, m, o, size) /\ NoHoles(m) /\ Lowest(m, l)
<1>1. Took(m0, m, o, size) /\ at \in DOMAIN m \ DOMAIN m0
  BY SplitTakes
<1>2. NoHoles(m)
  BY <1>1, TookNoHoles
<1>3. /\ l0 \in DOMAIN m0 /\ l0 \in Nat /\ l0 # o /\ (m0[l0].used => l0 = Z)
      /\ DOMAIN m0 \subseteq Nat /\ \A x \in DOMAIN m0 : x < l0 => m0[x].used
  BY DEF Lowest, Linked
<1>4. /\ DOMAIN m \subseteq Nat /\ ~m[at].used /\ DOMAIN m0 \subseteq DOMAIN m /\ m[o].used
      /\ \A x \in DOMAIN m \ {at} : x \in DOMAIN m0
      /\ \A x \in DOMAIN m0 \ {o} : m[x].used = m0[x].used
  <2>1. Linked(m)
    BY <1>1 DEF Took
  <2>2. DOMAIN m \subseteq Nat
    BY <2>1 DEF Linked
  <2>3. \A x \in DOMAIN m \ {at} : x \in DOMAIN m0
    BY <1>1 DEF Took, EndOf
  <2> QED BY <1>1, <2>2, <2>3 DEF Took
<1>5. l \in DOMAIN m /\ l <= l0 /\ l <= at /\ l \in Nat /\ at \in Nat /\ (l = at \/ l = l0)
  BY <1>1, <1>3, <1>4 DEF Lower
<1>6. ASSUME NEW x \in DOMAIN m, x < l PROVE m[x].used
  <2>1. x \in DOMAIN m0 /\ x < l0
    BY <1>3, <1>4, <1>5, <1>6
  <2> QED BY <1>3, <1>4, <2>1
<1>7. m[l].used => l = Z
  BY <1>3, <1>4, <1>5
<1>8. Lowest(m, l)
  BY <1>5, <1>6, <1>7 DEF Lowest
<1> QED BY <1>1, <1>2, <1>8

\* The block that mem_trim() is called with, and the size it is to have
LEMMA TrimmedFacts ==
  ASSUME IInv, NEW a \in DOMAIN blocks, NEW n \in Sizes, n <= blocks[a], NEW o, o = a - S
  PROVE  /\ o \in DOMAIN mem /\ o # Z /\ mem[o].used /\ o + S = a /\ n \in Nat
         /\ DataSize(n) \in Nat /\ DataSize(n) % A = 0 /\ Tiny <= DataSize(n)
         /\ n <= DataSize(n) /\ DataSize(n) <= Room(mem, o) /\ Room(mem, o) \in Nat
         /\ Gave(blocks, [blocks EXCEPT ![a] = n], o, n)
<1>1. Linked(mem) /\ Holds(mem, blocks)
  BY InvParts
<1>2. /\ a \in Nat /\ blocks[a] \in Nat /\ o \in DOMAIN mem /\ o # Z
      /\ mem[o].used /\ blocks[a] <= Room(mem, o)
  BY <1>1 DEF Holds
<1>3. n \in 0..(Width - 1) /\ S \in Nat /\ n \in Nat /\ Z \in Nat
  BY Constants
<1>4. /\ Room(mem, o) \in Nat /\ Room(mem, o) % A = 0 /\ Tiny <= Room(mem, o)
      /\ o \in Nat /\ Room(mem, o) <= Z - S - o
  BY <1>1, <1>2, StructFacts
<1>5. n <= Room(mem, o) /\ Room(mem, o) <= Z /\ o + S = a
  BY <1>2, <1>3, <1>4
<1>6. /\ DataSize(n) \in Nat /\ DataSize(n) % A = 0 /\ Tiny <= DataSize(n)
      /\ n <= DataSize(n) /\ DataSize(n) <= Room(mem, o)
  BY <1>3, <1>4, <1>5, FitsAligned
<1>7. Gave(blocks, [blocks EXCEPT ![a] = n], a - S, n)
  <2>1. (a - S) + S = a
    BY <1>2, <1>3
  <2> QED BY <2>1 DEF Gave
<1> QED BY <1>2, <1>3, <1>4, <1>5, <1>6, <1>7

\* The result of mem_trim() when it changes the structs as one of the three cases
LEMMA TrimHolds ==
  ASSUME NEW m0, Linked(m0), NEW b0, Holds(m0, b0), NEW m, Linked(m), NEW o \in DOMAIN m, o # Z,
         m[o].used, NEW n \in Nat, NEW size \in Nat, n <= size, size <= Room(m, o),
         SameUse(m0, m, o), NEW b, Gave(b0, b, o, n)
  PROVE  Holds(m, b)
<1>1. n <= Room(m, o)
  <2>1. Room(m, o) \in Nat
    BY StructFacts
  <2> QED BY <2>1
<1> QED BY <1>1, HoldsAfter

\* A step of mem_trim()
LEMMA TrimInv ==
  ASSUME IInv, NEW a \in DOMAIN blocks, NEW n \in Sizes, mem_trim(a, n)
  PROVE  IInv'
<1> DEFINE o == a - S
           size == DataSize(n)
           after == mem[o].next
           at == o + S + size
           b == [blocks EXCEPT ![a] = n]
<1>1. /\ n <= blocks[a] /\ blocks' = b /\ failed' = 0
      /\ \/ size = Room(mem, o) /\ UNCHANGED <<mem, lfree>>
         \/ /\ size < Room(mem, o) /\ ~mem[after].used
            /\ mem' = Insert(Absorb(mem, o, after), o, at)
            /\ lfree' = IF lfree = after THEN at ELSE lfree
         \/ /\ size < Room(mem, o) /\ mem[after].used
            /\ Splits(mem, o, size)
            /\ mem' = Insert(mem, o, at)
            /\ Lower(lfree', at, lfree)
         \/ size < Room(mem, o) /\ UNCHANGED <<mem, lfree>>
  <2>1. size \in Nat /\ Room(mem, o) \in Nat /\ Tiny \in Nat /\ S \in Nat
    <3>1. n <= blocks[a]
      BY DEF mem_trim
    <3> QED BY <3>1, TrimmedFacts, TinyFacts, Constants
  <2> HIDE DEF size
  <2>2. SplitOff(o, size) => Splits(mem, o, size)
    BY <2>1 DEF SplitOff, Splits, S, Tiny
  <2> QED BY <2>2 DEF mem_trim, Moved, Lower, S, size
<1>2. Linked(mem) /\ NoHoles(mem) /\ Lowest(mem, lfree) /\ Holds(mem, blocks)
  BY InvParts
<1>3. /\ o \in DOMAIN mem /\ o # Z /\ mem[o].used /\ n \in Nat
      /\ size \in Nat /\ size % A = 0 /\ Tiny <= size
      /\ n <= size /\ size <= Room(mem, o) /\ Room(mem, o) \in Nat
      /\ Gave(blocks, b, o, n)
  BY <1>1, TrimmedFacts
<1>4. after = mem[o].next /\ EndOf(at, o, size) /\ Suits(mem, o, size)
  BY <1>3 DEF EndOf, Suits
<1> HIDE DEF size, at, after, b, o
<1>5. CASE UNCHANGED <<mem, lfree>>
  <2>1. SameUse(mem, mem, o)
    BY DEF SameUse
  <2>2. Holds(mem, b)
    BY <1>2, <1>3, <2>1, TrimHolds
  <2> QED BY <1>1, <1>2, <1>5, <2>2, Succeeds
<1>6. CASE /\ size < Room(mem, o) /\ ~mem[after].used
           /\ mem' = Insert(Absorb(mem, o, after), o, at)
           /\ lfree' = IF lfree = after THEN at ELSE lfree
  <2> DEFINE m == Insert(Absorb(mem, o, after), o, at)
             l == IF lfree = after THEN at ELSE lfree
  <2>1. /\ Linked(m) /\ NoHoles(m) /\ Lowest(m, l) /\ SameUse(mem, m, o)
        /\ o \in DOMAIN m /\ m[o].used /\ Room(m, o) = size
    <3>1. size # Room(mem, o)
      BY <1>3, <1>6
    <3>2. o \in DOMAIN mem /\ o # Z /\ mem[o].used
      BY <1>3
    <3> QED BY <1>2, <1>4, <1>6, <3>1, <3>2, GrowFacts
  <2>2. mem' = m /\ lfree' = l
    BY <1>6
  <2> HIDE DEF m, l
  <2>3. Holds(m, b)
    BY <1>2, <1>3, <2>1, TrimHolds
  <2> QED BY <1>1, <2>1, <2>2, <2>3, Succeeds
<1>7. CASE /\ size < Room(mem, o) /\ mem[after].used
           /\ Splits(mem, o, size)
           /\ mem' = Insert(mem, o, at)
           /\ Lower(lfree', at, lfree)
  <2> DEFINE m == Insert(mem, o, at)
             l == lfree'
  <2>1. Took(mem, m, o, size) /\ NoHoles(m) /\ Lowest(m, l)
    <3>1. o \in DOMAIN mem /\ o # Z /\ mem[o].used
      BY <1>3
    <3> QED BY <1>2, <1>4, <1>7, <3>1, TrimSplitFacts
  <2>2. mem' = m /\ lfree' = l
    BY <1>7
  <2> HIDE DEF m, l
  <2>3. Linked(m) /\ SameUse(mem, m, o) /\ o \in DOMAIN m /\ m[o].used /\ size <= Room(m, o)
    BY <1>3, <2>1, TookSameUse DEF Took
  <2>4. Holds(m, b)
    BY <1>2, <1>3, <2>3, TrimHolds
  <2> QED BY <1>1, <2>1, <2>2, <2>3, <2>4, Succeeds
<1> QED BY <1>1, <1>5, <1>6, <1>7

\* Every step
LEMMA NextInv == IInv /\ [Next]_vars => IInv'
<1> SUFFICES ASSUME IInv, [Next]_vars PROVE IInv'
  OBVIOUS
<1>1. CASE UNCHANGED vars
  <2>1. UNCHANGED <<mem, lfree, blocks, failed>>
    BY <1>1 DEF vars
  <2>2. UsedIsHeld' /\ FailsOnlyWhenFull'
    BY <2>1 DEF IInv, UsedIsHeld, FailsOnlyWhenFull
  <2> QED BY <2>1, <2>2 DEF IInv
<1>2. CASE \E n \in Sizes : mem_malloc(n)
  BY <1>2, MallocInv
<1>3. CASE \E a \in DOMAIN blocks : mem_free(a)
  BY <1>3, FreeInv
<1>4. CASE \E a \in DOMAIN blocks, n \in Sizes : mem_trim(a, n)
  BY <1>4, TrimInv
<1> QED BY <1>1, <1>2, <1>3, <1>4 DEF Next

----------------------------------------------------------------------------
(* The theorems.                                                           *)

\* The inductive invariant holds for every sequence of calls.
THEOREM Invariance == Spec => []IInv
BY InitInv, NextInv, PTL DEF Spec

\* What the invariant says of the list is what mem_sanity() would assert.
LEMMA InvConsistent == IInv => HeapConsistent
<1> SUFFICES ASSUME IInv PROVE HeapConsistent
  OBVIOUS
<1>1. Linked(mem) /\ NoHoles(mem) /\ Lowest(mem, lfree) /\ UsedIsHeld /\ failed \in 0..(Width - 1)
  BY DEF IInv
<1>2. TypeOK
  BY <1>1 DEF TypeOK, Linked, Lowest, Z
<1>3. WellLinked
  <2>1. 0 \in DOMAIN mem /\ Z \in DOMAIN mem /\ mem[0].prev = 0
    BY <1>1 DEF Linked
  <2>2. ASSUME NEW o \in DOMAIN mem \ {Z}
        PROVE  /\ Room(mem, o) >= Tiny
               /\ \A x \in DOMAIN mem : x <= o \/ x >= mem[o].next
               /\ mem[o].next # Z =>
                    mem[mem[o].next].prev = o /\ (mem[o].used \/ mem[mem[o].next].used)
    <3>1. Room(mem, o) \in Nat /\ Tiny <= Room(mem, o) /\ Tiny \in Nat
      BY <1>1, StructFacts, TinyFacts
    <3> QED BY <1>1, <3>1 DEF Linked, NoHoles
  <2> QED BY <2>1, <2>2 DEF WellLinked, Z, Tiny
<1>4. LowestFree
  BY <1>1 DEF Lowest, LowestFree, Z
<1> QED BY <1>1, <1>2, <1>3, <1>4 DEF HeapConsistent

\* The heap is consistent whatever is allocated, trimmed and freed, in any order:
\* one list over the whole heap, no two free structs in a row, lfree at the first
\* free one, and a block for each struct in use.
THEOREM Consistent == Spec => []HeapConsistent
BY Invariance, InvConsistent, PTL

\* mem_malloc() does not fail while a free struct has room for what is asked for:
\* the scan misses none, and what alignment adds never makes it too large.
THEOREM FailsOnlyIfFull == Spec => []FailsOnlyWhenFull
<1>1. IInv => FailsOnlyWhenFull
  BY DEF IInv
<1> QED BY <1>1, Invariance, PTL

\* Two structs do not overlap.
LEMMA Apart ==
  ASSUME NEW m, Linked(m), NEW o \in DOMAIN m, o # Z, NEW p \in DOMAIN m, p # Z, p # o,
         NEW k \in Nat, k <= Room(m, o), NEW j \in Nat, j <= Room(m, p)
  PROVE  (o + S)..(o + S + k - 1) \cap (p + S)..(p + S + j - 1) = {}
<1>1. /\ o \in Nat /\ p \in Nat /\ S \in Nat
      /\ Room(m, o) \in Nat /\ m[o].next = o + S + Room(m, o)
      /\ Room(m, p) \in Nat /\ m[p].next = p + S + Room(m, p)
  BY StructFacts, Constants
<1>2. (p <= o \/ p >= m[o].next) /\ (o <= p \/ o >= m[p].next)
  BY DEF Linked
<1>3. p >= o + S + k \/ o >= p + S + j
  BY <1>1, <1>2
<1> QED BY <1>1, <1>3

\* A block that mem_malloc() returns is aligned, inside the heap and nobody's.
LEMMA MallocRefines ==
  ASSUME IInv, NEW n \in Sizes, mem_malloc(n)
  PROVE  [Abstract!Next]_blocks
<1>1. CASE UNCHANGED blocks
  BY <1>1
<1>2. CASE /\ n # 0 /\ ~Impossible(n) /\ Fitting(DataSize(n)) # {}
           /\ \E o \in {Least(Fitting(DataSize(n)))} :
                blocks' = With(blocks, o + SIZEOF_STRUCT_MEM, n)
  <2>1. PICK o : /\ o = Least(Fitting(DataSize(n)))
                 /\ blocks' = With(blocks, o + SIZEOF_STRUCT_MEM, n)
    BY <1>2
  <2>2. /\ o \in DOMAIN mem /\ o # Z /\ ~mem[o].used /\ DataSize(n) <= Room(mem, o)
        /\ DataSize(n) \in Nat /\ n <= DataSize(n) /\ n \in Nat
    BY <1>2, <2>1, FoundFacts
  <2>3. /\ Linked(mem) /\ Holds(mem, blocks)
    BY InvParts
  <2>4. /\ o \in Nat /\ o % A = 0 /\ Room(mem, o) \in Nat /\ Room(mem, o) <= Z - S - o
        /\ Tiny <= Room(mem, o) /\ Tiny \in Nat \ {0}
        /\ S \in Nat \ {0} /\ S % A = 0 /\ Z \in Nat
    BY <2>2, <2>3, StructFacts, Constants, TinyFacts
  <2>5. n <= Room(mem, o)
    BY <2>2, <2>4
  <2> DEFINE a == o + S
  <2>6. a \in Nat /\ a % A = 0 /\ a \in 0..(Z - 1) /\ a - S = o
    <3>1. a % A = 0
      BY <2>4, SumOfMultiples
    <3> QED BY <2>4, <3>1
  <2>7. a..(a + n - 1) \subseteq 0..(Z - 1)
    BY <2>2, <2>4, <2>5
  <2>8. ASSUME NEW b \in DOMAIN blocks
        PROVE  a..(a + n - 1) \cap b..(b + blocks[b] - 1) = {}
    <3>1. /\ b \in Nat /\ blocks[b] \in Nat /\ b - S \in DOMAIN mem /\ b - S # Z
          /\ mem[b - S].used /\ blocks[b] <= Room(mem, b - S)
      BY <2>3 DEF Holds
    <3>2. b - S # o
      BY <2>2, <3>1
    <3>3. (o + S)..(o + S + n - 1) \cap ((b - S) + S)..((b - S) + S + blocks[b] - 1) = {}
      BY <2>2, <2>3, <2>5, <3>1, <3>2, Apart
    <3>4. (b - S) + S = b
      BY <2>4, <3>1
    <3> QED BY <3>3, <3>4
  <2>9. blocks' = [b \in DOMAIN blocks \cup {a} |-> IF b = a THEN n ELSE blocks[b]]
    BY <2>1 DEF With, S
  <2> HIDE DEF a
  <2>10. Abstract!Malloc(a, n)
    BY <2>6, <2>7, <2>8, <2>9 DEF Abstract!Malloc, Abstract!Bytes, A, Z
  <2>11. a \in 0..(MEM_SIZE_ALIGNED - 1)
    BY <2>6 DEF Z
  <2> QED BY <2>10, <2>11 DEF Abstract!Next
<1> QED BY <1>1, <1>2 DEF mem_malloc

\* Every step of the heap is one of the allocator, or leaves the blocks alone.
LEMMA StepRefines == IInv /\ [Next]_vars => [Abstract!Next]_blocks
<1> SUFFICES ASSUME IInv, [Next]_vars PROVE [Abstract!Next]_blocks
  OBVIOUS
<1>1. CASE UNCHANGED vars
  BY <1>1 DEF vars
<1>2. CASE \E n \in Sizes : mem_malloc(n)
  BY <1>2, MallocRefines
<1>3. CASE \E a \in DOMAIN blocks : mem_free(a)
  <2>1. PICK a \in DOMAIN blocks : mem_free(a)
    BY <1>3
  <2>2. Abstract!Free(a)
    BY <2>1 DEF mem_free, Abstract!Free
  <2> QED BY <2>2 DEF Abstract!Next
<1>4. CASE \E a \in DOMAIN blocks, n \in Sizes : mem_trim(a, n)
  <2>1. PICK a \in DOMAIN blocks, n \in Sizes : mem_trim(a, n)
    BY <1>4
  <2>2. Abstract!Trim(a, n)
    BY <2>1 DEF mem_trim, Abstract!Trim
  <2> QED BY <2>2 DEF Abstract!Next
<1> QED BY <1>1, <1>2, <1>3, <1>4 DEF Next

\* The heap is an allocator: no call moves or shortens the block of another, and
\* what mem_malloc() returns is aligned memory that nobody holds.
THEOREM Refinement == Spec => ImplementsAllocator
<1>1. Init => Abstract!Init
  BY DEF Init, Abstract!Init
<1> QED BY <1>1, StepRefines, Invariance, PTL DEF Spec, ImplementsAllocator, Abstract!Spec
=============================================================================
