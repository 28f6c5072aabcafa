--------------------------- MODULE Timeouts_proofs ---------------------------
(***************************************************************************)
(* Proofs about the list of timeouts, for every set of cyclic timers, every *)
(* interval and every width of the clock that the assumptions of Timeouts  *)
(* allow.                                                                  *)
(*                                                                         *)
(* The code compares times that wrap; it is right as long as two times it  *)
(* compares are less than half the range apart.  The invariant bounds the  *)
(* true time left of every entry, and the difference of every two, and     *)
(* says that the times stored are those true times, counted from the       *)
(* clock.                                                                  *)
(***************************************************************************)
EXTENDS Timeouts, FiniteSetTheorems, WellFoundedInduction, SequenceTheorems, TLAPS

\* The time n before or after t on the clock, |n| <= Wrap
At(t, n) == IF t + n < 0 THEN t + n + Wrap ELSE IF t + n >= Wrap THEN t + n - Wrap ELSE t + n

\* Largest difference of two expiry times in the list
Span == Wrap \div 4 + 2 * MaxLag

\* One entry: how far its true expiry may lie back.
EntryOK(e) ==
  /\ e.left <= Span
  /\ pc \in {"main", "asleep"} => e.left + lag >= 0
  /\ pc \in {"check", "handler"} => e.left + lag >= -MaxLag /\ e.left + lag <= Span
  /\ e.h \in Cyclic /\ runs[e.h] >= 1 => e.left + lag >= 0
  /\ e.h \in Cyclic /\ runs[e.h] >= 2 => e.left + lag > 0

\* Two entries of a list
PairsOK(list) ==
  \A i, j \in DOMAIN list :
    /\ list[i].left - list[j].left <= Span
    /\ i < j => list[i].left <= list[j].left
    /\ list[i].h = list[j].h /\ list[i].h # "app" => i = j

\* The expiry times stored are the true ones, counted from b.
Based(list, b) == \A i \in DOMAIN list : list[i].time = At(b, list[i].left)

In(list, h) == \E i \in DOMAIN list : list[i].h = h

ListInv ==
  /\ \A i \in DOMAIN next_timeout : EntryOK(next_timeout[i])
  /\ PairsOK(next_timeout)
  /\ IF pc = "asleep" THEN \E b \in Time : Based(next_timeout, b) ELSE Based(next_timeout, clock)
  /\ pc = "asleep" => next_timeout # << >>

PoolInv ==
  /\ \A h \in Cyclic : In(next_timeout, h) <=> handler # h
  /\ In(next_timeout, "tcp") <=> tcpip_tcp_timer_active /\ handler # "tcp"
  /\ pcbs \/ handler = "tcp" => tcpip_tcp_timer_active
  /\ free + Len(next_timeout) = PoolSize
  /\ Count("app") <= MaxApp

HandlerInv ==
  /\ pc = "handler" <=> handler # "none"
  /\ pc = "handler" => /\ late <= MaxLag + lag /\ current_timeout_due_time = At(clock, -late)
  /\ pc \in {"check", "handler"} => now = At(clock, -lag)
  /\ pc \in {"main", "asleep"} => runs = [h \in Handlers |-> 0]
  /\ handler \in Cyclic => /\ runs[handler] \in 1 .. 2
                           /\ runs[handler] = 2 => late <= lag
  /\ \A h \in Cyclic : runs[h] <= 2

IInv == TypeOK /\ ListInv /\ PoolInv /\ HandlerInv

-----------------------------------------------------------------------------
(* The clock.                                                              *)

\* The constants of the configuration, for the provers
LEMMA Constants ==
  /\ Wrap \in Nat /\ Wrap > 0 /\ Wrap \div 2 \in Nat /\ Wrap \div 4 \in Nat
  /\ Wrap = 4 * (Wrap \div 4) /\ Wrap \div 2 = 2 * (Wrap \div 4)
  /\ MaxLag \in Nat /\ MaxLag > 0 /\ Span \in Nat /\ Span < Wrap \div 2
  /\ Span = Wrap \div 4 + 2 * MaxLag
  /\ TcpInterval \in 1 .. (Wrap \div 4) /\ Interval \in [Cyclic -> 1 .. (Wrap \div 4)]
  /\ AppDelays \subseteq 1 .. (Wrap \div 4) /\ Sleeps \subseteq Nat
  /\ IsFiniteSet(Cyclic) /\ "tcp" \notin Cyclic /\ "app" \notin Cyclic /\ "none" \notin Cyclic
  /\ MaxApp \in Nat /\ PoolSize \in Nat
BY ConstantsOK, Configuration DEF Span

\* A sum that leaves the range once
LEMMA ModSmall ==
  ASSUME NEW W \in Nat, W > 0, NEW x \in Int, x >= -W, x < 2 * W
  PROVE  x % W = IF x < 0 THEN x + W ELSE IF x >= W THEN x - W ELSE x
OBVIOUS

\* u32_t addition and subtraction, for the distances that occur
LEMMA AddAt ==
  ASSUME NEW t \in Time, NEW n \in Int, n >= -Wrap, n <= Wrap
  PROVE  Add(t, n) = At(t, n) /\ At(t, n) \in Time
BY Constants, ModSmall DEF Add, At, Time

\* Sums stay in the range.
LEMMA AddType ==
  ASSUME NEW t \in Time, NEW n \in Int
  PROVE  Add(t, n) \in Time
BY Constants DEF Add, Time

\* Distances add up.
LEMMA AtAt ==
  ASSUME NEW t \in Time, NEW m \in Int, NEW n \in Int,
         -Wrap < m, m < Wrap, -Wrap < n, n < Wrap, -Wrap < m + n, m + n < Wrap
  PROVE  At(At(t, m), n) = At(t, m + n)
BY Constants DEF At, Time

\* No distance at all
LEMMA AtZero == ASSUME NEW t \in Time PROVE At(t, 0) = t
BY Constants DEF At, Time

\* TIME_LESS_THAN tells the true order of two times less than half the range
\* apart.
LEMMA LessThan ==
  ASSUME NEW t \in Time, NEW m \in Int, NEW n \in Int,
         -Wrap < m, m < Wrap, -Wrap < n, n < Wrap, -(Wrap \div 2) < m - n, m - n < Wrap \div 2
  PROVE  TIME_LESS_THAN(At(t, m), At(t, n)) <=> m < n
<1>1. At(t, m) \in Time /\ At(t, n) \in Time
  BY Constants, AddAt
<1> DEFINE x == At(t, m) - At(t, n)
<1>2. x \in Int /\ -Wrap <= x /\ x < 2 * Wrap
  BY <1>1, Constants DEF Time
<1>3. x % Wrap = IF x < 0 THEN x + Wrap ELSE IF x >= Wrap THEN x - Wrap ELSE x
  BY <1>2, Constants, ModSmall
<1>4. x = m - n \/ x = m - n + Wrap \/ x = m - n - Wrap
  BY Constants DEF At, Time
<1>5. TIME_LESS_THAN(At(t, m), At(t, n)) <=> x % Wrap > Wrap \div 2 - 1
  BY DEF TIME_LESS_THAN, Sub, LWIP_MAX_TIMEOUT
<1> HIDE DEF x
<1> QED BY <1>2, <1>3, <1>4, <1>5, Constants

-----------------------------------------------------------------------------
(* The list.                                                               *)

\* big is small with e inserted at position pos.
Inserted(small, big, pos, e) ==
  /\ small \in Seq(Entry) /\ big \in Seq(Entry) /\ e \in Entry
  /\ pos \in 1 .. (Len(small) + 1) /\ Len(big) = Len(small) + 1
  /\ \A k \in 1 .. (Len(small) + 1) :
       big[k] = IF k < pos THEN small[k] ELSE IF k = pos THEN e ELSE small[k - 1]

\* Where an entry of the shorter list is in the longer one, and back
To(pos, k) == IF k < pos THEN k ELSE k + 1
From(pos, k) == IF k < pos THEN k ELSE k - 1

\* The entries of the longer list are those of the shorter one and e, in the
\* same order.
LEMMA InsertedFacts ==
  ASSUME NEW small, NEW big, NEW pos, NEW e, Inserted(small, big, pos, e)
  PROVE  /\ Len(small) \in Nat /\ pos \in DOMAIN big /\ big[pos] = e /\ pos \in Nat
         /\ DOMAIN big = 1 .. (Len(small) + 1) /\ DOMAIN small = 1 .. Len(small)
         /\ \A k \in DOMAIN small :
              To(pos, k) \in DOMAIN big /\ To(pos, k) # pos /\ big[To(pos, k)] = small[k]
         /\ \A k \in DOMAIN big : k # pos =>
              From(pos, k) \in DOMAIN small /\ small[From(pos, k)] = big[k]
         /\ \A i, j \in Nat : /\ i < j <=> To(pos, i) < To(pos, j)
                              /\ i = j <=> To(pos, i) = To(pos, j)
         /\ \A i, j \in Nat : i # pos /\ j # pos =>
              /\ i < j <=> From(pos, i) < From(pos, j)
              /\ i = j <=> From(pos, i) = From(pos, j)
<1>1. /\ Len(small) \in Nat /\ pos \in 1 .. (Len(small) + 1) /\ Len(big) = Len(small) + 1
      /\ DOMAIN big = 1 .. (Len(small) + 1) /\ DOMAIN small = 1 .. Len(small)
  BY DEF Inserted
<1>2. \A k \in 1 .. (Len(small) + 1) :
        big[k] = IF k < pos THEN small[k] ELSE IF k = pos THEN e ELSE small[k - 1]
  BY DEF Inserted
<1>3. \A k \in DOMAIN small : To(pos, k) \in DOMAIN big /\ To(pos, k) # pos /\ big[To(pos, k)] = small[k]
  BY <1>1, <1>2 DEF To
<1>4. \A k \in DOMAIN big : k # pos => From(pos, k) \in DOMAIN small /\ small[From(pos, k)] = big[k]
  BY <1>1, <1>2 DEF From
<1>5. big[pos] = e
  BY <1>1, <1>2
<1>6. \A i, j \in Nat : /\ i < j <=> To(pos, i) < To(pos, j)
                        /\ i = j <=> To(pos, i) = To(pos, j)
  BY <1>1 DEF To
<1>7. \A i, j \in Nat : i # pos /\ j # pos =>
              /\ i < j <=> From(pos, i) < From(pos, j)
              /\ i = j <=> From(pos, i) = From(pos, j)
  BY <1>1 DEF From
<1> QED BY <1>1, <1>3, <1>4, <1>5, <1>6, <1>7

\* Putting an entry in front of position pos
LEMMA InsertAtFacts ==
  ASSUME NEW list \in Seq(Entry), NEW e \in Entry, NEW pos \in 1 .. (Len(list) + 1)
  PROVE  Inserted(list, InsertAt(list, pos, e), pos, e)
<1> DEFINE a == SubSeq(list, 1, pos - 1)
           b == SubSeq(list, pos, Len(list))
           big == InsertAt(list, pos, e)
<1>0. Len(list) \in Nat /\ pos \in Nat /\ pos >= 1 /\ pos <= Len(list) + 1
  OBVIOUS
<1>1. /\ a \in Seq(Entry) /\ Len(a) = pos - 1
      /\ \A k \in 1 .. (pos - 1) : a[k] = list[k]
  BY <1>0
<1>2. /\ b \in Seq(Entry) /\ Len(b) = Len(list) - pos + 1
      /\ \A k \in 1 .. (Len(list) - pos + 1) : b[k] = list[pos + k - 1]
  BY <1>0
<1>3. big = (a \o <<e>>) \o b
  BY DEF InsertAt
<1> HIDE DEF a, b, big
<1> DEFINE c == a \o <<e>>
<1>4. /\ c \in Seq(Entry) /\ Len(c) = pos
      /\ \A k \in 1 .. pos : c[k] = IF k < pos THEN list[k] ELSE e
  BY <1>0, <1>1
<1>5. big = c \o b
  BY <1>3
<1> HIDE DEF c
<1>6. big \in Seq(Entry) /\ Len(big) = Len(list) + 1
  <2>0. c \in Seq(Entry) /\ b \in Seq(Entry)
    BY <1>2, <1>4
  <2>1. big \in Seq(Entry) /\ Len(big) = Len(c) + Len(b)
    BY <2>0, <1>5, ConcatProperties
  <2> QED BY <1>0, <1>2, <1>4, <2>1
<1>7. \A k \in 1 .. (Len(list) + 1) :
        big[k] = IF k < pos THEN list[k] ELSE IF k = pos THEN e ELSE list[k - 1]
  <2> SUFFICES ASSUME NEW k \in 1 .. (Len(list) + 1)
               PROVE  big[k] = IF k < pos THEN list[k] ELSE IF k = pos THEN e ELSE list[k - 1]
    OBVIOUS
  <2>1. CASE k <= pos
    <3>1. big[k] = c[k]
      BY <1>0, <1>2, <1>4, <1>5, <2>1
    <3> QED BY <1>0, <1>4, <2>1, <3>1
  <2>2. CASE k > pos
    <3>1. big[k] = b[k - pos]
      BY <1>0, <1>2, <1>4, <1>5, <2>2
    <3>2. k - pos \in 1 .. (Len(list) - pos + 1) /\ pos + (k - pos) - 1 = k - 1
      BY <1>0, <2>2
    <3> QED BY <1>0, <1>2, <2>2, <3>1, <3>2
  <2> QED BY <1>0, <2>1, <2>2
<1> QED BY <1>6, <1>7 DEF Inserted, big

\* There is a least number in a set that is not empty.
LEMMA LeastNat ==
  ASSUME NEW T, T \subseteq Nat, T # {}
  PROVE  \E x \in T : \A y \in T : x <= y
<1>1. IsWellFoundedOn(OpToRel(<, Nat), Nat)
  BY NatLessThanWellFounded
<1>2. PICK x \in T : \A y \in T : ~(<<y, x>> \in OpToRel(<, Nat))
  BY <1>1, WFMin
<1>3. \A y \in T : ~(y < x)
  BY <1>2 DEF OpToRel
<1> QED BY <1>3

\* sys_timeout_abs() finds the place: nothing before it expires later, the entry
\* at it does.
LEMMA InsertFacts ==
  ASSUME NEW list \in Seq(Entry), NEW e \in Entry
  PROVE  \E pos \in 1 .. (Len(list) + 1) :
           /\ Inserted(list, Insert(list, e), pos, e)
           /\ \A k \in 1 .. (pos - 1) : ~TIME_LESS_THAN(e.time, list[k].time)
           /\ pos <= Len(list) => TIME_LESS_THAN(e.time, list[pos].time)
<1> DEFINE later == {k \in DOMAIN list : TIME_LESS_THAN(e.time, list[k].time)}
           pos == IF later = {} THEN Len(list) + 1
                  ELSE CHOOSE k \in later : \A j \in later : k <= j
<1>0. Len(list) \in Nat /\ DOMAIN list = 1 .. Len(list)
  OBVIOUS
<1>1. later \subseteq Nat
  BY <1>0
<1>2. CASE later = {}
  <2>1. pos = Len(list) + 1
    BY <1>2
  <2>2. \A k \in 1 .. (pos - 1) : ~TIME_LESS_THAN(e.time, list[k].time)
    BY <1>0, <1>2, <2>1
  <2>3. Insert(list, e) = InsertAt(list, pos, e)
    BY DEF Insert
  <2> HIDE DEF pos
  <2>4. pos \in 1 .. (Len(list) + 1) /\ ~(pos <= Len(list))
    BY <1>0, <2>1
  <2>5. Inserted(list, Insert(list, e), pos, e)
    BY <2>3, <2>4, InsertAtFacts
  <2> QED BY <2>2, <2>4, <2>5
<1>3. CASE later # {}
  <2>1. \E k \in later : \A j \in later : k <= j
    <3> HIDE DEF later
    <3> QED BY <1>1, <1>3, LeastNat
  <2>2. pos \in later /\ \A j \in later : pos <= j
    BY <1>3, <2>1
  <2>3. Insert(list, e) = InsertAt(list, pos, e)
    BY DEF Insert
  <2>4. pos \in 1 .. Len(list) /\ TIME_LESS_THAN(e.time, list[pos].time)
    BY <1>0, <2>2
  <2> HIDE DEF pos
  <2>5. ASSUME NEW k \in 1 .. (pos - 1) PROVE ~TIME_LESS_THAN(e.time, list[k].time)
    <3>1. k \in DOMAIN list /\ ~(pos <= k)
      BY <1>0, <2>4
    <3>2. k \notin later
      <4> HIDE DEF later
      <4> QED BY <2>2, <3>1
    <3> QED BY <3>1, <3>2
  <2>6. pos \in 1 .. (Len(list) + 1)
    BY <1>0, <2>4
  <2>7. Inserted(list, Insert(list, e), pos, e)
    BY <2>3, <2>6, InsertAtFacts
  <2> QED BY <2>4, <2>5, <2>6, <2>7
<1> QED BY <1>2, <1>3

\* Head and Tail
LEMMA TailFacts ==
  ASSUME NEW list \in Seq(Entry), list # << >>
  PROVE  Inserted(Tail(list), list, 1, Head(list)) /\ Head(list) = list[1]
<1>1. Len(list) \in Nat /\ Len(list) >= 1 /\ Head(list) = list[1] /\ Head(list) \in Entry
  OBVIOUS
<1>2. /\ Tail(list) \in Seq(Entry) /\ Len(Tail(list)) = Len(list) - 1
      /\ \A k \in 1 .. (Len(list) - 1) : Tail(list)[k] = list[k + 1]
  BY <1>1
<1> DEFINE t == Tail(list)
<1> HIDE DEF t
<1>3. \A k \in 1 .. Len(list) :
        list[k] = IF k < 1 THEN t[k] ELSE IF k = 1 THEN Head(list) ELSE t[k - 1]
  <2> SUFFICES ASSUME NEW k \in 1 .. Len(list), k # 1 PROVE list[k] = t[k - 1]
    BY <1>1
  <2>1. k - 1 \in 1 .. (Len(list) - 1) /\ (k - 1) + 1 = k
    BY <1>1
  <2> QED BY <1>2, <2>1 DEF t
<1> QED BY <1>1, <1>2, <1>3 DEF Inserted, t

\* Taking out the entry at position pos
LEMMA RemoveAtFacts ==
  ASSUME NEW list \in Seq(Entry), NEW pos \in 1 .. Len(list)
  PROVE  Inserted(RemoveAt(list, pos), list, pos, list[pos])
<1> DEFINE a == SubSeq(list, 1, pos - 1)
           b == SubSeq(list, pos + 1, Len(list))
           small == RemoveAt(list, pos)
<1>0. Len(list) \in Nat /\ pos \in Nat /\ pos >= 1 /\ pos <= Len(list) /\ list[pos] \in Entry
  OBVIOUS
<1>1. /\ a \in Seq(Entry) /\ Len(a) = pos - 1
      /\ \A k \in 1 .. (pos - 1) : a[k] = list[k]
  BY <1>0
<1>2. /\ b \in Seq(Entry) /\ Len(b) = Len(list) - pos
      /\ \A k \in 1 .. (Len(list) - pos) : b[k] = list[pos + k]
  BY <1>0
<1>3. small = a \o b
  BY DEF RemoveAt
<1> HIDE DEF a, b, small
<1>4. /\ small \in Seq(Entry) /\ Len(small) = Len(a) + Len(b)
      /\ \A k \in 1 .. (Len(a) + Len(b)) : small[k] = IF k <= Len(a) THEN a[k] ELSE b[k - Len(a)]
  BY <1>1, <1>2, <1>3, ConcatProperties
<1>5. Len(small) = Len(list) - 1
  BY <1>0, <1>1, <1>2, <1>4
<1>6. \A k \in 1 .. Len(list) :
        list[k] = IF k < pos THEN small[k] ELSE IF k = pos THEN list[pos] ELSE small[k - 1]
  <2> SUFFICES ASSUME NEW k \in 1 .. Len(list)
               PROVE  /\ k < pos => small[k] = list[k]
                      /\ k > pos => small[k - 1] = list[k]
    BY <1>0
  <2>1. ASSUME k < pos PROVE small[k] = list[k]
    <3>1. k \in 1 .. (Len(a) + Len(b)) /\ k <= Len(a) /\ k \in 1 .. (pos - 1)
      BY <1>0, <1>1, <1>2, <2>1
    <3> QED BY <1>1, <1>4, <3>1
  <2>2. ASSUME k > pos PROVE small[k - 1] = list[k]
    <3>1. /\ k - 1 \in 1 .. (Len(a) + Len(b)) /\ ~(k - 1 <= Len(a))
          /\ (k - 1) - Len(a) = k - pos /\ k - pos \in 1 .. (Len(list) - pos) /\ pos + (k - pos) = k
      BY <1>0, <1>1, <1>2, <2>2
    <3>2. small[k - 1] = b[k - pos]
      BY <1>4, <3>1
    <3> QED BY <1>2, <3>1, <3>2
  <2> QED BY <2>1, <2>2
<1>7. small \in Seq(Entry) /\ pos \in 1 .. (Len(small) + 1) /\ Len(list) = Len(small) + 1
  BY <1>0, <1>4, <1>5
<1>8. Inserted(small, list, pos, list[pos])
  BY <1>0, <1>6, <1>7 DEF Inserted
<1> QED BY <1>8 DEF small

\* sys_untimeout() takes the application's first entry out.
LEMMA RemoveMatchFacts ==
  ASSUME NEW list \in Seq(Entry), In(list, "app")
  PROVE  \E pos \in 1 .. Len(list) :
           /\ list[pos].h = "app"
           /\ Inserted(RemoveFirstMatch(list, LAMBDA e : e.h = "app"), list, pos, list[pos])
<1> DEFINE I == {k \in 1 .. Len(list) : list[k].h = "app"}
           pos == CHOOSE x \in I : \A y \in I : x <= y
<1>1. I # {} /\ I \subseteq Nat
  BY DEF In
<1>2. \E x \in I : \A y \in I : x <= y
  <2> HIDE DEF I
  <2> QED BY <1>1, LeastNat
<1>3. pos \in I
  <2> HIDE DEF I
  <2> QED BY <1>2
<1>4. RemoveFirstMatch(list, LAMBDA e : e.h = "app") = RemoveAt(list, pos)
  BY <1>1 DEF RemoveFirstMatch, SelectInSeq, Min, In
<1> HIDE DEF pos
<1>5. pos \in 1 .. Len(list) /\ list[pos].h = "app"
  BY <1>3
<1> QED BY <1>4, <1>5, RemoveAtFacts

-----------------------------------------------------------------------------
(* Counting.                                                               *)

\* The places of h in a list
Places(list, h) == {k \in DOMAIN list : list[k].h = h}

\* They are finitely many.
LEMMA PlacesFinite ==
  ASSUME NEW list \in Seq(Entry), NEW h
  PROVE  IsFiniteSet(Places(list, h)) /\ Cardinality(Places(list, h)) \in Nat
<1>1. DOMAIN list = 1 .. Len(list) /\ Len(list) \in Nat
  OBVIOUS
<1>2. IsFiniteSet(1 .. Len(list))
  BY <1>1, FS_Interval
<1>3. Places(list, h) \in SUBSET (1 .. Len(list))
  BY <1>1 DEF Places
<1> QED BY <1>2, <1>3, FS_Subset, FS_CardinalityType

\* An entry more is one place more for its handler, and none for the others.
LEMMA InsertedPlaces ==
  ASSUME NEW small, NEW big, NEW pos, NEW e, Inserted(small, big, pos, e), NEW h
  PROVE  /\ Cardinality(Places(small, h)) <= Cardinality(Places(big, h))
         /\ Cardinality(Places(big, h)) <= Cardinality(Places(small, h)) + 1
         /\ e.h # h => Cardinality(Places(big, h)) = Cardinality(Places(small, h))
<1> DEFINE S == Places(small, h)
           B == Places(big, h)
           R == B \ {pos}
<1>0. small \in Seq(Entry) /\ big \in Seq(Entry)
  BY DEF Inserted
<1>1. /\ IsFiniteSet(S) /\ IsFiniteSet(B) /\ Cardinality(S) \in Nat /\ Cardinality(B) \in Nat
  BY <1>0, PlacesFinite
<1>2. /\ Len(small) \in Nat /\ pos \in DOMAIN big /\ big[pos] = e /\ pos \in Nat
      /\ DOMAIN big = 1 .. (Len(small) + 1) /\ DOMAIN small = 1 .. Len(small)
      /\ \A k \in DOMAIN small :
           To(pos, k) \in DOMAIN big /\ To(pos, k) # pos /\ big[To(pos, k)] = small[k]
      /\ \A k \in DOMAIN big : k # pos =>
           From(pos, k) \in DOMAIN small /\ small[From(pos, k)] = big[k]
  BY InsertedFacts
<1>2a. /\ \A i, j \in Nat : i = j <=> To(pos, i) = To(pos, j)
       /\ \A i, j \in Nat : i # pos /\ j # pos => (i = j <=> From(pos, i) = From(pos, j))
  BY InsertedFacts
<1>3. Cardinality(S) <= Cardinality(R) /\ IsFiniteSet(R)
  <2> DEFINE f == [k \in S |-> To(pos, k)]
  <2>1. \A k \in S : k \in Nat /\ To(pos, k) \in R
    BY <1>2 DEF Places
  <2>2. \A i, j \in S : To(pos, i) = To(pos, j) => i = j
    BY <1>2a, <2>1
  <2>3. IsFiniteSet(R)
    BY <1>1, FS_RemoveElement
  <2> HIDE DEF S, R
  <2>4. f \in Injection(S, R)
    BY <2>1, <2>2 DEF Injection, IsInjective
  <2> QED BY <2>3, <2>4, FS_Injection
<1>4. Cardinality(R) <= Cardinality(S)
  <2> DEFINE f == [k \in R |-> From(pos, k)]
  <2>1. \A k \in R : k \in Nat /\ k # pos /\ From(pos, k) \in S
    BY <1>2 DEF Places
  <2>2. \A i, j \in R : From(pos, i) = From(pos, j) => i = j
    BY <1>2a, <2>1
  <2> HIDE DEF S, R
  <2>4. f \in Injection(R, S)
    BY <2>1, <2>2 DEF Injection, IsInjective
  <2> QED BY <1>1, <2>4, FS_Injection
<1>5. Cardinality(R) = IF pos \in B THEN Cardinality(B) - 1 ELSE Cardinality(B)
  <2> HIDE DEF B
  <2> QED BY <1>1, FS_RemoveElement
<1>6. e.h # h => pos \notin B
  BY <1>2 DEF Places
<1>7. Cardinality(R) \in Nat
  BY <1>3, FS_CardinalityType
<1> HIDE DEF S, B, R
<1>8. Cardinality(R) = Cardinality(S)
  BY <1>1, <1>3, <1>4, <1>7
<1>9. /\ Cardinality(S) <= Cardinality(B) /\ Cardinality(B) <= Cardinality(S) + 1
      /\ e.h # h => Cardinality(B) = Cardinality(S)
  BY <1>1, <1>5, <1>6, <1>8
<1> QED BY <1>9 DEF S, B

\* There is room in the pool while a timer is not in the list.
LEMMA Room ==
  ASSUME NEW list \in Seq(Entry), PairsOK(list), Cardinality(Places(list, "app")) <= MaxApp,
         NEW x \in Cyclic \cup {"tcp"}, ~In(list, x)
  PROVE  Len(list) < PoolSize
<1> DEFINE A == Places(list, "app")
           B == {k \in DOMAIN list : list[k].h # "app"}
           X == (Cyclic \cup {"tcp"}) \ {x}
           f == [k \in B |-> list[k].h]
<1>1. DOMAIN list = 1 .. Len(list) /\ Len(list) \in Nat
  OBVIOUS
<1>2. IsFiniteSet(1 .. Len(list)) /\ Cardinality(1 .. Len(list)) = Len(list)
  BY <1>1, FS_Interval
<1>3. 1 .. Len(list) = A \cup B /\ A \cap B = {}
  BY <1>1 DEF Places
<1>4. IsFiniteSet(A) /\ Cardinality(A) \in Nat
  BY PlacesFinite
<1>5. IsFiniteSet(B) /\ Cardinality(B) \in Nat
  <2>1. B \in SUBSET (1 .. Len(list))
    BY <1>1
  <2> HIDE DEF B
  <2> QED BY <1>2, <2>1, FS_Subset, FS_CardinalityType
<1>6. IsFiniteSet(Cyclic \cup {"tcp"}) /\ Cardinality(Cyclic \cup {"tcp"}) = Cardinality(Cyclic) + 1
  BY Constants, FS_AddElement
<1>7. Cardinality(Cyclic) \in Nat
  BY Constants, FS_CardinalityType
<1>8. IsFiniteSet(X) /\ Cardinality(X) = Cardinality(Cyclic)
  <2> DEFINE Y == Cyclic \cup {"tcp"}
  <2>1. x \in Y /\ IsFiniteSet(Y) /\ Cardinality(Y) = Cardinality(Cyclic) + 1
    BY <1>6
  <2> HIDE DEF Y
  <2>2. IsFiniteSet(Y \ {x}) /\ Cardinality(Y \ {x}) = Cardinality(Y) - 1
    BY <2>1, FS_RemoveElement
  <2>3. Cardinality(Y \ {x}) = Cardinality(Cyclic)
    BY <1>7, <2>1, <2>2
  <2> QED BY <2>2, <2>3 DEF Y
<1>9. f \in Injection(B, X)
  <2>1. \A k \in B : list[k].h \in X
    <3> SUFFICES ASSUME NEW k \in B PROVE list[k].h \in X
      OBVIOUS
    <3>1. list[k] \in Entry
      BY <1>1
    <3>2. list[k].h \in Handlers
      BY <3>1 DEF Entry
    <3> QED BY <3>2 DEF Handlers, In
  <2>2. \A i, j \in B : list[i].h = list[j].h => i = j
    BY DEF PairsOK
  <2> HIDE DEF B, X
  <2> QED BY <2>1, <2>2 DEF Injection, IsInjective
<1>10. Cardinality(B) <= Cardinality(X)
  <2> HIDE DEF B, X, f
  <2> QED BY <1>8, <1>9, FS_Injection
<1>11. Len(list) <= Cardinality(A) + Cardinality(B)
  <2> HIDE DEF A, B
  <2>1. Cardinality(A \cup B) = Cardinality(A) + Cardinality(B) - Cardinality(A \cap B)
    BY <1>4, <1>5, FS_Union
  <2>2. Cardinality(A \cap B) = 0
    BY <1>3, FS_EmptySet
  <2>3. Cardinality(1 .. Len(list)) = Cardinality(A \cup B)
    BY <1>3
  <2> QED BY <1>1, <1>2, <1>4, <1>5, <2>1, <2>2, <2>3
<1>12. Cardinality(Cyclic) + 1 + MaxApp <= PoolSize
  BY Configuration
<1>13. Cardinality(A) <= MaxApp
  OBVIOUS
<1> HIDE DEF A, B, X
<1> QED BY <1>1, <1>4, <1>5, <1>7, <1>8, <1>10, <1>11, <1>12, <1>13, Constants

\* A timer that is in the list at one place is counted once.
LEMMA CountOnce ==
  ASSUME NEW list \in Seq(Entry), PairsOK(list), NEW h, h # "app"
  PROVE  Cardinality(Places(list, h)) = IF In(list, h) THEN 1 ELSE 0
<1>1. CASE In(list, h)
  <2>1. PICK k \in DOMAIN list : list[k].h = h
    BY <1>1 DEF In
  <2>2. Places(list, h) = {k}
    BY <2>1 DEF Places, PairsOK
  <2> QED BY <1>1, <2>2, FS_Singleton
<1>2. CASE ~In(list, h)
  <2>1. Places(list, h) = {}
    BY <1>2 DEF Places, In
  <2> QED BY <1>2, <2>1, FS_EmptySet
<1> QED BY <1>1, <1>2

-----------------------------------------------------------------------------
(* Scheduling a timeout.                                                   *)

\* What is in the longer list
LEMMA InsertedIn ==
  ASSUME NEW small, NEW big, NEW pos, NEW e, Inserted(small, big, pos, e)
  PROVE  /\ \A h : In(big, h) <=> In(small, h) \/ h = e.h
         /\ \A k \in DOMAIN big : big[k] = e \/ \E j \in DOMAIN small : big[k] = small[j]
         /\ \A j \in DOMAIN small : \E k \in DOMAIN big : small[j] = big[k]
<1>1. /\ pos \in DOMAIN big /\ big[pos] = e
      /\ \A k \in DOMAIN small :
           To(pos, k) \in DOMAIN big /\ To(pos, k) # pos /\ big[To(pos, k)] = small[k]
      /\ \A k \in DOMAIN big : k # pos =>
           From(pos, k) \in DOMAIN small /\ small[From(pos, k)] = big[k]
  BY InsertedFacts
<1>2. \A k \in DOMAIN big : big[k] = e \/ \E j \in DOMAIN small : big[k] = small[j]
  BY <1>1
<1>3. \A j \in DOMAIN small : \E k \in DOMAIN big : small[j] = big[k]
  BY <1>1
<1> QED BY <1>1, <1>2, <1>3 DEF In

\* Taking an entry out keeps what holds of every two entries.
LEMMA RemovePairs ==
  ASSUME NEW small, NEW big, NEW pos, NEW e, Inserted(small, big, pos, e), PairsOK(big)
  PROVE  PairsOK(small)
<1>1. /\ DOMAIN small = 1 .. Len(small) /\ Len(small) \in Nat
      /\ \A k \in DOMAIN small : To(pos, k) \in DOMAIN big /\ big[To(pos, k)] = small[k]
      /\ \A i, j \in Nat : /\ i < j <=> To(pos, i) < To(pos, j)
                           /\ i = j <=> To(pos, i) = To(pos, j)
  BY InsertedFacts
<1> SUFFICES ASSUME NEW i \in DOMAIN small, NEW j \in DOMAIN small
             PROVE  /\ small[i].left - small[j].left <= Span
                    /\ i < j => small[i].left <= small[j].left
                    /\ small[i].h = small[j].h /\ small[i].h # "app" => i = j
  BY DEF PairsOK
<1>2. i \in Nat /\ j \in Nat
  BY <1>1
<1>3. /\ To(pos, i) \in DOMAIN big /\ To(pos, j) \in DOMAIN big
      /\ big[To(pos, i)] = small[i] /\ big[To(pos, j)] = small[j]
      /\ i < j <=> To(pos, i) < To(pos, j)
      /\ i = j <=> To(pos, i) = To(pos, j)
  BY <1>1, <1>2
<1> QED BY <1>3 DEF PairsOK

\* The entry put in by sys_timeout_abs() is in its true place.
LEMMA InsertOK ==
  ASSUME NEW list \in Seq(Entry), PairsOK(list), NEW t \in Time, Based(list, t),
         \A k \in DOMAIN list : -(2 * MaxLag) <= list[k].left /\ list[k].left <= Span,
         NEW h \in Handlers, h = "app" \/ ~In(list, h),
         NEW left \in Int, 0 <= left, left <= Wrap \div 4,
         NEW e, e = [h |-> h, time |-> At(t, left), left |-> left]
  PROVE  /\ PairsOK(Insert(list, e)) /\ Based(Insert(list, e), t)
         /\ \E pos : Inserted(list, Insert(list, e), pos, e)
<1> DEFINE big == Insert(list, e)
<1>1. e \in Entry
  BY AddAt, Constants DEF Entry
<1>2. PICK pos \in 1 .. (Len(list) + 1) :
           /\ Inserted(list, big, pos, e)
           /\ \A k \in 1 .. (pos - 1) : ~TIME_LESS_THAN(e.time, list[k].time)
           /\ pos <= Len(list) => TIME_LESS_THAN(e.time, list[pos].time)
  BY <1>1, InsertFacts
<1> HIDE DEF big
<1>3. /\ DOMAIN list = 1 .. Len(list) /\ Len(list) \in Nat /\ DOMAIN big = 1 .. (Len(list) + 1)
      /\ pos \in DOMAIN big /\ big[pos] = e
      /\ \A k \in DOMAIN big : k # pos =>
           From(pos, k) \in DOMAIN list /\ list[From(pos, k)] = big[k]
      /\ \A i, j \in Nat : i # pos /\ j # pos =>
           /\ i < j <=> From(pos, i) < From(pos, j)
           /\ i = j <=> From(pos, i) = From(pos, j)
  BY <1>2, InsertedFacts
<1>4. \A k \in DOMAIN list : /\ list[k].left \in Int /\ list[k].time = At(t, list[k].left)
                             /\ -(2 * MaxLag) <= list[k].left /\ list[k].left <= Span
  <2>1. \A k \in DOMAIN list : list[k] \in Entry
    BY <1>3
  <2>2. \A k \in DOMAIN list : list[k].left \in Int
    BY <2>1 DEF Entry
  <2> QED BY <2>2 DEF Based
<1>5. \A k \in DOMAIN list : TIME_LESS_THAN(e.time, list[k].time) <=> left < list[k].left
  <2> SUFFICES ASSUME NEW k \in DOMAIN list
               PROVE  TIME_LESS_THAN(e.time, list[k].time) <=> left < list[k].left
    OBVIOUS
  <2> DEFINE n == list[k].left
  <2>1. n \in Int /\ list[k].time = At(t, n) /\ -(2 * MaxLag) <= n /\ n <= Span
    BY <1>4
  <2> HIDE DEF n
  <2>2. /\ -Wrap < left /\ left < Wrap /\ -Wrap < n /\ n < Wrap
        /\ -(Wrap \div 2) < left - n /\ left - n < Wrap \div 2
    BY <2>1, Constants
  <2>3. TIME_LESS_THAN(At(t, left), At(t, n)) <=> left < n
    BY <2>1, <2>2, LessThan
  <2> QED BY <2>1, <2>3 DEF n
<1>6. \A k \in DOMAIN list : k < pos => list[k].left <= left
  <2> SUFFICES ASSUME NEW k \in DOMAIN list, k < pos PROVE list[k].left <= left
    OBVIOUS
  <2>1. ~(left < list[k].left)
    BY <1>2, <1>3, <1>5
  <2> QED BY <1>4, <2>1
<1>7. \A k \in DOMAIN list : k >= pos => left <= list[k].left
  <2> SUFFICES ASSUME NEW k \in DOMAIN list, k >= pos PROVE left <= list[k].left
    OBVIOUS
  <2>1. pos \in DOMAIN list
    BY <1>3
  <2>2. left < list[pos].left
    BY <1>2, <1>3, <1>5, <2>1
  <2>3. list[pos].left <= list[k].left
    BY <1>3, <1>4, <2>1 DEF PairsOK
  <2> QED BY <1>4, <2>1, <2>2, <2>3
<1>8. \A k \in DOMAIN big : k # pos =>
        /\ From(pos, k) \in DOMAIN list /\ big[k] = list[From(pos, k)]
        /\ k < pos => big[k].left <= left
        /\ k > pos => left <= big[k].left
  BY <1>2, <1>3, <1>6, <1>7 DEF From
<1>9. e.left = left /\ e.h = h /\ e.time = At(t, left)
  OBVIOUS
<1>10. PairsOK(big)
  <2> SUFFICES ASSUME NEW i \in DOMAIN big, NEW j \in DOMAIN big
               PROVE  /\ big[i].left - big[j].left <= Span
                      /\ i < j => big[i].left <= big[j].left
                      /\ big[i].h = big[j].h /\ big[i].h # "app" => i = j
    BY DEF PairsOK
  <2>0. i \in Nat /\ j \in Nat /\ pos \in Nat
    BY <1>3
  <2>1. CASE i # pos /\ j # pos
    BY <1>3, <1>8, <2>0, <2>1 DEF PairsOK
  <2>2. CASE i = pos /\ j = pos
    BY <1>3, <1>9, <2>0, <2>2, Constants
  <2>3. CASE i = pos /\ j # pos
    <3>1. big[j].left \in Int /\ -(2 * MaxLag) <= big[j].left
      BY <1>4, <1>8, <2>3
    <3>2. big[i].left = left /\ big[i].h = h
      BY <1>3, <1>9, <2>3
    <3>3. h = "app" \/ big[j].h # h
      BY <1>8, <2>3 DEF In
    <3>4. i < j => left <= big[j].left
      BY <1>8, <2>3
    <3>5. left - big[j].left <= Span
      BY <3>1, Constants
    <3> QED BY <3>2, <3>3, <3>4, <3>5
  <2>4. CASE i # pos /\ j = pos
    <3>1. big[i].left \in Int /\ big[i].left <= Span
      BY <1>4, <1>8, <2>4
    <3>2. big[j].left = left /\ big[j].h = h
      BY <1>3, <1>9, <2>4
    <3>3. h = "app" \/ big[i].h # h
      BY <1>8, <2>4 DEF In
    <3>4. i < j => big[i].left <= left
      BY <1>8, <2>4
    <3>5. big[i].left - left <= Span
      BY <3>1, Constants
    <3> QED BY <3>2, <3>3, <3>4, <3>5
  <2> QED BY <2>1, <2>2, <2>3, <2>4
<1>11. Based(big, t)
  BY <1>3, <1>4, <1>8, <1>9 DEF Based
<1> QED BY <1>2, <1>10, <1>11 DEF big

\* How far back an entry may lie
LEMMA Bounds ==
  ASSUME TypeOK, \A k \in DOMAIN next_timeout : EntryOK(next_timeout[k])
  PROVE  \A k \in DOMAIN next_timeout :
           /\ next_timeout[k] \in Entry /\ next_timeout[k].left \in Int
           /\ next_timeout[k].h \in Handlers
           /\ -(2 * MaxLag) <= next_timeout[k].left /\ next_timeout[k].left <= Span
<1> SUFFICES ASSUME NEW k \in DOMAIN next_timeout
             PROVE  /\ next_timeout[k] \in Entry /\ next_timeout[k].left \in Int
                    /\ next_timeout[k].h \in Handlers
                    /\ -(2 * MaxLag) <= next_timeout[k].left /\ next_timeout[k].left <= Span
  OBVIOUS
<1>1. next_timeout[k] \in Entry
  BY DEF TypeOK
<1>2. next_timeout[k].left \in Int /\ next_timeout[k].h \in Handlers
  BY <1>1 DEF Entry
<1>3. EntryOK(next_timeout[k]) /\ lag \in 0 .. MaxLag /\ pc \in {"main", "check", "handler", "asleep"}
  BY DEF TypeOK
<1> QED BY <1>1, <1>2, <1>3, Constants DEF EntryOK

\* sys_timeout_abs() for a time that is not further away than an interval: the
\* list stays in order, and the handler is in it.
LEMMA Schedule ==
  ASSUME TypeOK, ListInv, PoolInv, pc # "asleep",
         NEW h \in Handlers, h = "app" \/ ~In(next_timeout, h),
         NEW left \in Int, 0 <= left, left <= Wrap \div 4,
         sys_timeout_abs(h, At(clock, left), left)
  PROVE  /\ next_timeout' \in Seq(Entry) /\ free' \in 0 .. PoolSize
         /\ PairsOK(next_timeout') /\ Based(next_timeout', clock)
         /\ free' + Len(next_timeout') = PoolSize
         /\ \A x : x # h => (In(next_timeout', x) <=> In(next_timeout, x))
         /\ h # "app" => In(next_timeout', h) /\ Count("app")' = Count("app")
         /\ Count("app")' <= Count("app") + 1 /\ Count("app") \in Nat
         /\ \A k \in DOMAIN next_timeout' :
              \/ \E j \in DOMAIN next_timeout : next_timeout'[k] = next_timeout[j]
              \/ /\ next_timeout'[k].h = h /\ next_timeout'[k].left = left
<1> DEFINE e == [h |-> h, time |-> At(clock, left), left |-> left]
           big == Insert(next_timeout, e)
<1>1. /\ next_timeout \in Seq(Entry) /\ clock \in Time /\ free \in 0 .. PoolSize
      /\ PairsOK(next_timeout) /\ Based(next_timeout, clock)
      /\ free + Len(next_timeout) = PoolSize /\ Len(next_timeout) \in Nat /\ PoolSize \in Nat
  BY Constants DEF TypeOK, ListInv, PoolInv
<1>2. \A k \in DOMAIN next_timeout :
         -(2 * MaxLag) <= next_timeout[k].left /\ next_timeout[k].left <= Span
  BY Bounds DEF ListInv
<1>3. Count("app") \in Nat /\ Count("app") = Cardinality(Places(next_timeout, "app"))
  BY <1>1, PlacesFinite DEF Count, Places
<1>4. CASE free = 0
  <2>1. UNCHANGED <<next_timeout, free>>
    BY <1>4 DEF sys_timeout_abs
  <2>2. h = "app"
    <3> SUFFICES ASSUME h # "app" PROVE FALSE
      OBVIOUS
    <3>1. h \in Cyclic \cup {"tcp"} /\ ~In(next_timeout, h)
      BY DEF Handlers
    <3>2. Cardinality(Places(next_timeout, "app")) <= MaxApp
      BY <1>3 DEF PoolInv
    <3>3. Len(next_timeout) < PoolSize
      BY <1>1, <3>1, <3>2, Room
    <3> QED BY <1>1, <1>4, <3>3
  <2>3. Count("app")' = Count("app")
    BY <2>1 DEF Count
  <2>4. \A k \in DOMAIN next_timeout' :
          \E j \in DOMAIN next_timeout : next_timeout'[k] = next_timeout[j]
    BY <2>1
  <2>5. next_timeout' = next_timeout /\ free' = free
    BY <2>1
  <2> QED BY <1>1, <1>3, <2>2, <2>3, <2>4, <2>5
<1>5. CASE free # 0
  <2>1. next_timeout' = big /\ free' = free - 1
    BY <1>5 DEF sys_timeout_abs
  <2>2. e.left = left /\ e.h = h
    OBVIOUS
  <2>3. /\ PairsOK(big) /\ Based(big, clock)
        /\ \E pos : Inserted(next_timeout, big, pos, e)
    BY <1>1, <1>2, InsertOK
  <2> HIDE DEF e, big
  <2>4. PICK pos : Inserted(next_timeout, big, pos, e)
    BY <2>3
  <2>5. big \in Seq(Entry) /\ Len(big) = Len(next_timeout) + 1
    BY <2>4 DEF Inserted
  <2>6. free' \in 0 .. PoolSize /\ free' + Len(big) = PoolSize
    BY <1>1, <1>5, <2>1, <2>5
  <2>7. /\ \A x : In(big, x) <=> In(next_timeout, x) \/ x = e.h
        /\ \A k \in DOMAIN big : big[k] = e \/ \E j \in DOMAIN next_timeout : big[k] = next_timeout[j]
    BY <2>4, InsertedIn
  <2>8. Count("app")' = Cardinality(Places(big, "app")) /\ Cardinality(Places(big, "app")) \in Nat
    <3>1. Count("app")' = Cardinality({i \in DOMAIN next_timeout' : next_timeout'[i].h = "app"})
      BY DEF Count
    <3>2. Count("app")' = Cardinality(Places(big, "app"))
      BY <2>1, <3>1 DEF Places
    <3> QED BY <2>5, <3>2, PlacesFinite
  <2>9. /\ Cardinality(Places(big, "app")) <= Cardinality(Places(next_timeout, "app")) + 1
        /\ h # "app" => Cardinality(Places(big, "app")) = Cardinality(Places(next_timeout, "app"))
    BY <2>2, <2>4, InsertedPlaces
  <2>10. /\ Count("app")' <= Count("app") + 1
         /\ h # "app" => Count("app")' = Count("app")
    BY <1>3, <2>8, <2>9
  <2>11. /\ \A x : x # h => (In(big, x) <=> In(next_timeout, x))
         /\ In(big, h)
    BY <2>2, <2>7
  <2>12. \A k \in DOMAIN big :
              \/ \E j \in DOMAIN next_timeout : big[k] = next_timeout[j]
              \/ big[k].h = h /\ big[k].left = left
    BY <2>2, <2>7
  <2> QED BY <1>3, <2>1, <2>3, <2>5, <2>6, <2>10, <2>11, <2>12
<1> QED BY <1>4, <1>5

\* Taking an entry out of the list and giving it back to the pool
LEMMA Unschedule ==
  ASSUME TypeOK, ListInv, PoolInv, pc # "asleep",
         NEW pos, NEW e, Inserted(next_timeout', next_timeout, pos, e), free' = free + 1
  PROVE  /\ next_timeout' \in Seq(Entry) /\ free' \in 0 .. PoolSize
         /\ PairsOK(next_timeout') /\ Based(next_timeout', clock)
         /\ free' + Len(next_timeout') = PoolSize
         /\ \A x : x # e.h => (In(next_timeout', x) <=> In(next_timeout, x))
         /\ e.h # "app" => ~In(next_timeout', e.h)
         /\ In(next_timeout, e.h)
         /\ Count("app")' <= MaxApp
         /\ \A k \in DOMAIN next_timeout' :
              /\ \E j \in DOMAIN next_timeout : next_timeout'[k] = next_timeout[j]
              /\ next_timeout'[k].h = e.h => e.h = "app"
<1> DEFINE small == next_timeout'
<1>1. /\ next_timeout \in Seq(Entry) /\ free \in 0 .. PoolSize /\ PoolSize \in Nat /\ MaxApp \in Nat
      /\ PairsOK(next_timeout) /\ Based(next_timeout, clock)
      /\ free + Len(next_timeout) = PoolSize
  BY Constants DEF TypeOK, ListInv, PoolInv
<1>2. small \in Seq(Entry) /\ Len(next_timeout) = Len(small) + 1 /\ Len(small) \in Nat
  BY DEF Inserted
<1> HIDE DEF small
<1>3. Inserted(small, next_timeout, pos, e)
  BY DEF small
<1>4. free' \in 0 .. PoolSize /\ free' + Len(small) = PoolSize
  BY <1>1, <1>2
<1>5. PairsOK(small)
  BY <1>1, <1>3, RemovePairs
<1>6. /\ \A x : In(next_timeout, x) <=> In(small, x) \/ x = e.h
      /\ \A j \in DOMAIN small : \E k \in DOMAIN next_timeout : small[j] = next_timeout[k]
  BY <1>3, InsertedIn
<1>7. Based(small, clock)
  BY <1>1, <1>6 DEF Based
<1>8. e.h # "app" => ~In(small, e.h)
  <2>1. /\ pos \in DOMAIN next_timeout /\ next_timeout[pos] = e
        /\ \A k \in DOMAIN small :
              To(pos, k) \in DOMAIN next_timeout /\ To(pos, k) # pos
              /\ next_timeout[To(pos, k)] = small[k]
    BY <1>3, InsertedFacts
  <2> QED BY <1>1, <2>1 DEF PairsOK, In
<1>9. Count("app")' <= MaxApp
  <2>1. /\ Count("app") = Cardinality(Places(next_timeout, "app"))
        /\ Count("app")' = Cardinality({i \in DOMAIN next_timeout' : next_timeout'[i].h = "app"})
    BY DEF Count, Places
  <2>2. Count("app")' = Cardinality(Places(small, "app"))
    BY <2>1 DEF Places, small
  <2>3. Cardinality(Places(small, "app")) \in Nat /\ Cardinality(Places(next_timeout, "app")) \in Nat
    BY <1>1, <1>2, PlacesFinite
  <2>4. Cardinality(Places(small, "app")) <= Cardinality(Places(next_timeout, "app"))
    BY <1>3, InsertedPlaces
  <2>5. Count("app") <= MaxApp
    BY DEF PoolInv
  <2> QED BY <1>1, <2>1, <2>2, <2>3, <2>4, <2>5
<1>10. \A k \in DOMAIN small : small[k].h = e.h => e.h = "app"
  BY <1>8 DEF In
<1> QED BY <1>2, <1>4, <1>5, <1>6, <1>7, <1>8, <1>9, <1>10 DEF small

-----------------------------------------------------------------------------
(* The steps that leave the list alone.                                    *)

\* All entries of a list that is unchanged
LEMMA SameList ==
  ASSUME ListInv, PoolInv, next_timeout' = next_timeout, clock' = clock, free' = free,
         pc # "asleep", pc' # "asleep",
         \A k \in DOMAIN next_timeout : EntryOK(next_timeout[k])'
  PROVE  ListInv' /\ free' + Len(next_timeout') = PoolSize /\ Count("app")' <= MaxApp
<1>1. \A k \in DOMAIN next_timeout' : EntryOK(next_timeout[k])'
  OBVIOUS
<1>2. Count("app")' = Count("app")
  BY DEF Count
<1> QED BY <1>1, <1>2 DEF ListInv, PoolInv

\* The last connection goes away.
LEMMA RemovePcbsInv == IInv /\ RemovePcbs => IInv'
<1> SUFFICES ASSUME IInv, RemovePcbs PROVE IInv'
  OBVIOUS
<1>1. /\ next_timeout' = next_timeout /\ clock' = clock /\ free' = free /\ pc = "main" /\ pc' = "main"
      /\ lag' = lag /\ runs' = runs /\ handler' = handler /\ pcbs' = FALSE /\ late' = late /\ now' = now
      /\ current_timeout_due_time' = current_timeout_due_time
      /\ tcpip_tcp_timer_active' = tcpip_tcp_timer_active
  BY DEF RemovePcbs
<1>2. TypeOK'
  BY <1>1 DEF IInv, TypeOK
<1>3. \A k \in DOMAIN next_timeout : EntryOK(next_timeout[k])'
  BY <1>1 DEF IInv, ListInv, EntryOK
<1>4. ListInv' /\ free' + Len(next_timeout') = PoolSize /\ Count("app")' <= MaxApp
  BY <1>1, <1>3, SameList DEF IInv
<1>5. PoolInv'
  BY <1>1, <1>4 DEF IInv, PoolInv
<1>6. HandlerInv'
  BY <1>1 DEF IInv, HandlerInv
<1> QED BY <1>2, <1>4, <1>5, <1>6 DEF IInv

\* sys_check_timeouts() begins.
LEMMA CheckStartInv == IInv /\ CheckStart => IInv'
<1> SUFFICES ASSUME IInv, CheckStart PROVE IInv'
  OBVIOUS
<1>1. /\ next_timeout' = next_timeout /\ clock' = clock /\ free' = free /\ pc = "main" /\ pc' = "check"
      /\ lag' = 0 /\ runs' = runs /\ handler' = handler /\ pcbs' = pcbs /\ late' = late /\ now' = clock
      /\ current_timeout_due_time' = current_timeout_due_time
      /\ tcpip_tcp_timer_active' = tcpip_tcp_timer_active
  BY DEF CheckStart
<1>0. lag \in 0 .. MaxLag /\ clock \in Time
  BY DEF IInv, TypeOK
<1>2. TypeOK'
  BY <1>1, Constants DEF IInv, TypeOK
<1>3. \A k \in DOMAIN next_timeout : EntryOK(next_timeout[k])'
  <2> SUFFICES ASSUME NEW k \in DOMAIN next_timeout PROVE EntryOK(next_timeout[k])'
    OBVIOUS
  <2> DEFINE e == next_timeout[k]
  <2>1. /\ e.left \in Int /\ e.h \in Handlers
    BY Bounds DEF IInv, ListInv
  <2>2. e.left <= Span /\ e.left + lag >= 0
    BY <1>1 DEF IInv, ListInv, EntryOK
  <2>3. e.h \in Cyclic => runs[e.h] = 0
    BY <1>1, <2>1 DEF IInv, HandlerInv, Handlers
  <2>4. e' = e
    BY <1>1
  <2> HIDE DEF e
  <2>5. e.left + 0 >= -MaxLag /\ e.left + 0 <= Span
    BY <1>0, <2>1, <2>2, Constants
  <2>6. EntryOK(e)'
    BY <1>1, <2>2, <2>3, <2>4, <2>5 DEF EntryOK
  <2> QED BY <2>6 DEF e
<1>4. ListInv' /\ free' + Len(next_timeout') = PoolSize /\ Count("app")' <= MaxApp
  BY <1>1, <1>3, SameList DEF IInv
<1>5. PoolInv'
  BY <1>1, <1>4 DEF IInv, PoolInv
<1>6. HandlerInv'
  <2>1. now' = At(clock, -0)
    BY <1>0, <1>1, AtZero
  <2>2. handler' = "none"
    BY <1>1 DEF IInv, HandlerInv
  <2> QED BY <1>1, <2>1, <2>2, Constants DEF IInv, HandlerInv
<1> QED BY <1>2, <1>4, <1>5, <1>6 DEF IInv

\* A timeout of the application has run.
LEMMA AppHandlerInv == IInv /\ AppHandler => IInv'
<1> SUFFICES ASSUME IInv, AppHandler PROVE IInv'
  OBVIOUS
<1>1. /\ next_timeout' = next_timeout /\ clock' = clock /\ free' = free
      /\ pc = "handler" /\ pc' = "check" /\ handler = "app" /\ handler' = "none"
      /\ lag' = lag /\ runs' = runs /\ pcbs' = pcbs /\ late' = 0 /\ now' = now
      /\ current_timeout_due_time' = 0
      /\ tcpip_tcp_timer_active' = tcpip_tcp_timer_active
  BY DEF AppHandler, HandlerReturns
<1>2. TypeOK'
  BY <1>1, Constants DEF IInv, TypeOK, Time
<1>3. \A k \in DOMAIN next_timeout : EntryOK(next_timeout[k])'
  BY <1>1 DEF IInv, ListInv, EntryOK
<1>4. ListInv' /\ free' + Len(next_timeout') = PoolSize /\ Count("app")' <= MaxApp
  BY <1>1, <1>3, SameList DEF IInv
<1>5. PoolInv'
  BY <1>1, <1>4, Constants DEF IInv, PoolInv
<1>6. HandlerInv'
  BY <1>1, Constants DEF IInv, HandlerInv
<1> QED BY <1>2, <1>4, <1>5, <1>6 DEF IInv

\* A step that changes nothing
LEMMA StutterInv == IInv /\ UNCHANGED vars => IInv'
BY DEF vars, IInv, TypeOK, ListInv, PoolInv, HandlerInv, EntryOK, Count

-----------------------------------------------------------------------------
(* The steps that change the list.                                         *)

\* One millisecond more is one less until every expiry.
LEMMA TickInv == IInv /\ Tick => IInv'
<1> SUFFICES ASSUME IInv, Tick PROVE IInv'
  OBVIOUS
<1> DEFINE list == next_timeout
           big == [k \in DOMAIN list |-> [list[k] EXCEPT !.left = @ - 1]]
<1>1. /\ next_timeout' = big /\ clock' = Add(clock, 1) /\ free' = free /\ pc' = pc
      /\ lag' = lag + 1 /\ lag < MaxLag /\ pc # "asleep"
      /\ runs' = runs /\ handler' = handler /\ pcbs' = pcbs /\ now' = now
      /\ late' = IF handler = "none" THEN 0 ELSE late + 1
      /\ current_timeout_due_time' = current_timeout_due_time
      /\ tcpip_tcp_timer_active' = tcpip_tcp_timer_active
  BY DEF Tick
<1>2. /\ list \in Seq(Entry) /\ DOMAIN list = 1 .. Len(list) /\ Len(list) \in Nat
      /\ lag \in 0 .. MaxLag /\ clock \in Time /\ late \in 0 .. (3 * MaxLag)
      /\ pc \in {"main", "check", "handler", "asleep"}
  BY DEF IInv, TypeOK
<1>3. clock' = At(clock, 1) /\ clock' \in Time
  <2>1. 1 \in Int /\ 1 >= -Wrap /\ 1 <= Wrap
    BY Constants
  <2>2. Add(clock, 1) = At(clock, 1) /\ At(clock, 1) \in Time
    BY <1>2, <2>1, AddAt
  <2> QED BY <1>1, <2>2
<1>4. \A k \in DOMAIN list :
        /\ list[k] \in Entry /\ list[k].left \in Int
        /\ -(2 * MaxLag) <= list[k].left /\ list[k].left <= Span
        /\ EntryOK(list[k])
  BY Bounds DEF IInv, ListInv
<1>5. /\ DOMAIN big = DOMAIN list
      /\ \A k \in DOMAIN list :
           /\ big[k] \in Entry /\ big[k].h = list[k].h /\ big[k].time = list[k].time
           /\ big[k].left = list[k].left - 1 /\ big[k].left \in Int
  BY <1>4 DEF Entry
<1> HIDE DEF big
<1>6. big \in Seq(Entry) /\ Len(big) = Len(list)
  <2>1. big = [k \in 1 .. Len(list) |-> big[k]]
    BY <1>2 DEF big
  <2>2. \A k \in 1 .. Len(list) : big[k] \in Entry
    BY <1>2, <1>5
  <2> QED BY <1>2, <2>1, <2>2
<1>7. TypeOK'
  <2>1. late' \in 0 .. (3 * MaxLag)
    BY <1>1, <1>2, Constants DEF IInv, HandlerInv, TypeOK
  <2>2. lag' \in 0 .. MaxLag
    BY <1>1, <1>2, Constants
  <2> QED BY <1>1, <1>3, <1>6, <2>1, <2>2 DEF IInv, TypeOK
<1>8. \A k \in DOMAIN next_timeout' : EntryOK(next_timeout[k])'
  <2> SUFFICES ASSUME NEW k \in DOMAIN list PROVE EntryOK(next_timeout[k])'
    BY <1>1, <1>5
  <2> DEFINE n == list[k].left
             h == list[k].h
  <2>1. n \in Int /\ EntryOK(list[k]) /\ n <= Span
    BY <1>4
  <2>2. next_timeout'[k].left = n - 1 /\ next_timeout'[k].h = h
    BY <1>1, <1>5
  <2>3. /\ pc \in {"main", "asleep"} => n + lag >= 0
        /\ pc \in {"check", "handler"} => n + lag >= -MaxLag /\ n + lag <= Span
        /\ h \in Cyclic /\ runs[h] >= 1 => n + lag >= 0
        /\ h \in Cyclic /\ runs[h] >= 2 => n + lag > 0
    BY <2>1 DEF EntryOK
  <2> HIDE DEF n, h
  <2>4. (n - 1) + (lag + 1) = n + lag /\ n - 1 <= Span
    BY <1>2, <2>1, Constants
  <2> QED BY <1>1, <2>2, <2>3, <2>4 DEF EntryOK
<1>9. PairsOK(big)
  <2> SUFFICES ASSUME NEW i \in DOMAIN list, NEW j \in DOMAIN list
               PROVE  /\ big[i].left - big[j].left <= Span
                      /\ i < j => big[i].left <= big[j].left
                      /\ big[i].h = big[j].h /\ big[i].h # "app" => i = j
    BY <1>5 DEF PairsOK
  <2>1. /\ list[i].left - list[j].left <= Span
        /\ i < j => list[i].left <= list[j].left
        /\ list[i].h = list[j].h /\ list[i].h # "app" => i = j
    BY DEF IInv, ListInv, PairsOK
  <2> QED BY <1>4, <1>5, <2>1
<1>10. Based(big, clock')
  <2> SUFFICES ASSUME NEW k \in DOMAIN list PROVE big[k].time = At(clock', big[k].left)
    BY <1>5 DEF Based
  <2> DEFINE n == list[k].left
  <2>1. n \in Int /\ -(2 * MaxLag) <= n /\ n <= Span /\ list[k].time = At(clock, n)
    BY <1>1, <1>4 DEF IInv, ListInv, Based
  <2>2. big[k].time = list[k].time /\ big[k].left = n - 1
    BY <1>5
  <2> HIDE DEF n
  <2>3. At(At(clock, 1), n - 1) = At(clock, 1 + (n - 1)) /\ 1 + (n - 1) = n
    BY <1>2, <2>1, AtAt, Constants
  <2> QED BY <1>3, <2>1, <2>2, <2>3
<1>11. ListInv'
  BY <1>1, <1>8, <1>9, <1>10 DEF ListInv
<1>12. PoolInv'
  <2>1. \A h : In(big, h) <=> In(list, h)
    BY <1>5 DEF In
  <2>2. Count("app")' = Count("app")
    <3>1. {i \in DOMAIN big : big[i].h = "app"} = {i \in DOMAIN list : list[i].h = "app"}
      BY <1>5
    <3>2. Count("app")' = Cardinality({i \in DOMAIN next_timeout' : next_timeout'[i].h = "app"})
      BY DEF Count
    <3> QED BY <1>1, <3>1, <3>2 DEF Count
  <2> QED BY <1>1, <1>6, <2>1, <2>2 DEF IInv, PoolInv
<1>13. HandlerInv'
  <2>1. pc = "handler" =>
          /\ late' <= MaxLag + lag'
          /\ current_timeout_due_time' = At(clock', -late')
    <3> SUFFICES ASSUME pc = "handler"
                 PROVE  late' <= MaxLag + lag' /\ current_timeout_due_time' = At(clock', -late')
      OBVIOUS
    <3>1. /\ late <= MaxLag + lag /\ current_timeout_due_time = At(clock, -late)
          /\ late' = late + 1
      BY <1>1 DEF IInv, HandlerInv
    <3>2. late < Wrap - 1 /\ late \in Nat
      BY <1>2, <3>1, Constants
    <3>3. At(At(clock, 1), -(late + 1)) = At(clock, 1 + (-(late + 1))) /\ 1 + (-(late + 1)) = -late
      BY <1>2, <3>2, AtAt, Constants
    <3> QED BY <1>1, <1>2, <1>3, <3>1, <3>3, Constants
  <2>2. pc \in {"check", "handler"} => now' = At(clock', -lag')
    <3> SUFFICES ASSUME pc \in {"check", "handler"} PROVE now' = At(clock', -lag')
      OBVIOUS
    <3>1. now = At(clock, -lag)
      BY DEF IInv, HandlerInv
    <3>2. At(At(clock, 1), -(lag + 1)) = At(clock, 1 + (-(lag + 1))) /\ 1 + (-(lag + 1)) = -lag
      BY <1>1, <1>2, AtAt, Constants
    <3> QED BY <1>1, <1>3, <3>1, <3>2
  <2>3. handler \in Cyclic => runs[handler] \in 1 .. 2 /\ (runs[handler] = 2 => late' <= lag')
    <3> SUFFICES ASSUME handler \in Cyclic
                 PROVE  runs[handler] \in 1 .. 2 /\ (runs[handler] = 2 => late' <= lag')
      OBVIOUS
    <3>1. handler # "none"
      BY Constants
    <3>2. runs[handler] \in 1 .. 2 /\ (runs[handler] = 2 => late <= lag)
      BY DEF IInv, HandlerInv
    <3> QED BY <1>1, <1>2, <3>1, <3>2
  <2> QED BY <1>1, <2>1, <2>2, <2>3 DEF IInv, HandlerInv
<1> QED BY <1>7, <1>11, <1>12, <1>13 DEF IInv

\* What TIME_LESS_THAN says of the first entry and the time the call began
LEMMA ExpiredFacts ==
  ASSUME IInv, pc = "check", next_timeout # << >>
  PROVE  /\ Head(next_timeout) = next_timeout[1] /\ 1 \in DOMAIN next_timeout
         /\ next_timeout[1].left \in Int
         /\ TIME_LESS_THAN(now, Head(next_timeout).time) <=> next_timeout[1].left + lag > 0
<1> DEFINE n == next_timeout[1].left
<1>1. next_timeout \in Seq(Entry) /\ lag \in 0 .. MaxLag /\ clock \in Time
  BY DEF IInv, TypeOK
<1>2. Head(next_timeout) = next_timeout[1] /\ 1 \in DOMAIN next_timeout
  BY <1>1
<1>3. n \in Int /\ -(2 * MaxLag) <= n /\ n <= Span /\ n + lag <= Span
  BY <1>2, Bounds DEF IInv, ListInv, EntryOK
<1>4. next_timeout[1].time = At(clock, n) /\ now = At(clock, -lag)
  BY <1>2 DEF IInv, ListInv, Based, HandlerInv
<1> HIDE DEF n
<1>5. /\ -lag \in Int /\ -Wrap < -lag /\ -lag < Wrap /\ -Wrap < n /\ n < Wrap
      /\ -(Wrap \div 2) < (-lag) - n /\ (-lag) - n < Wrap \div 2
  BY <1>1, <1>3, Constants
<1>6. TIME_LESS_THAN(At(clock, -lag), At(clock, n)) <=> -lag < n
  BY <1>1, <1>3, <1>5, LessThan
<1>7. -lag < n <=> n + lag > 0
  BY <1>1, <1>3, Constants
<1> QED BY <1>2, <1>3, <1>4, <1>6, <1>7 DEF n

\* The first entry has expired: its handler is called.
LEMMA CallHandlerInv == IInv /\ CallHandler => IInv'
<1> SUFFICES ASSUME IInv, CallHandler PROVE IInv'
  OBVIOUS
<1> DEFINE e == Head(next_timeout)
           h == next_timeout[1].h
           n == next_timeout[1].left
<1>1. /\ pc = "check" /\ Expired /\ pc' = "handler" /\ handler' = e.h
      /\ current_timeout_due_time' = e.time /\ late' = -e.left
      /\ runs' = [runs EXCEPT ![e.h] = @ + 1]
      /\ next_timeout' = Tail(next_timeout) /\ free' = free + 1
      /\ clock' = clock /\ tcpip_tcp_timer_active' = tcpip_tcp_timer_active
      /\ pcbs' = pcbs /\ now' = now /\ lag' = lag
  BY DEF CallHandler
<1>2. /\ next_timeout \in Seq(Entry) /\ lag \in 0 .. MaxLag /\ clock \in Time
      /\ runs \in [Handlers -> Nat] /\ next_timeout # << >>
  BY <1>1 DEF IInv, TypeOK, Expired
<1>3. e = next_timeout[1] /\ 1 \in DOMAIN next_timeout /\ n + lag <= 0 /\ n \in Int
  BY <1>1, <1>2, ExpiredFacts DEF Expired
<1>4. e \in Entry /\ h \in Handlers /\ EntryOK(e) /\ e.h = h /\ e.left = n
      /\ -(2 * MaxLag) <= n /\ n <= Span
  BY <1>3, Bounds DEF IInv, ListInv
<1>5. e.time = At(clock, n) /\ e.time \in Time
  <2>1. e.time = At(clock, n)
    BY <1>1, <1>3 DEF IInv, ListInv, Based
  <2> QED BY <1>4, <2>1 DEF Entry
<1>6. Inserted(next_timeout', next_timeout, 1, e)
  BY <1>1, <1>2, TailFacts
<1> HIDE DEF e
<1>7. /\ next_timeout' \in Seq(Entry) /\ free' \in 0 .. PoolSize
      /\ PairsOK(next_timeout') /\ Based(next_timeout', clock)
      /\ free' + Len(next_timeout') = PoolSize
      /\ \A x : x # e.h => (In(next_timeout', x) <=> In(next_timeout, x))
      /\ e.h # "app" => ~In(next_timeout', e.h)
      /\ In(next_timeout, e.h)
      /\ Count("app")' <= MaxApp
      /\ \A k \in DOMAIN next_timeout' :
              /\ \E j \in DOMAIN next_timeout : next_timeout'[k] = next_timeout[j]
              /\ next_timeout'[k].h = e.h => e.h = "app"
  BY <1>1, <1>6, Unschedule DEF IInv
<1>8. /\ n + lag >= -MaxLag
      /\ h \in Cyclic /\ runs[h] >= 1 => n + lag >= 0
      /\ h \in Cyclic /\ runs[h] >= 2 => n + lag > 0
  BY <1>1, <1>4 DEF EntryOK
<1>9. late' = -n /\ late' \in 0 .. (3 * MaxLag) /\ late' <= MaxLag + lag
  <2>1. -n >= 0 /\ -n <= MaxLag + lag /\ -n <= 3 * MaxLag
    BY <1>2, <1>3, <1>8, Constants
  <2> QED BY <1>1, <1>3, <1>4, <2>1, Constants
<1>10. /\ runs' \in [Handlers -> Nat] /\ runs'[h] = runs[h] + 1
       /\ \A x \in Handlers : x # h => runs'[x] = runs[x]
       /\ \A x \in Handlers : runs[x] \in Nat
  BY <1>1, <1>2, <1>4
<1>11. TypeOK'
  BY <1>1, <1>4, <1>5, <1>7, <1>9, <1>10 DEF IInv, TypeOK
<1>12. \A k \in DOMAIN next_timeout' : EntryOK(next_timeout[k])'
  <2> SUFFICES ASSUME NEW k \in DOMAIN next_timeout' PROVE EntryOK(next_timeout[k])'
    OBVIOUS
  <2>1. PICK j \in DOMAIN next_timeout : next_timeout'[k] = next_timeout[j]
    BY <1>7
  <2> DEFINE x == next_timeout[j].h
             m == next_timeout[j].left
  <2>2. EntryOK(next_timeout[j]) /\ x \in Handlers /\ m \in Int
    BY <2>1, Bounds DEF IInv, ListInv
  <2>3. next_timeout'[k].h = x /\ next_timeout'[k].left = m
    BY <2>1
  <2>4. x = h => x \notin Cyclic
    BY <1>4, <1>7, <2>3, Constants
  <2>5. /\ m <= Span /\ m + lag >= -MaxLag /\ m + lag <= Span
        /\ x \in Cyclic /\ runs[x] >= 1 => m + lag >= 0
        /\ x \in Cyclic /\ runs[x] >= 2 => m + lag > 0
    BY <1>1, <2>2 DEF EntryOK
  <2>6. x \in Cyclic => runs'[x] = runs[x]
    BY <1>10, <2>2, <2>4
  <2> HIDE DEF x, m
  <2> QED BY <1>1, <2>3, <2>5, <2>6 DEF EntryOK
<1>13. ListInv'
  BY <1>1, <1>7, <1>12 DEF ListInv
<1>14. handler = "none"
  BY <1>1 DEF IInv, HandlerInv
<1>15. PoolInv'
  <2>1. \A x \in Cyclic : In(next_timeout', x) <=> handler' # x
    <3> SUFFICES ASSUME NEW x \in Cyclic PROVE In(next_timeout', x) <=> handler' # x
      OBVIOUS
    <3>1. In(next_timeout, x) /\ x # "app"
      BY <1>14, Constants DEF IInv, PoolInv
    <3>2. CASE x = h
      BY <1>1, <1>4, <1>7, <3>1, <3>2
    <3>3. CASE x # h
      BY <1>1, <1>4, <1>7, <3>1, <3>3
    <3> QED BY <3>2, <3>3
  <2>2. In(next_timeout', "tcp") <=> tcpip_tcp_timer_active /\ handler' # "tcp"
    <3>1. In(next_timeout, "tcp") <=> tcpip_tcp_timer_active
      BY <1>14 DEF IInv, PoolInv
    <3>2. CASE h = "tcp"
      BY <1>1, <1>4, <1>7, <3>1, <3>2
    <3>3. CASE h # "tcp"
      BY <1>1, <1>4, <1>7, <3>1, <3>3
    <3> QED BY <3>2, <3>3
  <2>3. pcbs \/ handler' = "tcp" => tcpip_tcp_timer_active
    BY <1>1, <1>4, <1>7, <1>14 DEF IInv, PoolInv
  <2> QED BY <1>1, <1>7, <2>1, <2>2, <2>3 DEF PoolInv
<1>16. HandlerInv'
  <2>1. handler' # "none"
    BY <1>1, <1>4, Constants DEF Handlers
  <2>2. current_timeout_due_time' = At(clock', -late')
    <3>1. -late' = n
      BY <1>3, <1>9
    <3> QED BY <1>1, <1>5, <3>1
  <2>3. h \in Cyclic => runs'[h] \in 1 .. 2 /\ (runs'[h] = 2 => late' <= lag')
    <3> SUFFICES ASSUME h \in Cyclic
                 PROVE  runs'[h] \in 1 .. 2 /\ (runs'[h] = 2 => late' <= lag')
      OBVIOUS
    <3>1. runs[h] \in Nat /\ ~(runs[h] >= 2)
      BY <1>2, <1>3, <1>4, <1>8, <1>10, Constants
    <3>2. runs[h] >= 1 => -n <= lag
      <4>1. runs[h] >= 1 => n + lag >= 0
        BY <1>8
      <4> HIDE DEF n, h
      <4> QED BY <1>2, <1>3, <4>1
    <3> QED BY <1>1, <1>9, <1>10, <3>1, <3>2
  <2>4. \A x \in Cyclic : runs'[x] <= 2
    <3> SUFFICES ASSUME NEW x \in Cyclic PROVE runs'[x] <= 2
      OBVIOUS
    <3>1. x \in Handlers
      BY DEF Handlers
    <3> QED BY <1>10, <2>3, <3>1 DEF IInv, HandlerInv
  <2> HIDE DEF h
  <2> QED BY <1>1, <1>4, <1>9, <2>1, <2>2, <2>3, <2>4 DEF IInv, HandlerInv
<1> QED BY <1>11, <1>13, <1>15, <1>16 DEF IInv

\* Nothing that had expired when the call began is left: the call returns.
LEMMA CheckReturnInv == IInv /\ CheckReturn => IInv'
<1> SUFFICES ASSUME IInv, CheckReturn PROVE IInv'
  OBVIOUS
<1>1. /\ next_timeout' = next_timeout /\ clock' = clock /\ free' = free
      /\ pc = "check" /\ ~Expired /\ pc' = "main" /\ now' = 0
      /\ runs' = [x \in Handlers |-> 0] /\ handler' = handler /\ lag' = lag /\ late' = late
      /\ pcbs' = pcbs /\ current_timeout_due_time' = current_timeout_due_time
      /\ tcpip_tcp_timer_active' = tcpip_tcp_timer_active
  BY DEF CheckReturn
<1>2. TypeOK'
  BY <1>1, Constants DEF IInv, TypeOK, Time
<1>3. \A k \in DOMAIN next_timeout : EntryOK(next_timeout[k])'
  <2> SUFFICES ASSUME NEW k \in DOMAIN next_timeout PROVE EntryOK(next_timeout[k])'
    OBVIOUS
  <2> DEFINE x == next_timeout[k].h
             m == next_timeout[k].left
  <2>1. /\ x \in Handlers /\ m \in Int /\ m <= Span
        /\ next_timeout \in Seq(Entry) /\ lag \in 0 .. MaxLag
    BY Bounds DEF IInv, ListInv, TypeOK
  <2>2. next_timeout # << >>
    BY <2>1
  <2>3. /\ 1 \in DOMAIN next_timeout /\ next_timeout[1].left \in Int
        /\ next_timeout[1].left + lag > 0
    BY <1>1, <2>2, ExpiredFacts DEF Expired
  <2>4. next_timeout[1].left <= m
    <3>1. k = 1 \/ 1 < k
      BY <2>1
    <3> QED BY <2>1, <2>3, <3>1 DEF IInv, ListInv, PairsOK
  <2>5. m + lag >= 0
    BY <2>1, <2>3, <2>4, Constants
  <2>6. x \in Cyclic => runs'[x] = 0
    BY <1>1 DEF Handlers
  <2>7. next_timeout'[k].h = x /\ next_timeout'[k].left = m
    BY <1>1
  <2> HIDE DEF x, m
  <2> QED BY <1>1, <2>1, <2>5, <2>6, <2>7 DEF EntryOK
<1>4. ListInv' /\ free' + Len(next_timeout') = PoolSize /\ Count("app")' <= MaxApp
  BY <1>1, <1>3, SameList DEF IInv
<1>5. PoolInv'
  BY <1>1, <1>4 DEF IInv, PoolInv
<1>6. HandlerInv'
  <2>1. handler' = "none"
    BY <1>1 DEF IInv, HandlerInv
  <2>2. \A x \in Cyclic : runs'[x] = 0
    BY <1>1 DEF Handlers
  <2> QED BY <1>1, <2>1, <2>2, Constants DEF HandlerInv
<1> QED BY <1>2, <1>4, <1>5, <1>6 DEF IInv

\* Every entry of the new list is an old one or the one put in.
LEMMA ScheduleEntries ==
  ASSUME NEW h, NEW left,
         \A k \in DOMAIN next_timeout' :
            \/ \E j \in DOMAIN next_timeout : next_timeout'[k] = next_timeout[j]
            \/ next_timeout'[k].h = h /\ next_timeout'[k].left = left,
         \A e : EntryOK(e) => EntryOK(e)',
         \A e : e.h = h /\ e.left = left => EntryOK(e)',
         \A k \in DOMAIN next_timeout : EntryOK(next_timeout[k])
  PROVE  \A k \in DOMAIN next_timeout' : EntryOK(next_timeout[k])'
<1> SUFFICES ASSUME NEW k \in DOMAIN next_timeout' PROVE EntryOK(next_timeout[k])'
  OBVIOUS
<1> DEFINE e == next_timeout'[k]
<1>1. e = next_timeout[k]'
  OBVIOUS
<1>2. CASE \E j \in DOMAIN next_timeout : next_timeout'[k] = next_timeout[j]
  BY <1>2 DEF EntryOK
<1>3. CASE next_timeout'[k].h = h /\ next_timeout'[k].left = left
  BY <1>3 DEF EntryOK
<1> QED BY <1>2, <1>3

\* tcp_timer_needed() starts the TCP timer if it does not run.
LEMMA RegisterPcbInv == IInv /\ RegisterPcb => IInv'
<1> SUFFICES ASSUME IInv, RegisterPcb PROVE IInv'
  OBVIOUS
<1>1. /\ pc = "main" /\ pc' = "main" /\ pcbs' = TRUE /\ tcpip_tcp_timer_active' = TRUE
      /\ clock' = clock /\ current_timeout_due_time' = current_timeout_due_time
      /\ now' = now /\ handler' = handler /\ lag' = lag /\ late' = late /\ runs' = runs
  BY DEF RegisterPcb
<1>2. clock \in Time /\ lag \in 0 .. MaxLag /\ handler = "none"
  BY <1>1 DEF IInv, TypeOK, HandlerInv
<1>3. HandlerInv'
  BY <1>1 DEF IInv, HandlerInv
<1>4. CASE tcpip_tcp_timer_active
  <2>1. next_timeout' = next_timeout /\ free' = free
    BY <1>4 DEF RegisterPcb
  <2>2. TypeOK'
    BY <1>1, <2>1 DEF IInv, TypeOK
  <2>3. \A k \in DOMAIN next_timeout : EntryOK(next_timeout[k])'
    BY <1>1, <2>1 DEF IInv, ListInv, EntryOK
  <2>4. ListInv' /\ free' + Len(next_timeout') = PoolSize /\ Count("app")' <= MaxApp
    BY <1>1, <2>1, <2>3, SameList DEF IInv
  <2>5. PoolInv'
    BY <1>1, <1>4, <2>1, <2>4 DEF IInv, PoolInv
  <2> QED BY <1>3, <2>2, <2>4, <2>5 DEF IInv
<1>5. CASE ~tcpip_tcp_timer_active
  <2> DEFINE left == TcpInterval
  <2>1. left \in Int /\ 0 <= left /\ left <= Wrap \div 4 /\ left >= -Wrap /\ left <= Wrap
        /\ left <= Span /\ 0 < left
    BY Constants
  <2> HIDE DEF left
  <2>2. Add(clock, left) = At(clock, left)
    BY <1>2, <2>1, AddAt
  <2>3. sys_timeout_abs("tcp", At(clock, left), left)
    BY <1>5, <2>2 DEF RegisterPcb, sys_timeout, left
  <2>4. ~In(next_timeout, "tcp") /\ "tcp" \in Handlers /\ "tcp" # "app"
    BY <1>5 DEF IInv, PoolInv, Handlers
  <2>5. /\ next_timeout' \in Seq(Entry) /\ free' \in 0 .. PoolSize
        /\ PairsOK(next_timeout') /\ Based(next_timeout', clock)
        /\ free' + Len(next_timeout') = PoolSize
        /\ \A x : x # "tcp" => (In(next_timeout', x) <=> In(next_timeout, x))
        /\ In(next_timeout', "tcp") /\ Count("app")' = Count("app")
        /\ \A k \in DOMAIN next_timeout' :
             \/ \E j \in DOMAIN next_timeout : next_timeout'[k] = next_timeout[j]
             \/ next_timeout'[k].h = "tcp" /\ next_timeout'[k].left = left
    BY <1>1, <2>1, <2>3, <2>4, Schedule DEF IInv
  <2>6. TypeOK'
    BY <1>1, <2>5 DEF IInv, TypeOK
  <2>7. \A k \in DOMAIN next_timeout' : EntryOK(next_timeout[k])'
    <3>1. \A e : EntryOK(e) => EntryOK(e)'
      BY <1>1 DEF EntryOK
    <3>2. \A e : e.h = "tcp" /\ e.left = left => EntryOK(e)'
      BY <1>1, <1>2, <2>1, Constants DEF EntryOK
    <3>3. \A k \in DOMAIN next_timeout : EntryOK(next_timeout[k])
      BY DEF IInv, ListInv
    <3> QED BY <2>5, <3>1, <3>2, <3>3, ScheduleEntries
  <2>8. ListInv'
    BY <1>1, <2>5, <2>7 DEF ListInv
  <2>9. PoolInv'
    BY <1>1, <1>2, <2>5, Constants DEF IInv, PoolInv
  <2> QED BY <1>3, <2>6, <2>8, <2>9 DEF IInv
<1> QED BY <1>4, <1>5

\* An application starts a timeout.
LEMMA AppTimeoutInv == ASSUME NEW msecs \in AppDelays PROVE IInv /\ AppTimeout(msecs) => IInv'
<1> SUFFICES ASSUME IInv, AppTimeout(msecs) PROVE IInv'
  OBVIOUS
<1>1. /\ pc = "main" /\ pc' = "main" /\ pcbs' = pcbs /\ Count("app") < MaxApp
      /\ tcpip_tcp_timer_active' = tcpip_tcp_timer_active
      /\ clock' = clock /\ current_timeout_due_time' = current_timeout_due_time
      /\ now' = now /\ handler' = handler /\ lag' = lag /\ late' = late /\ runs' = runs
  BY DEF AppTimeout
<1>2. clock \in Time /\ lag \in 0 .. MaxLag /\ handler = "none"
  BY <1>1 DEF IInv, TypeOK, HandlerInv
<1>3. HandlerInv'
  BY <1>1 DEF IInv, HandlerInv
<1>4. msecs \in Int /\ 0 <= msecs /\ msecs <= Wrap \div 4 /\ msecs >= -Wrap /\ msecs <= Wrap
        /\ msecs <= Span
  BY Constants
<1>5. sys_timeout_abs("app", At(clock, msecs), msecs)
  BY <1>2, <1>4, AddAt DEF AppTimeout, sys_timeout
<1>6. /\ next_timeout' \in Seq(Entry) /\ free' \in 0 .. PoolSize
      /\ PairsOK(next_timeout') /\ Based(next_timeout', clock)
      /\ free' + Len(next_timeout') = PoolSize
      /\ \A x : x # "app" => (In(next_timeout', x) <=> In(next_timeout, x))
      /\ Count("app")' <= Count("app") + 1 /\ Count("app") \in Nat
      /\ \A k \in DOMAIN next_timeout' :
           \/ \E j \in DOMAIN next_timeout : next_timeout'[k] = next_timeout[j]
           \/ next_timeout'[k].h = "app" /\ next_timeout'[k].left = msecs
  BY <1>1, <1>4, <1>5, Schedule DEF IInv, Handlers
<1>7. TypeOK'
  BY <1>1, <1>6 DEF IInv, TypeOK
<1>8. \A k \in DOMAIN next_timeout' : EntryOK(next_timeout[k])'
  <2>1. \A e : EntryOK(e) => EntryOK(e)'
    BY <1>1 DEF EntryOK
  <2>2. \A e : e.h = "app" /\ e.left = msecs => EntryOK(e)'
    BY <1>1, <1>2, <1>4, Constants DEF EntryOK
  <2>3. \A k \in DOMAIN next_timeout : EntryOK(next_timeout[k])
    BY DEF IInv, ListInv
  <2> QED BY <1>6, <2>1, <2>2, <2>3, ScheduleEntries
<1>9. ListInv'
  BY <1>1, <1>6, <1>8 DEF ListInv
<1>10. Count("app")' <= MaxApp
  <2>1. Count("app")' \in Nat
    <3>1. Count("app")' = Cardinality({i \in DOMAIN next_timeout' : next_timeout'[i].h = "app"})
      BY DEF Count
    <3>2. Count("app")' = Cardinality(Places(next_timeout', "app"))
      BY <3>1 DEF Places
    <3> QED BY <1>6, <3>2, PlacesFinite
  <2> QED BY <1>1, <1>6, <2>1, Constants
<1>11. PoolInv'
  BY <1>1, <1>6, <1>10, Constants DEF IInv, PoolInv
<1> QED BY <1>3, <1>7, <1>9, <1>11 DEF IInv

\* An application takes its timeout back.
LEMMA UntimeoutInv == IInv /\ sys_untimeout => IInv'
<1> SUFFICES ASSUME IInv, sys_untimeout PROVE IInv'
  OBVIOUS
<1>1. /\ pc = "main" /\ pc' = "main" /\ pcbs' = pcbs /\ Count("app") > 0 /\ free' = free + 1
      /\ next_timeout' = RemoveFirstMatch(next_timeout, LAMBDA e : e.h = "app")
      /\ tcpip_tcp_timer_active' = tcpip_tcp_timer_active
      /\ clock' = clock /\ current_timeout_due_time' = current_timeout_due_time
      /\ now' = now /\ handler' = handler /\ lag' = lag /\ late' = late /\ runs' = runs
  BY DEF sys_untimeout
<1>2. next_timeout \in Seq(Entry)
  BY DEF IInv, TypeOK
<1>3. In(next_timeout, "app")
  <2> SUFFICES ASSUME ~In(next_timeout, "app") PROVE FALSE
    OBVIOUS
  <2>1. {i \in DOMAIN next_timeout : next_timeout[i].h = "app"} = {}
    BY DEF In
  <2>2. Count("app") = 0
    BY <2>1, FS_EmptySet DEF Count
  <2> QED BY <1>1, <2>2
<1>4. PICK pos \in 1 .. Len(next_timeout) :
           /\ next_timeout[pos].h = "app"
           /\ Inserted(next_timeout', next_timeout, pos, next_timeout[pos])
  BY <1>1, <1>2, <1>3, RemoveMatchFacts
<1>5. /\ next_timeout' \in Seq(Entry) /\ free' \in 0 .. PoolSize
      /\ PairsOK(next_timeout') /\ Based(next_timeout', clock)
      /\ free' + Len(next_timeout') = PoolSize
      /\ \A x : x # "app" => (In(next_timeout', x) <=> In(next_timeout, x))
      /\ Count("app")' <= MaxApp
      /\ \A k \in DOMAIN next_timeout' :
           \E j \in DOMAIN next_timeout : next_timeout'[k] = next_timeout[j]
  BY <1>1, <1>4, Unschedule DEF IInv
<1>6. TypeOK'
  BY <1>1, <1>5 DEF IInv, TypeOK
<1>7. \A k \in DOMAIN next_timeout' : EntryOK(next_timeout[k])'
  BY <1>1, <1>5 DEF IInv, ListInv, EntryOK
<1>8. ListInv'
  BY <1>1, <1>5, <1>7 DEF ListInv
<1>9. PoolInv'
  BY <1>1, <1>5, Constants DEF IInv, PoolInv
<1>10. HandlerInv'
  BY <1>1 DEF IInv, HandlerInv
<1> QED BY <1>6, <1>8, <1>9, <1>10 DEF IInv

\* lwip_cyclic_timer(): the next run is never further away than an interval and,
\* by the test for overload, never in the past.
LEMMA CyclicTimerInv == IInv /\ lwip_cyclic_timer => IInv'
<1> SUFFICES ASSUME IInv, lwip_cyclic_timer PROVE IInv'
  OBVIOUS
<1> DEFINE h == handler
           ms == Interval[handler]
<1>1. /\ pc = "handler" /\ h \in Cyclic /\ pc' = "check" /\ handler' = "none"
      /\ current_timeout_due_time' = 0 /\ late' = 0
      /\ clock' = clock /\ pcbs' = pcbs /\ now' = now /\ lag' = lag /\ runs' = runs
      /\ tcpip_tcp_timer_active' = tcpip_tcp_timer_active
  BY DEF lwip_cyclic_timer, HandlerReturns
<1>2. /\ clock \in Time /\ lag \in 0 .. MaxLag /\ late \in 0 .. (3 * MaxLag)
      /\ runs \in [Handlers -> Nat]
  BY DEF IInv, TypeOK
<1>3. /\ late <= MaxLag + lag /\ current_timeout_due_time = At(clock, -late)
      /\ runs[h] \in 1 .. 2 /\ (runs[h] = 2 => late <= lag)
  BY <1>1 DEF IInv, HandlerInv
<1>4. ms \in Int /\ 1 <= ms /\ ms <= Wrap \div 4
  BY <1>1, Constants
<1>5. ~In(next_timeout, h) /\ h \in Handlers /\ h # "app" /\ h # "tcp" /\ h # "none"
  BY <1>1, Constants DEF IInv, PoolInv, Handlers
<1> DEFINE due == Add(current_timeout_due_time, ms)
<1>6. IF TIME_LESS_THAN(due, clock)
      THEN sys_timeout_abs(h, Add(clock, ms), ms)
      ELSE sys_timeout_abs(h, due, ms - late)
  BY DEF lwip_cyclic_timer
<1> HIDE DEF h, ms, due
<1>7. due = At(clock, ms - late) /\ Add(clock, ms) = At(clock, ms)
  <2>1. /\ -late \in Int /\ -Wrap < -late /\ -late < Wrap /\ -Wrap < ms /\ ms < Wrap
        /\ -Wrap < (-late) + ms /\ (-late) + ms < Wrap /\ (-late) + ms = ms - late
    BY <1>2, <1>3, <1>4, Constants
  <2>2. At(clock, -late) \in Time
    BY <1>2, <2>1, AddAt, Constants
  <2>3. due = At(At(clock, -late), ms)
    BY <1>3, <1>4, <2>1, <2>2, AddAt, Constants DEF due
  <2>4. At(At(clock, -late), ms) = At(clock, (-late) + ms)
    BY <1>2, <1>4, <2>1, AtAt
  <2>5. Add(clock, ms) = At(clock, ms)
    BY <1>2, <1>4, <2>1, AddAt, Constants
  <2> QED BY <2>1, <2>3, <2>4, <2>5
<1>8. TIME_LESS_THAN(due, clock) <=> ms - late < 0
  <2> DEFINE n == ms - late
  <2>1. /\ n \in Int /\ -Wrap < n /\ n < Wrap /\ -Wrap < 0 /\ 0 < Wrap
        /\ -(Wrap \div 2) < n - 0 /\ n - 0 < Wrap \div 2
    BY <1>2, <1>3, <1>4, Constants
  <2> HIDE DEF n
  <2>2. TIME_LESS_THAN(At(clock, n), At(clock, 0)) <=> n < 0
    BY <1>2, <2>1, LessThan
  <2> QED BY <1>2, <1>7, <2>2, AtZero DEF n
<1> DEFINE left == IF ms - late < 0 THEN ms ELSE ms - late
<1>9. sys_timeout_abs(h, At(clock, left), left)
  <2>1. CASE ms - late < 0
    BY <1>6, <1>7, <1>8, <2>1
  <2>2. CASE ~(ms - late < 0)
    BY <1>6, <1>7, <1>8, <2>2
  <2> QED BY <2>1, <2>2
<1>10. left \in Int /\ 0 <= left /\ left <= Wrap \div 4
  <2>1. CASE ms - late < 0
    BY <1>4, <2>1
  <2>2. CASE ~(ms - late < 0)
    BY <1>2, <1>4, <2>2, Constants
  <2> QED BY <2>1, <2>2
<1>11. runs[h] >= 2 => left + lag > 0
  <2>1. runs[h] >= 2 => late <= lag
    BY <1>3
  <2> QED BY <1>2, <1>4, <2>1
<1> HIDE DEF left
<1>12. /\ left <= Span /\ left + lag >= 0 /\ left + lag <= Span /\ left + lag >= -MaxLag
  BY <1>2, <1>10, Constants
<1>13. /\ next_timeout' \in Seq(Entry) /\ free' \in 0 .. PoolSize
       /\ PairsOK(next_timeout') /\ Based(next_timeout', clock)
       /\ free' + Len(next_timeout') = PoolSize
       /\ \A x : x # h => (In(next_timeout', x) <=> In(next_timeout, x))
       /\ In(next_timeout', h) /\ Count("app")' = Count("app")
       /\ \A k \in DOMAIN next_timeout' :
            \/ \E j \in DOMAIN next_timeout : next_timeout'[k] = next_timeout[j]
            \/ next_timeout'[k].h = h /\ next_timeout'[k].left = left
  BY <1>1, <1>5, <1>9, <1>10, Schedule DEF IInv
<1>14. TypeOK'
  BY <1>1, <1>13, Constants DEF IInv, TypeOK, Time
<1>15. \A k \in DOMAIN next_timeout' : EntryOK(next_timeout[k])'
  <2>1. \A e : EntryOK(e) => EntryOK(e)'
    BY <1>1 DEF EntryOK
  <2>2. \A e : e.h = h /\ e.left = left => EntryOK(e)'
    BY <1>1, <1>11, <1>12 DEF EntryOK
  <2>3. \A k \in DOMAIN next_timeout : EntryOK(next_timeout[k])
    BY DEF IInv, ListInv
  <2> QED BY <1>13, <2>1, <2>2, <2>3, ScheduleEntries
<1>16. ListInv'
  BY <1>1, <1>13, <1>15 DEF ListInv
<1>17. PoolInv'
  <2>1. \A x \in Cyclic : In(next_timeout', x) <=> handler' # x
    <3> SUFFICES ASSUME NEW x \in Cyclic PROVE In(next_timeout', x)
      BY <1>1, Constants
    <3>1. x # h => In(next_timeout, x)
      BY DEF IInv, PoolInv, h
    <3> QED BY <1>13, <3>1
  <2>2. In(next_timeout', "tcp") <=> tcpip_tcp_timer_active
    <3>1. In(next_timeout, "tcp") <=> tcpip_tcp_timer_active
      BY <1>5 DEF IInv, PoolInv, h
    <3> QED BY <1>5, <1>13, <3>1
  <2> QED BY <1>1, <1>13, <2>1, <2>2 DEF IInv, PoolInv
<1>18. HandlerInv'
  BY <1>1, Constants DEF IInv, HandlerInv
<1> QED BY <1>14, <1>16, <1>17, <1>18 DEF IInv

\* tcpip_tcp_timer() starts itself again as long as there is a connection.
LEMMA TcpTimerInv == IInv /\ tcpip_tcp_timer => IInv'
<1> SUFFICES ASSUME IInv, tcpip_tcp_timer PROVE IInv'
  OBVIOUS
<1>1. PICK remain \in {FALSE, pcbs} :
        /\ pcbs' = remain /\ tcpip_tcp_timer_active' = remain
        /\ IF remain THEN sys_timeout(TcpInterval, "tcp") ELSE UNCHANGED <<next_timeout, free>>
  BY DEF tcpip_tcp_timer
<1>2. /\ pc = "handler" /\ handler = "tcp" /\ pc' = "check" /\ handler' = "none"
      /\ current_timeout_due_time' = 0 /\ late' = 0
      /\ clock' = clock /\ now' = now /\ lag' = lag /\ runs' = runs
  BY DEF tcpip_tcp_timer, HandlerReturns
<1>3. clock \in Time /\ lag \in 0 .. MaxLag /\ remain \in BOOLEAN
  BY <1>1 DEF IInv, TypeOK
<1>4. HandlerInv'
  BY <1>2, Constants DEF IInv, HandlerInv
<1>5. ~In(next_timeout, "tcp")
  BY <1>2 DEF IInv, PoolInv
<1>6. CASE ~remain
  <2>1. next_timeout' = next_timeout /\ free' = free /\ pcbs' = FALSE /\ tcpip_tcp_timer_active' = FALSE
    BY <1>1, <1>3, <1>6
  <2>2. TypeOK'
    <3>1. 0 \in Time /\ 0 \in 0 .. (3 * MaxLag)
      BY Constants DEF Time
    <3>2. pcbs' \in BOOLEAN /\ tcpip_tcp_timer_active' \in BOOLEAN
      BY <2>1
    <3> QED BY <1>2, <2>1, <3>1, <3>2 DEF IInv, TypeOK
  <2>3. \A k \in DOMAIN next_timeout : EntryOK(next_timeout[k])'
    BY <1>2, <2>1 DEF IInv, ListInv, EntryOK
  <2>4. ListInv' /\ free' + Len(next_timeout') = PoolSize /\ Count("app")' <= MaxApp
    BY <1>2, <2>1, <2>3, SameList DEF IInv
  <2>5. PoolInv'
    BY <1>2, <1>5, <2>1, <2>4, Constants DEF IInv, PoolInv
  <2> QED BY <1>4, <2>2, <2>4, <2>5 DEF IInv
<1>7. CASE remain
  <2> DEFINE left == TcpInterval
  <2>1. left \in Int /\ 0 <= left /\ left <= Wrap \div 4 /\ left >= -Wrap /\ left <= Wrap
        /\ left <= Span /\ 0 < left
    BY Constants
  <2>0. left + lag <= Span /\ left + lag > 0 /\ left + lag >= -MaxLag
    BY <1>3, <2>1, Constants
  <2> HIDE DEF left
  <2>2. Add(clock, left) = At(clock, left)
    BY <1>3, <2>1, AddAt
  <2>3. sys_timeout_abs("tcp", At(clock, left), left)
    BY <1>1, <1>7, <2>2 DEF sys_timeout, left
  <2>4. "tcp" \in Handlers /\ "tcp" # "app"
    BY DEF Handlers
  <2>5. /\ next_timeout' \in Seq(Entry) /\ free' \in 0 .. PoolSize
        /\ PairsOK(next_timeout') /\ Based(next_timeout', clock)
        /\ free' + Len(next_timeout') = PoolSize
        /\ \A x : x # "tcp" => (In(next_timeout', x) <=> In(next_timeout, x))
        /\ In(next_timeout', "tcp") /\ Count("app")' = Count("app")
        /\ \A k \in DOMAIN next_timeout' :
             \/ \E j \in DOMAIN next_timeout : next_timeout'[k] = next_timeout[j]
             \/ next_timeout'[k].h = "tcp" /\ next_timeout'[k].left = left
    BY <1>2, <1>5, <2>1, <2>3, <2>4, Schedule DEF IInv
  <2>6. TypeOK'
    BY <1>1, <1>2, <1>3, <2>5, Constants DEF IInv, TypeOK, Time
  <2>7. \A k \in DOMAIN next_timeout' : EntryOK(next_timeout[k])'
    <3>1. \A e : EntryOK(e) => EntryOK(e)'
      BY <1>2 DEF EntryOK
    <3>2. \A e : e.h = "tcp" /\ e.left = left => EntryOK(e)'
      BY <1>2, <1>3, <2>0, <2>1, Constants DEF EntryOK
    <3>3. \A k \in DOMAIN next_timeout : EntryOK(next_timeout[k])
      BY DEF IInv, ListInv
    <3> QED BY <2>5, <3>1, <3>2, <3>3, ScheduleEntries
  <2>8. ListInv'
    BY <1>2, <2>5, <2>7 DEF ListInv
  <2>9. PoolInv'
    <3>1. tcpip_tcp_timer_active' = TRUE
      BY <1>1, <1>3, <1>7
    <3> QED BY <1>2, <2>5, <3>1, Constants DEF IInv, PoolInv
  <2> QED BY <1>4, <2>6, <2>8, <2>9 DEF IInv
<1> QED BY <1>3, <1>6, <1>7

-----------------------------------------------------------------------------
(* Sleeping.                                                               *)

\* While the board sleeps the list still counts from the time it went to sleep.
LEMMA SleepInv == ASSUME NEW t \in Sleeps PROVE IInv /\ Sleep(t) => IInv'
<1> SUFFICES ASSUME IInv, Sleep(t) PROVE IInv'
  OBVIOUS
<1>1. /\ next_timeout' = next_timeout /\ clock' = Add(clock, t) /\ free' = free
      /\ pc = "main" /\ pc' = "asleep" /\ next_timeout # << >>
      /\ lag' = lag /\ runs' = runs /\ handler' = handler /\ pcbs' = pcbs /\ late' = late /\ now' = now
      /\ current_timeout_due_time' = current_timeout_due_time
      /\ tcpip_tcp_timer_active' = tcpip_tcp_timer_active
  BY DEF Sleep
<1>2. clock \in Time /\ Add(clock, t) \in Time
  BY AddType, Constants DEF IInv, TypeOK
<1>3. TypeOK'
  BY <1>1, <1>2 DEF IInv, TypeOK
<1>4. \A k \in DOMAIN next_timeout' : EntryOK(next_timeout[k])'
  BY <1>1 DEF IInv, ListInv, EntryOK
<1>5. \E b \in Time : Based(next_timeout', b)
  BY <1>1, <1>2 DEF IInv, ListInv
<1>6. ListInv'
  BY <1>1, <1>4, <1>5 DEF IInv, ListInv
<1>7. PoolInv'
  <2>1. Count("app")' = Count("app")
    BY <1>1 DEF Count
  <2> QED BY <1>1, <2>1 DEF IInv, PoolInv
<1>8. HandlerInv'
  BY <1>1 DEF IInv, HandlerInv
<1> QED BY <1>3, <1>6, <1>7, <1>8 DEF IInv

\* sys_restart_timeouts() moves all entries by the same distance: the first is due now.
LEMMA RestartInv == IInv /\ sys_restart_timeouts => IInv'
<1> SUFFICES ASSUME IInv, sys_restart_timeouts PROVE IInv'
  OBVIOUS
<1> DEFINE list == next_timeout
           base == Head(list)
           big == [k \in DOMAIN list |->
                     [list[k] EXCEPT !.time = Add(Sub(@, base.time), clock), !.left = @ - base.left]]
<1>1. /\ next_timeout' = big /\ clock' = clock /\ free' = free
      /\ pc = "asleep" /\ pc' = "main"
      /\ lag' = lag /\ runs' = runs /\ handler' = handler /\ pcbs' = pcbs /\ late' = late /\ now' = now
      /\ current_timeout_due_time' = current_timeout_due_time
      /\ tcpip_tcp_timer_active' = tcpip_tcp_timer_active
  BY DEF sys_restart_timeouts
<1>2. /\ list \in Seq(Entry) /\ DOMAIN list = 1 .. Len(list) /\ Len(list) \in Nat
      /\ lag \in 0 .. MaxLag /\ clock \in Time
  BY DEF IInv, TypeOK
<1>3. list # << >> /\ 1 \in DOMAIN list /\ base = list[1]
  <2>1. list # << >>
    BY <1>1 DEF IInv, ListInv
  <2> QED BY <1>2, <2>1
<1>4. PICK b \in Time : Based(list, b)
  BY <1>1 DEF IInv, ListInv
<1>5. \A k \in DOMAIN list :
        /\ list[k] \in Entry /\ list[k].left \in Int
        /\ -(2 * MaxLag) <= list[k].left /\ list[k].left <= Span
  BY Bounds DEF IInv, ListInv
<1> DEFINE m == list[1].left
<1>6. m \in Int /\ -(2 * MaxLag) <= m /\ m <= Span /\ base.left = m /\ base.time = At(b, m)
  BY <1>3, <1>4, <1>5 DEF Based
<1>7. \A k \in DOMAIN list : 0 <= list[k].left - m /\ list[k].left - m <= Span
  <2> SUFFICES ASSUME NEW k \in DOMAIN list
               PROVE  0 <= list[k].left - m /\ list[k].left - m <= Span
    OBVIOUS
  <2>1. list[k].left - list[1].left <= Span /\ (1 < k => list[1].left <= list[k].left)
    BY <1>3 DEF IInv, ListInv, PairsOK
  <2>2. k = 1 \/ 1 < k
    BY <1>2
  <2> QED BY <1>3, <1>5, <1>6, <2>1, <2>2
<1> HIDE DEF base, m
<1>8. \A k \in DOMAIN list :
        Add(Sub(list[k].time, base.time), clock) = At(clock, list[k].left - m)
  <2> SUFFICES ASSUME NEW k \in DOMAIN list
               PROVE  Add(Sub(list[k].time, base.time), clock) = At(clock, list[k].left - m)
    OBVIOUS
  <2> DEFINE n == list[k].left
  <2>1. /\ n \in Int /\ -(2 * MaxLag) <= n /\ n <= Span /\ list[k].time = At(b, n)
        /\ 0 <= n - m /\ n - m <= Span
    BY <1>4, <1>5, <1>7 DEF Based
  <2> HIDE DEF n
  <2>2. Sub(At(b, n), At(b, m)) = n - m
    <3>1. /\ -Wrap < n /\ n < Wrap /\ -Wrap < m /\ m < Wrap /\ n - m < Wrap
      BY <1>6, <2>1, Constants
    <3>2. At(b, n) \in Time /\ At(b, m) \in Time
      BY <1>6, <2>1, <3>1, AddAt, Constants
    <3> DEFINE x == At(b, n) - At(b, m)
    <3>3. x \in Int /\ -Wrap <= x /\ x < 2 * Wrap
      BY <3>2, Constants DEF Time
    <3>4. x % Wrap = IF x < 0 THEN x + Wrap ELSE IF x >= Wrap THEN x - Wrap ELSE x
      BY <3>3, Constants, ModSmall
    <3>5. x = n - m \/ x = n - m + Wrap \/ x = n - m - Wrap
      BY <1>6, <2>1, <3>1, Constants DEF At, Time
    <3>6. x < Wrap /\ x > -Wrap
      BY <3>2, Constants DEF Time
    <3>7. Sub(At(b, n), At(b, m)) = x % Wrap
      BY DEF Sub
    <3> HIDE DEF x
    <3> QED BY <1>6, <2>1, <3>1, <3>3, <3>4, <3>5, <3>6, <3>7, Constants
  <2>3. Add(n - m, clock) = Add(clock, n - m)
    BY <1>2, <1>6, <2>1 DEF Add, Time
  <2>4. Add(clock, n - m) = At(clock, n - m)
    <3>1. n - m \in Int /\ n - m >= -Wrap /\ n - m <= Wrap
      BY <1>6, <2>1, Constants
    <3> QED BY <1>2, <3>1, AddAt
  <2> QED BY <1>6, <2>1, <2>2, <2>3, <2>4 DEF n
<1>9. \A k \in DOMAIN list :
        At(clock, list[k].left - m) \in Time
  <2> SUFFICES ASSUME NEW k \in DOMAIN list PROVE At(clock, list[k].left - m) \in Time
    OBVIOUS
  <2> DEFINE n == list[k].left - m
  <2>1. n \in Int /\ n >= -Wrap /\ n <= Wrap
    BY <1>5, <1>6, <1>7, Constants
  <2> HIDE DEF n
  <2>2. At(clock, n) \in Time
    BY <1>2, <2>1, AddAt
  <2> QED BY <2>2 DEF n
<1>10. /\ DOMAIN big = DOMAIN list
       /\ \A k \in DOMAIN list :
            /\ big[k] \in Entry /\ big[k].h = list[k].h
            /\ big[k].time = At(clock, list[k].left - m)
            /\ big[k].left = list[k].left - m /\ big[k].left \in Int
  <2>1. \A k \in DOMAIN list :
          big[k] = [list[k] EXCEPT !.time = At(clock, list[k].left - m), !.left = list[k].left - m]
    BY <1>6, <1>8
  <2>2. DOMAIN big = DOMAIN list
    OBVIOUS
  <2> HIDE DEF big
  <2>3. \A k \in DOMAIN list : list[k] \in Entry /\ list[k].left - m \in Int
    BY <1>5, <1>6
  <2> QED BY <1>9, <2>1, <2>2, <2>3 DEF Entry
<1>11. big \in Seq(Entry) /\ Len(big) = Len(list)
  <2>1. big = [k \in 1 .. Len(list) |-> big[k]]
    BY <1>2
  <2> HIDE DEF big
  <2>2. \A k \in 1 .. Len(list) : big[k] \in Entry
    BY <1>2, <1>10
  <2> QED BY <1>2, <2>1, <2>2
<1> HIDE DEF big
<1>12. TypeOK'
  BY <1>1, <1>11 DEF IInv, TypeOK
<1>13. \A k \in DOMAIN next_timeout' : EntryOK(next_timeout[k])'
  <2> SUFFICES ASSUME NEW k \in DOMAIN list PROVE EntryOK(next_timeout[k])'
    BY <1>1, <1>10
  <2> DEFINE n == list[k].left - m
             x == list[k].h
  <2>1. next_timeout'[k].left = n /\ next_timeout'[k].h = x /\ n \in Int /\ 0 <= n /\ n <= Span
    BY <1>1, <1>5, <1>6, <1>7, <1>10
  <2>2. x \in Cyclic => runs[x] = 0
    BY <1>1 DEF IInv, HandlerInv, Handlers
  <2> HIDE DEF n, x
  <2>3. n + lag >= 0
    BY <1>2, <2>1
  <2> QED BY <1>1, <2>1, <2>2, <2>3 DEF EntryOK
<1>14. PairsOK(big)
  <2> SUFFICES ASSUME NEW i \in DOMAIN list, NEW j \in DOMAIN list
               PROVE  /\ big[i].left - big[j].left <= Span
                      /\ i < j => big[i].left <= big[j].left
                      /\ big[i].h = big[j].h /\ big[i].h # "app" => i = j
    BY <1>10 DEF PairsOK
  <2>1. /\ list[i].left - list[j].left <= Span
        /\ i < j => list[i].left <= list[j].left
        /\ list[i].h = list[j].h /\ list[i].h # "app" => i = j
    BY DEF IInv, ListInv, PairsOK
  <2> QED BY <1>5, <1>6, <1>10, <2>1
<1>15. Based(big, clock)
  BY <1>10 DEF Based
<1>16. ListInv'
  BY <1>1, <1>13, <1>14, <1>15 DEF ListInv
<1>17. PoolInv'
  <2>1. \A h : In(big, h) <=> In(list, h)
    BY <1>10 DEF In
  <2>2. Count("app")' = Count("app")
    <3>1. {i \in DOMAIN big : big[i].h = "app"} = {i \in DOMAIN list : list[i].h = "app"}
      BY <1>10
    <3>2. Count("app")' = Cardinality({i \in DOMAIN next_timeout' : next_timeout'[i].h = "app"})
      BY DEF Count
    <3> QED BY <1>1, <3>1, <3>2 DEF Count
  <2> QED BY <1>1, <1>11, <2>1, <2>2 DEF IInv, PoolInv
<1>18. HandlerInv'
  BY <1>1 DEF IInv, HandlerInv
<1> QED BY <1>12, <1>16, <1>17, <1>18 DEF IInv

-----------------------------------------------------------------------------
(* The list sys_timeouts_init() builds.                                    *)

\* s lists the timers of S by their intervals.
Ordered(s, S, n) ==
  /\ s \in [1 .. n -> S]
  /\ \A i, j \in 1 .. n : i # j => s[i] # s[j]
  /\ \A i \in 1 .. (n - 1) : Interval[s[i]] <= Interval[s[i + 1]]

\* Every set of timers can be listed by their intervals.
LEMMA OrderExists ==
  ASSUME NEW S \in SUBSET Cyclic
  PROVE  \E s : Ordered(s, S, Cardinality(S))
<1> DEFINE Bad == {n \in Nat : \E T \in SUBSET Cyclic : Cardinality(T) = n /\ ~\E s : Ordered(s, T, n)}
<1>1. \A T \in SUBSET Cyclic : IsFiniteSet(T) /\ Cardinality(T) \in Nat
  BY Constants, FS_Subset, FS_CardinalityType
<1>2. Interval \in [Cyclic -> 1 .. (Wrap \div 4)] /\ Wrap \div 4 \in Nat
  BY Constants
<1>3. ASSUME Bad # {} PROVE FALSE
  <2>1. PICK n \in Bad : \A m \in Bad : n <= m
    <3>1. Bad \subseteq Nat
      OBVIOUS
    <3> HIDE DEF Bad
    <3> QED BY <1>3, <3>1, LeastNat
  <2>2. PICK T \in SUBSET Cyclic : Cardinality(T) = n /\ ~\E s : Ordered(s, T, n)
    BY <2>1
  <2>3. n \in Nat /\ IsFiniteSet(T)
    BY <1>1, <2>1
  <2>4. CASE n = 0
    <3>1. Ordered([k \in 1 .. 0 |-> k], T, 0)
      BY DEF Ordered
    <3> QED BY <2>2, <2>4, <3>1
  <2>5. CASE n # 0
    <3>1. T # {}
      BY <2>2, <2>5, FS_EmptySet
    <3>2. PICK x \in T : \A y \in T : Interval[y] <= Interval[x]
      <4> DEFINE D == {Wrap \div 4 - Interval[y] : y \in T}
      <4>1. D \subseteq Nat /\ D # {}
        <5>1. \A y \in T : Wrap \div 4 - Interval[y] \in Nat
          <6> SUFFICES ASSUME NEW y \in T PROVE Wrap \div 4 - Interval[y] \in Nat
            OBVIOUS
          <6>1. y \in Cyclic
            BY <2>2
          <6> QED BY <1>2, <6>1
        <5> QED BY <3>1, <5>1
      <4>2. PICK d \in D : \A e \in D : d <= e
        <5> HIDE DEF D
        <5> QED BY <4>1, LeastNat
      <4>3. PICK x \in T : d = Wrap \div 4 - Interval[x]
        BY <4>2
      <4>4. \A y \in T : Interval[y] <= Interval[x]
        <5> SUFFICES ASSUME NEW y \in T PROVE Interval[y] <= Interval[x]
          OBVIOUS
        <5>1. d <= Wrap \div 4 - Interval[y]
          BY <4>2
        <5>2. x \in Cyclic /\ y \in Cyclic
          BY <2>2, <4>3
        <5>3. Interval[x] \in Nat /\ Interval[y] \in Nat
          BY <1>2, <5>2
        <5> QED BY <1>2, <4>3, <5>1, <5>3
      <4> QED BY <4>3, <4>4
    <3> DEFINE R == T \ {x}
    <3>3. R \in SUBSET Cyclic /\ Cardinality(R) = n - 1 /\ n - 1 \in Nat
      <4>1. Cardinality(R) = Cardinality(T) - 1
        BY <2>3, <3>2, FS_RemoveElement
      <4> QED BY <2>2, <2>3, <2>5, <4>1
    <3>4. n - 1 \notin Bad
      BY <2>1, <2>3
    <3>5. PICK s : Ordered(s, R, n - 1)
      BY <3>3, <3>4
    <3> DEFINE u == [k \in 1 .. n |-> IF k = n THEN x ELSE s[k]]
    <3>6. /\ \A k \in 1 .. n : k = n \/ k \in 1 .. (n - 1)
          /\ \A k \in 1 .. (n - 1) : s[k] \in T /\ s[k] # x
      BY <2>3, <2>5, <3>5 DEF Ordered
    <3>7. u \in [1 .. n -> T]
      BY <3>2, <3>6
    <3>8. \A i, j \in 1 .. n : i # j => u[i] # u[j]
      BY <3>5, <3>6 DEF Ordered
    <3>9. \A i \in 1 .. (n - 1) : Interval[u[i]] <= Interval[u[i + 1]]
      <4> SUFFICES ASSUME NEW i \in 1 .. (n - 1) PROVE Interval[u[i]] <= Interval[u[i + 1]]
        OBVIOUS
      <4>1. u[i] = s[i]
        BY <2>3
      <4>2. CASE i + 1 = n
        <5>1. u[i + 1] = x
          BY <2>3, <4>2
        <5> QED BY <3>2, <3>6, <4>1, <5>1
      <4>3. CASE i + 1 # n
        <5>1. i + 1 \in 1 .. (n - 1) /\ i \in 1 .. ((n - 1) - 1)
          BY <2>3, <4>3
        <5>2. u[i + 1] = s[i + 1]
          BY <2>3, <5>1
        <5> QED BY <3>5, <4>1, <5>1, <5>2 DEF Ordered
      <4> QED BY <4>2, <4>3
    <3> HIDE DEF u
    <3>10. Ordered(u, T, n)
      BY <3>7, <3>8, <3>9 DEF Ordered
    <3> QED BY <2>2, <3>10
  <2> QED BY <2>4, <2>5
<1>4. Cardinality(S) \notin Bad
  <2> HIDE DEF Bad
  <2> QED BY <1>3
<1> QED BY <1>1, <1>4

\* What is in order next to each other is in order altogether.
LEMMA OrderedPairs ==
  ASSUME NEW n \in Nat, NEW s, Ordered(s, Cyclic, n)
  PROVE  \A i, j \in 1 .. n : i < j => Interval[s[i]] <= Interval[s[j]]
<1> DEFINE Bad == {d \in Nat : \E i, j \in 1 .. n : j = i + d /\ Interval[s[i]] > Interval[s[j]]}
<1>1. \A k \in 1 .. n : Interval[s[k]] \in Nat
  <2> SUFFICES ASSUME NEW k \in 1 .. n PROVE Interval[s[k]] \in Nat
    OBVIOUS
  <2>1. s[k] \in Cyclic
    BY DEF Ordered
  <2> QED BY <2>1, Constants
<1>2. ASSUME Bad # {} PROVE FALSE
  <2>1. PICK d \in Bad : \A e \in Bad : d <= e
    <3>1. Bad \subseteq Nat
      OBVIOUS
    <3> HIDE DEF Bad
    <3> QED BY <1>2, <3>1, LeastNat
  <2>2. PICK i \in 1 .. n, j \in 1 .. n : j = i + d /\ Interval[s[i]] > Interval[s[j]]
    BY <2>1
  <2>3. d \in Nat /\ d # 0
    BY <1>1, <2>1, <2>2
  <2>4. /\ d - 1 \in Nat /\ j - 1 \in 1 .. n /\ j - 1 = i + (d - 1)
        /\ j - 1 \in 1 .. (n - 1) /\ (j - 1) + 1 = j
    BY <2>2, <2>3
  <2>5. d - 1 \notin Bad
    BY <2>1, <2>3
  <2>6. ~(Interval[s[i]] > Interval[s[j - 1]])
    BY <2>2, <2>4, <2>5
  <2>7. Interval[s[j - 1]] <= Interval[s[(j - 1) + 1]]
    BY <2>4 DEF Ordered
  <2>8. Interval[s[i]] \in Nat /\ Interval[s[j]] \in Nat /\ Interval[s[j - 1]] \in Nat
    BY <1>1, <2>2, <2>4
  <2> HIDE DEF Bad
  <2> QED BY <2>2, <2>4, <2>6, <2>7, <2>8
<1> SUFFICES ASSUME NEW i \in 1 .. n, NEW j \in 1 .. n, i < j
             PROVE  Interval[s[i]] <= Interval[s[j]]
  OBVIOUS
<1>3. j - i \in Nat /\ j = i + (j - i)
  OBVIOUS
<1>4. j - i \notin Bad
  <2> HIDE DEF Bad
  <2> QED BY <1>2
<1>5. ~(Interval[s[i]] > Interval[s[j]])
  BY <1>3, <1>4
<1> QED BY <1>1, <1>5

\* The initial list holds every cyclic timer once, by its interval.
LEMMA InitialOrderFacts ==
  LET n == Cardinality(Cyclic)
  IN  /\ n \in Nat /\ DOMAIN InitialOrder = 1 .. n
      /\ \A i \in 1 .. n : InitialOrder[i] \in Cyclic
      /\ \A i, j \in 1 .. n : i # j => InitialOrder[i] # InitialOrder[j]
      /\ \A i, j \in 1 .. n : i < j => Interval[InitialOrder[i]] <= Interval[InitialOrder[j]]
      /\ \A h \in Cyclic : \E i \in 1 .. n : InitialOrder[i] = h
<1> DEFINE n == Cardinality(Cyclic)
           s == InitialOrder
<1>1. n \in Nat /\ IsFiniteSet(Cyclic)
  BY Constants, FS_CardinalityType
<1>2. PICK r : Ordered(r, Cyclic, n)
  BY OrderExists
<1> DEFINE P(u) == /\ \A i, j \in DOMAIN u : i # j => u[i] # u[j]
                   /\ \A i \in 1 .. (Len(u) - 1) : Interval[u[i]] <= Interval[u[i + 1]]
<1>3. s = CHOOSE u \in [1 .. n -> Cyclic] : P(u)
  BY DEF InitialOrder
<1> HIDE DEF n, s
<1>4. \A u \in [1 .. n -> Cyclic] : Len(u) = n /\ DOMAIN u = 1 .. n
  <2> SUFFICES ASSUME NEW u \in [1 .. n -> Cyclic] PROVE Len(u) = n /\ DOMAIN u = 1 .. n
    OBVIOUS
  <2>1. u = [k \in 1 .. n |-> u[k]]
    OBVIOUS
  <2> QED BY <1>1, <2>1
<1>5. r \in [1 .. n -> Cyclic] /\ P(r)
  BY <1>2, <1>4 DEF Ordered
<1> HIDE DEF P
<1>6. s \in [1 .. n -> Cyclic] /\ P(s)
  BY <1>3, <1>5
<1>7. Ordered(s, Cyclic, n)
  BY <1>4, <1>6 DEF Ordered, P
<1>8. \A i, j \in 1 .. n : i < j => Interval[s[i]] <= Interval[s[j]]
  BY <1>1, <1>7, OrderedPairs
<1>9. \A h \in Cyclic : \E i \in 1 .. n : s[i] = h
  <2>1. IsFiniteSet(1 .. n) /\ Cardinality(1 .. n) = n
    BY <1>1, FS_Interval
  <2>2. s \in Injection(1 .. n, Cyclic)
    BY <1>7 DEF Ordered, Injection, IsInjective
  <2>3. s \in Surjection(1 .. n, Cyclic)
    BY <1>1, <2>1, <2>2, FS_Injection DEF n
  <2> QED BY <2>3 DEF Surjection
<1> QED BY <1>1, <1>6, <1>7, <1>8, <1>9 DEF Ordered, n, s

\* The invariant holds when sys_timeouts_init() returns.
LEMMA InitInv == Init => IInv
<1> SUFFICES ASSUME Init PROVE IInv
  OBVIOUS
<1> DEFINE n == Cardinality(Cyclic)
           s == InitialOrder
           list == [i \in DOMAIN s |-> LET h == s[i]
                                       IN [h |-> h, time |-> Add(clock, Interval[h]), left |-> Interval[h]]]
<1>1. /\ clock = 0 /\ next_timeout = list /\ free = PoolSize - n
      /\ current_timeout_due_time = 0 /\ tcpip_tcp_timer_active = FALSE /\ pcbs = FALSE
      /\ pc = "main" /\ handler = "none" /\ now = 0
      /\ lag = 0 /\ late = 0 /\ runs = [h \in Handlers |-> 0]
  BY DEF Init
<1>2. /\ n \in Nat /\ DOMAIN s = 1 .. n
      /\ \A i \in 1 .. n : s[i] \in Cyclic
      /\ \A i, j \in 1 .. n : i # j => s[i] # s[j]
      /\ \A i, j \in 1 .. n : i < j => Interval[s[i]] <= Interval[s[j]]
      /\ \A h \in Cyclic : \E i \in 1 .. n : s[i] = h
  BY InitialOrderFacts
<1>3. 0 \in Time /\ \A h \in Cyclic : Interval[h] \in Nat /\ 1 <= Interval[h] /\ Interval[h] <= Wrap \div 4
  BY Constants DEF Time
<1>4. \A h \in Cyclic : Add(0, Interval[h]) = At(0, Interval[h]) /\ At(0, Interval[h]) \in Time
  <2> SUFFICES ASSUME NEW h \in Cyclic
               PROVE  Add(0, Interval[h]) = At(0, Interval[h]) /\ At(0, Interval[h]) \in Time
    OBVIOUS
  <2> DEFINE d == Interval[h]
  <2>1. d \in Int /\ d >= -Wrap /\ d <= Wrap
    BY <1>3, Constants
  <2> HIDE DEF d
  <2> QED BY <1>3, <2>1, AddAt DEF d
<1>5. /\ DOMAIN list = 1 .. n
      /\ \A i \in 1 .. n : list[i] = [h |-> s[i], time |-> At(0, Interval[s[i]]), left |-> Interval[s[i]]]
  BY <1>1, <1>2, <1>4
<1>5a. list = [i \in 1 .. n |-> list[i]]
  BY <1>2
<1> HIDE DEF n, s, list
<1>6. \A i \in 1 .. n :
        /\ list[i] \in Entry /\ list[i].h = s[i] /\ list[i].h \in Cyclic
        /\ list[i].left = Interval[s[i]] /\ list[i].time = At(0, list[i].left)
        /\ list[i].left \in Int /\ 1 <= list[i].left /\ list[i].left <= Wrap \div 4
  <2> SUFFICES ASSUME NEW i \in 1 .. n
               PROVE  /\ list[i] \in Entry /\ list[i].h = s[i] /\ list[i].h \in Cyclic
                      /\ list[i].left = Interval[s[i]] /\ list[i].time = At(0, list[i].left)
                      /\ list[i].left \in Int /\ 1 <= list[i].left /\ list[i].left <= Wrap \div 4
    OBVIOUS
  <2>1. s[i] \in Cyclic
    BY <1>2
  <2>2. list[i].h = s[i] /\ list[i].left = Interval[s[i]] /\ list[i].time = At(0, Interval[s[i]])
    BY <1>5
  <2>3. list[i] \in Entry
    BY <1>3, <1>4, <1>5, <2>1 DEF Entry, Handlers
  <2> QED BY <1>3, <2>1, <2>2, <2>3
<1>7. list \in Seq(Entry) /\ Len(list) = n
  <2>1. \A i \in 1 .. n : list[i] \in Entry
    BY <1>6
  <2> QED BY <1>2, <1>5a, <2>1
<1>8. free \in 0 .. PoolSize /\ free + Len(list) = PoolSize
  BY <1>1, <1>2, <1>7, Configuration, Constants DEF n
<1>9. TypeOK
  <2>1. 0 \in 0 .. MaxLag /\ 0 \in 0 .. (3 * MaxLag)
    BY Constants
  <2> QED BY <1>1, <1>3, <1>7, <1>8, <2>1 DEF TypeOK
<1>10. \A k \in DOMAIN next_timeout : EntryOK(next_timeout[k])
  <2> SUFFICES ASSUME NEW k \in 1 .. n PROVE EntryOK(list[k])
    BY <1>1, <1>5
  <2>1. /\ list[k].h \in Handlers /\ list[k].left \in Int
        /\ 1 <= list[k].left /\ list[k].left <= Wrap \div 4
    BY <1>6 DEF Handlers
  <2>2. runs[list[k].h] = 0
    BY <1>1, <2>1
  <2>3. list[k].left <= Span /\ list[k].left + 0 >= 0
    BY <2>1, Constants
  <2> QED BY <1>1, <2>2, <2>3 DEF EntryOK
<1>11. PairsOK(list)
  <2> SUFFICES ASSUME NEW i \in 1 .. n, NEW j \in 1 .. n
               PROVE  /\ list[i].left - list[j].left <= Span
                      /\ i < j => list[i].left <= list[j].left
                      /\ list[i].h = list[j].h /\ list[i].h # "app" => i = j
    BY <1>5 DEF PairsOK
  <2>1. list[i].left - list[j].left <= Span
    BY <1>6, Constants
  <2>2. i < j => list[i].left <= list[j].left
    BY <1>2, <1>6
  <2>3. list[i].h = list[j].h => i = j
    BY <1>2, <1>6
  <2> QED BY <2>1, <2>2, <2>3
<1>12. Based(list, 0)
  BY <1>5, <1>6 DEF Based
<1>13. ListInv
  BY <1>1, <1>10, <1>11, <1>12 DEF ListInv
<1>14. Count("app") = 0
  <2>1. {i \in DOMAIN list : list[i].h = "app"} = {}
    BY <1>5, <1>6, Constants
  <2> QED BY <1>1, <2>1, FS_EmptySet DEF Count
<1>15. PoolInv
  <2>1. \A h \in Cyclic : In(next_timeout, h) /\ handler # h
    <3> SUFFICES ASSUME NEW h \in Cyclic PROVE In(next_timeout, h) /\ handler # h
      OBVIOUS
    <3>1. PICK i \in 1 .. n : s[i] = h
      BY <1>2
    <3>2. list[i].h = h /\ i \in DOMAIN list
      BY <1>5, <1>6, <3>1
    <3> QED BY <1>1, <3>2, Constants DEF In
  <2>2. ~In(next_timeout, "tcp")
    BY <1>1, <1>5, <1>6, Constants DEF In
  <2> QED BY <1>1, <1>8, <1>14, <2>1, <2>2, Constants DEF PoolInv
<1>16. HandlerInv
  <2>1. \A h \in Cyclic : runs[h] = 0
    BY <1>1 DEF Handlers
  <2> QED BY <1>1, <2>1, Constants DEF HandlerInv
<1> QED BY <1>9, <1>13, <1>15, <1>16 DEF IInv

-----------------------------------------------------------------------------
(* The theorems.                                                           *)

\* Every step keeps the invariant.
LEMMA NextInv == IInv /\ [Next]_vars => IInv'
<1> SUFFICES ASSUME IInv, [Next]_vars PROVE IInv'
  OBVIOUS
<1>1. CASE Tick
  BY <1>1, TickInv
<1>2. CASE Check
  BY <1>2, CheckStartInv, CallHandlerInv, CheckReturnInv DEF Check
<1>3. CASE Handle
  BY <1>3, CyclicTimerInv, TcpTimerInv, AppHandlerInv DEF Handle
<1>4. CASE Application
  BY <1>4, RegisterPcbInv, RemovePcbsInv, AppTimeoutInv, UntimeoutInv, SleepInv DEF Application
<1>5. CASE sys_restart_timeouts
  BY <1>5, RestartInv
<1>6. CASE UNCHANGED vars
  BY <1>6, StutterInv
<1> QED BY <1>1, <1>2, <1>3, <1>4, <1>5, <1>6 DEF Next

(***************************************************************************)
(* The inductive invariant holds in every run of sys_check_timeouts(),     *)
(* sys_timeout() and sys_untimeout().                                      *)
(***************************************************************************)
THEOREM Invariance == Spec => []IInv
<1>1. Init => IInv
  BY InitInv
<1>2. IInv /\ [Next]_vars => IInv'
  BY NextInv
<1> QED BY <1>1, <1>2, PTL DEF Spec

(***************************************************************************)
(* The list is always in the true order of expiry, every timer of the stack *)
(* is in it once, and every element of the pool is free or in the list.    *)
(***************************************************************************)
THEOREM ListIsConsistent == Spec => []ListConsistent
<1>1. IInv => ListConsistent
  <2> SUFFICES ASSUME IInv PROVE ListConsistent
    OBVIOUS
  <2>1. TypeOK /\ next_timeout \in Seq(Entry)
    BY DEF IInv, TypeOK
  <2>2. TrueOrder
    BY DEF IInv, ListInv, PairsOK, TrueOrder
  <2>3. \A h : h # "app" => Count(h) = IF In(next_timeout, h) THEN 1 ELSE 0
    BY <2>1, CountOnce DEF IInv, ListInv, Count, Places
  <2>4. Scheduled
    <3>1. \A h \in Cyclic : Count(h) = IF handler = h THEN 0 ELSE 1
      BY <2>3, Constants DEF IInv, PoolInv
    <3>2. Count("tcp") = IF tcpip_tcp_timer_active /\ handler # "tcp" THEN 1 ELSE 0
      BY <2>3 DEF IInv, PoolInv
    <3> QED BY <3>1, <3>2 DEF IInv, PoolInv, Scheduled
  <2> QED BY <2>1, <2>2, <2>4 DEF ListConsistent
<1> QED BY <1>1, Invariance, PTL

(***************************************************************************)
(* One call of sys_check_timeouts() runs no cyclic timer more than twice,  *)
(* however late it is.                                                     *)
(***************************************************************************)
THEOREM NeverCatchesUp == Spec => []NoCatchingUp
<1>1. IInv => NoCatchingUp
  BY DEF IInv, HandlerInv, NoCatchingUp
<1> QED BY <1>1, Invariance, PTL

(***************************************************************************)
(* No handler is called early, and a call of sys_check_timeouts() leaves   *)
(* nothing behind that had expired when it began.                          *)
(***************************************************************************)
THEOREM HandlersAreOnTime == Spec => OnTime
<1> DEFINE A == /\ (pc = "check" /\ pc' = "handler") => Head(next_timeout).left <= 0
                /\ (pc = "check" /\ pc' = "main") =>
                     \A i \in DOMAIN next_timeout : next_timeout[i].left + lag > 0
<1>1. IInv /\ [Next]_vars => [A]_vars
  <2> SUFFICES ASSUME IInv, Next, pc = "check" PROVE A
    OBVIOUS
  <2>0. next_timeout \in Seq(Entry) /\ lag \in 0 .. MaxLag
    BY DEF IInv, TypeOK
  <2>1. ASSUME pc' = "handler" PROVE Head(next_timeout).left <= 0
    <3>1. CallHandler
      BY <2>1 DEF Next, Check, Handle, Application, Tick, CheckStart, CheckReturn,
                  lwip_cyclic_timer, tcpip_tcp_timer, AppHandler, RegisterPcb, RemovePcbs,
                  AppTimeout, sys_untimeout, Sleep, sys_restart_timeouts
    <3>2. next_timeout # << >> /\ ~TIME_LESS_THAN(now, Head(next_timeout).time)
      BY <3>1 DEF CallHandler, Expired
    <3> QED BY <2>0, <3>2, ExpiredFacts
  <2>2. ASSUME pc' = "main", NEW k \in DOMAIN next_timeout
        PROVE  next_timeout[k].left + lag > 0
    <3>1. CheckReturn
      BY <2>2 DEF Next, Check, Handle, Application, Tick, CheckStart, CallHandler,
                  lwip_cyclic_timer, tcpip_tcp_timer, AppHandler, RegisterPcb, RemovePcbs,
                  AppTimeout, sys_untimeout, Sleep, sys_restart_timeouts
    <3> DEFINE m == next_timeout[k].left
    <3>2. m \in Int /\ k \in 1 .. Len(next_timeout) /\ next_timeout # << >>
      BY <2>0, <2>2, Bounds DEF IInv, ListInv
    <3>3. /\ 1 \in DOMAIN next_timeout /\ next_timeout[1].left \in Int
          /\ next_timeout[1].left + lag > 0
      BY <3>1, <3>2, ExpiredFacts DEF CheckReturn, Expired
    <3>4. next_timeout[1].left <= m
      <4>1. k = 1 \/ 1 < k
        BY <2>0, <3>2
      <4> QED BY <2>2, <3>3, <4>1 DEF IInv, ListInv, PairsOK
    <3> QED BY <2>0, <3>2, <3>3, <3>4
  <2> QED BY <2>1, <2>2
<1>2. Spec => [][A]_vars
  BY <1>1, Invariance, PTL DEF Spec
<1> QED BY <1>2 DEF OnTime

=============================================================================
