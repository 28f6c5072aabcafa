---------------------------- MODULE EthTx_proofs ----------------------------
(***************************************************************************)
(* Proofs about EthTx, for every size of the ring and of its buffers and   *)
(* all pbuf chains that fit into the ring, of any number of pbufs.         *)
(*                                                                         *)
(* The invariant follows a frame from the pbufs to the wire.  While it is  *)
(* copied, byte x of it is where the split by buffers puts it, at a        *)
(* distance from heth.TxDesc that depends on x alone (Filled), and the     *)
(* descriptors up to there were seen free and stay so (Free).  When the    *)
(* split by length gives the descriptors to the engine, each has the bits  *)
(* and the size of the segment that its first byte begins (Seg), and each  *)
(* is followed by the next segment of the same frame or the first of a     *)
(* later one (Link).  What the engine has sent of a frame is what precedes *)
(* the descriptor it is at (Engine).                                       *)
(***************************************************************************)
EXTENDS EthTx, FiniteSetTheorems, SequenceTheorems, WellFoundedInduction, TLAPS

\* Steps from a forward to b along the ring, and the descriptor n steps on.
Dist(a, b) == IF b >= a THEN b - a ELSE b - a + N
Plus(a, n) == IF a + n >= N THEN a + n - N ELSE a + n

\* The number of bytes in n full buffers
Off(n) == n * BufSize

\* The length of frame f, and its first n bytes
LengthOf(f) == Total(frames[f])
Prefix(f, n) == [j \in 1 .. n |-> <<f, j>>]

\* The frame that the buffer of d begins with a byte of, and what precedes that
\* byte in the frame.
FrameOf(d) == buf[d][1][1]
Base(d) == buf[d][1][2] - 1

\* The phases of a call: the frame is not yet given, or not all of it; it is
\* given in part; its last segment has been given.
Fresh == pc \in {"check", "copy"} \/ (pc = "give" /\ i = 0)
Partial == pc = "give" /\ 0 < i /\ i < bufcount
Complete == \/ pc = "give" /\ i = bufcount
            \/ pc = "tbusdemand"
            \/ pc \in {"tus", "tusdemand"} /\ errval = "ERR_OK"

\* Frames whose descriptors the driver gives or has given to the engine.
Given(f) ==
  \/ \E j \in DOMAIN accepted : accepted[j] = f
  \/ f = frame /\ (Complete \/ pc = "give")

\* All frames that have left came before f.
SentBelow(f) == \A k \in DOMAIN sent : sent[k][1][1] < f

\* The engine owns the descriptors from its current one up to heth.TxDesc.
Window(q) == TxDesc = Plus(cur, q) /\ \A d \in Desc : own[d] <=> Dist(cur, d) < q
RingInv == \E q \in 0 .. N : Window(q)

\* The buffer and the bits of d are a segment of a frame.
Seg(d) ==
  /\ FrameOf(d) \in 1 .. frame /\ Base(d) \in Nat /\ Base(d) < LengthOf(FrameOf(d))
  /\ ctrl[d].fs <=> Base(d) = 0
  /\ ctrl[d].ls <=> LengthOf(FrameOf(d)) <= Base(d) + BufSize
  /\ ctrl[d].size = IF ctrl[d].ls THEN LengthOf(FrameOf(d)) - Base(d) ELSE BufSize
  /\ \A b \in 1 .. ctrl[d].size : buf[d][b] = <<FrameOf(d), Base(d) + b>>
  /\ Given(FrameOf(d))

\* The segment of e follows that of d.
Link(d, e) ==
  IF ctrl[d].ls THEN Base(e) = 0 /\ FrameOf(d) < FrameOf(e)
                ELSE FrameOf(e) = FrameOf(d) /\ Base(e) = Base(d) + BufSize

\* What the driver gives next follows the segment of d, the last that it gave.
LastGiven(d) ==
  IF ctrl[d].ls THEN ~Partial /\ (Fresh => FrameOf(d) < frame)
                ELSE Partial /\ FrameOf(d) = frame /\ Base(d) + BufSize = Off(i)

Segments ==
  \A d \in Desc : own[d] =>
    /\ Seg(d)
    /\ own[Nxt(d)] /\ Nxt(d) # cur => Link(d, Nxt(d))
    /\ Nxt(d) = TxDesc => LastGiven(d)

Engine ==
  /\ own[cur] => out = Prefix(FrameOf(cur), Base(cur)) /\ SentBelow(FrameOf(cur))
  /\ ~own[cur] => out = IF Partial THEN Prefix(frame, Off(i)) ELSE <<>>
  /\ Fresh \/ Partial => SentBelow(frame)

\* A suspended engine is resumed, or has nothing to send.
WakeUp ==
  dma = "suspended" =>
       tus \/ pc \in {"tbusdemand", "tusdemand"} \/ (tbus /\ (own[cur] => pc = "give"))

\* The first n descriptors from heth.TxDesc on are free.
Free(n) == \A d \in Desc : Dist(TxDesc, d) < n => ~own[d]

\* The bytes copied so far are where they belong, when m buffers are already given.
Filled(m) ==
  \A d \in Desc : \A b \in 1 .. BufSize :
    Off(m + Dist(TxDesc, d)) + b <= framelength =>
      buf[d][b] = <<frame, Off(m + Dist(TxDesc, d)) + b>>

\* The number of buffers that are full, while a frame is copied
Full == Dist(TxDesc, DmaTxDesc)

Copying ==
  pc \in {"check", "copy"} =>
    /\ framelength = Off(Full) + bufferoffset
    /\ Filled(0)
    /\ Free(Full) /\ (pc = "copy" \/ bufferoffset > 0 => ~own[DmaTxDesc])
    /\ Full > 0 => bufferoffset > 0 \/ (pc = "copy" /\ left > 0)
    /\ framelength + (IF pc = "copy" THEN left ELSE 0) + Total(chain) = LengthOf(frame)

Giving ==
  pc = "give" =>
    /\ framelength = LengthOf(frame)
    /\ bufcount \in 1 .. N /\ i <= bufcount
    /\ Off(bufcount - 1) < framelength /\ framelength <= Off(bufcount)
    /\ Filled(i) /\ Free(bufcount - i)

Driver ==
  /\ pc # "idle" => frame > 0
  /\ frame <= MaxFrames
  /\ pc \in {"give", "tbusdemand"} => errval = "ERR_OK"
  /\ Copying /\ Giving

\* Each frame that left is one that was given, whole.
SentInv ==
  /\ \A k \in DOMAIN sent : /\ sent[k][1][1] \in 1 .. frame /\ Given(sent[k][1][1])
                            /\ sent[k] = BytesOf(sent[k][1][1])
  /\ \A k \in 2 .. Len(sent) : sent[k - 1][1][1] < sent[k][1][1]

\* The last segments that have not left
Lasts == {d \in Desc : own[d] /\ ctrl[d].ls}

Counts == Len(accepted) + (IF Complete THEN 1 ELSE 0) = Len(sent) + underflows + Cardinality(Lasts)

IInv == TypeOK /\ RingInv /\ Segments /\ Engine /\ WakeUp /\ Driver /\ SentInv /\ Counts

----------------------------------------------------------------------------
(* Lengths of chains.                                                      *)

\* g[k] is the sum of the first k lengths.
IsSum(ch, n, g) == g = [k \in 0 .. n |-> IF k = 0 THEN 0 ELSE g[k - 1] + ch[k]]

\* The sums that Total() chooses
Sums(ch) == CHOOSE g : IsSum(ch, Len(ch), g)

\* There is a least number in a set that is not empty.
LEMMA LeastNat ==
  ASSUME NEW T, T \subseteq Nat, T # {}
  PROVE  \E x \in T : \A y \in T : x <= y
<1>1. IsWellFoundedOn(OpToRel(<, Nat), Nat)
  BY NatLessThanWellFounded
<1>2. PICK x \in T : \A y \in T : ~(<<y, x>> \in OpToRel(<, Nat))
  BY <1>1, WFMin
<1>3. \A y \in T : ~(y < x)
  BY <1>2 DEF OpToRel
<1> QED BY <1>3

\* The sums exist: those of n lengths continue those of n - 1.
LEMMA SumsExist ==
  ASSUME NEW ch
  PROVE  \A n \in Nat : \E g : IsSum(ch, n, g)
<1> DEFINE Good(n) == \E g : IsSum(ch, n, g)
           T == {n \in Nat : ~Good(n)}
<1> SUFFICES ASSUME T # {} PROVE FALSE
  OBVIOUS
<1>1. PICK n \in T : \A y \in T : n <= y
  <2> HIDE DEF Good
  <2> QED BY LeastNat
<1>2. CASE n = 0
  <2>1. IsSum(ch, 0, [k \in 0 .. 0 |-> 0])
    BY DEF IsSum
  <2> QED BY <1>1, <1>2, <2>1
<1>3. CASE n # 0
  <2>1. n \in Nat /\ n - 1 \in Nat /\ n - 1 < n
    BY <1>3
  <2>2. n - 1 \notin T
    BY <1>1, <2>1
  <2>3. PICK g : IsSum(ch, n - 1, g)
    BY <2>1, <2>2
  <2> DEFINE h == [k \in 0 .. n |-> IF k = n THEN g[n - 1] + ch[n] ELSE g[k]]
  <2>4. \A k \in 0 .. n - 1 : g[k] = IF k = 0 THEN 0 ELSE g[k - 1] + ch[k]
    BY <2>3 DEF IsSum
  <2>5. \A k \in 0 .. n : h[k] = IF k = 0 THEN 0 ELSE h[k - 1] + ch[k]
    <3> SUFFICES ASSUME NEW k \in 0 .. n PROVE h[k] = IF k = 0 THEN 0 ELSE h[k - 1] + ch[k]
      OBVIOUS
    <3>1. CASE k = n
      <4>1. h[n] = g[n - 1] + ch[n]
        BY <2>1
      <4>2. h[n - 1] = g[n - 1]
        BY <2>1
      <4> QED BY <1>3, <3>1, <4>1, <4>2
    <3>2. CASE k # n
      <4>1. k \in 0 .. n - 1 /\ h[k] = g[k]
        BY <2>1, <3>2
      <4>2. k # 0 => h[k - 1] = g[k - 1]
        BY <2>1, <3>2
      <4> QED BY <2>4, <4>1, <4>2
    <3> QED BY <3>1, <3>2
  <2>6. IsSum(ch, n, h)
    <3>1. h = [k \in 0 .. n |-> h[k]]
      OBVIOUS
    <3> HIDE DEF h
    <3> QED BY <2>5, <3>1 DEF IsSum
  <2> QED BY <1>1, <2>6
<1> QED BY <1>2, <1>3

\* What the sums are
LEMMA SumsFacts ==
  ASSUME NEW ch \in Seq(Nat)
  PROVE  /\ Total(ch) = Sums(ch)[Len(ch)] /\ Sums(ch)[0] = 0
         /\ \A k \in 1 .. Len(ch) : Sums(ch)[k] = Sums(ch)[k - 1] + ch[k]
         /\ \A k \in 0 .. Len(ch) : Sums(ch)[k] \in Nat
<1> DEFINE s == Sums(ch)
<1>1. Total(ch) = s[Len(ch)]
  BY DEF Total, Sums, IsSum
<1>2. IsSum(ch, Len(ch), s)
  <2>0. Len(ch) \in Nat
    OBVIOUS
  <2>1. \E g : IsSum(ch, Len(ch), g)
    BY <2>0, SumsExist
  <2> QED BY <2>1 DEF Sums
<1>3. \A k \in 0 .. Len(ch) : s[k] = IF k = 0 THEN 0 ELSE s[k - 1] + ch[k]
  BY <1>2 DEF IsSum
<1> HIDE DEF s
<1>4. s[0] = 0 /\ \A k \in 1 .. Len(ch) : s[k] = s[k - 1] + ch[k]
  BY <1>3
<1> DEFINE T == {k \in Nat : k <= Len(ch) /\ s[k] \notin Nat}
<1>5. T = {}
  <2> SUFFICES ASSUME T # {} PROVE FALSE
    OBVIOUS
  <2>1. PICK k \in T : \A y \in T : k <= y
    BY LeastNat
  <2>2. k # 0 /\ k \in 1 .. Len(ch) /\ k - 1 \in Nat /\ k - 1 <= Len(ch)
    BY <1>4, <2>1
  <2>3. k - 1 \notin T
    BY <2>1, <2>2
  <2>4. s[k - 1] \in Nat /\ ch[k] \in Nat
    BY <2>2, <2>3
  <2> QED BY <1>4, <2>1, <2>2, <2>4
<1>6. \A k \in 0 .. Len(ch) : s[k] \in Nat
  BY <1>5
<1> QED BY <1>1, <1>4, <1>6 DEF s

\* The length of a chain is that of its first pbuf and of the rest.
LEMMA TotalFacts ==
  ASSUME NEW ch \in Seq(Nat)
  PROVE  /\ Total(ch) \in Nat
         /\ ch = <<>> => Total(ch) = 0
         /\ ch # <<>> => Total(ch) = Head(ch) + Total(Tail(ch))
<1>1. Total(ch) \in Nat
  BY SumsFacts
<1>2. CASE ch = <<>>
  <2>1. Len(ch) = 0
    BY <1>2
  <2> QED BY <1>1, <1>2, <2>1, SumsFacts
<1>3. CASE ch # <<>>
  <2> DEFINE r == Tail(ch)
             s == Sums(ch)
             t == Sums(r)
  <2>1. r \in Seq(Nat) /\ Len(ch) = Len(r) + 1 /\ Len(r) \in Nat /\ ch[1] \in Nat
        /\ \A k \in 1 .. Len(r) : r[k] = ch[k + 1]
    BY <1>3
  <2>2. /\ Total(ch) = s[Len(ch)] /\ s[0] = 0
        /\ \A k \in 1 .. Len(ch) : s[k] = s[k - 1] + ch[k]
        /\ \A k \in 0 .. Len(ch) : s[k] \in Nat
    BY SumsFacts
  <2>3. /\ Total(r) = t[Len(r)] /\ t[0] = 0
        /\ \A k \in 1 .. Len(r) : t[k] = t[k - 1] + r[k]
        /\ \A k \in 0 .. Len(r) : t[k] \in Nat
    BY <2>1, SumsFacts
  <2> HIDE DEF s, t, r
  <2> DEFINE T == {k \in Nat : k <= Len(r) /\ s[k + 1] # ch[1] + t[k]}
  <2>4. T = {}
    <3> SUFFICES ASSUME T # {} PROVE FALSE
      OBVIOUS
    <3>1. PICK k \in T : \A y \in T : k <= y
      BY LeastNat
    <3>2. CASE k = 0
      <4>1. s[1] = s[0] + ch[1]
        BY <2>1, <2>2
      <4> QED BY <2>1, <2>2, <2>3, <3>1, <3>2, <4>1
    <3>3. CASE k # 0
      <4>1. k \in 1 .. Len(r) /\ k - 1 \in Nat /\ k - 1 \in 0 .. Len(r) /\ k + 1 \in 1 .. Len(ch)
        BY <2>1, <3>1, <3>3
      <4>2. k - 1 \notin T
        BY <3>1, <4>1
      <4>3. s[(k - 1) + 1] = ch[1] + t[k - 1]
        BY <4>1, <4>2
      <4>4. s[k] = ch[1] + t[k - 1]
        BY <4>1, <4>3
      <4>5. s[k + 1] = s[k] + ch[k + 1]
        <5>1. s[k + 1] = s[(k + 1) - 1] + ch[k + 1]
          BY <2>2, <4>1
        <5>2. (k + 1) - 1 = k
          BY <4>1
        <5> QED BY <5>1, <5>2
      <4>6. t[k] = t[k - 1] + ch[k + 1] /\ t[k - 1] \in Nat /\ ch[k + 1] \in Nat
        <5>1. t[k] = t[k - 1] + r[k] /\ t[k - 1] \in Nat
          BY <2>3, <4>1
        <5>2. r[k] = ch[k + 1]
          BY <2>1, <4>1
        <5>3. ch[k + 1] \in Nat
          BY <4>1
        <5> QED BY <5>1, <5>2, <5>3
      <4>7. s[k + 1] = ch[1] + t[k]
        BY <2>1, <4>4, <4>5, <4>6
      <4> QED BY <3>1, <4>7
    <3> QED BY <3>2, <3>3
  <2>5. s[Len(r) + 1] = ch[1] + t[Len(r)]
    BY <2>1, <2>4
  <2>6. Total(ch) = ch[1] + Total(r)
    BY <2>1, <2>2, <2>3, <2>5
  <2> QED BY <1>1, <1>3, <2>6 DEF r
<1> QED BY <1>1, <1>2, <1>3
----------------------------------------------------------------------------
(* Numbers.                                                                *)

\* The ring of HAL_ETH_DMATxDescListInit()
LEMMA NxtFacts ==
  /\ \A d \in Desc : Nxt(d) \in Desc /\ Nxt(d) # d
  /\ \A d, e \in Desc : Nxt(d) = Nxt(e) => d = e
BY NAssumption DEF Desc, Nxt

\* Distances along the ring, and what a step does to them
LEMMA DistFacts ==
  \A a, d \in Desc :
    /\ Dist(a, d) \in Nat /\ Dist(a, d) < N
    /\ Dist(a, d) = 0 <=> d = a
    /\ Dist(a, d) + 1 < N => Dist(a, Nxt(d)) = Dist(a, d) + 1
    /\ Dist(a, d) + 1 = N => Nxt(d) = a
    /\ d # a => Dist(Nxt(a), d) = Dist(a, d) - 1
    /\ Dist(Nxt(a), a) = N - 1
BY NAssumption DEF Desc, Dist, Nxt

\* A distance belongs to one descriptor.
LEMMA DistUnique == \A a, d, e \in Desc : Dist(a, d) = Dist(a, e) => d = e
BY NAssumption DEF Desc, Dist

\* Going n steps
LEMMA PlusFacts ==
  \A a \in Desc : \A n \in 0 .. N :
    /\ Plus(a, n) \in Desc
    /\ n < N => /\ Dist(a, Plus(a, n)) = n
                /\ Nxt(Plus(a, n)) = Plus(a, n + 1)
                /\ Plus(Nxt(a), n) = Plus(a, n + 1)
    /\ Plus(a, 0) = a /\ Plus(a, N) = a
BY NAssumption DEF Desc, Dist, Plus, Nxt

\* Full buffers
LEMMA OffFacts ==
  /\ BufSize \in Nat \ {0} /\ Off(0) = 0 /\ Off(N) = N * BufSize
  /\ \A n \in Nat : Off(n) \in Nat /\ Off(n + 1) = Off(n) + BufSize
  /\ \A m, n \in Nat : m < n => Off(m) + BufSize <= Off(n)
  /\ \A m, n \in Nat : m <= n => Off(m) <= Off(n)
<1>1. BufSize \in Nat \ {0} /\ Off(0) = 0 /\ Off(N) = N * BufSize
  BY BufSizeAssumption DEF Off
<1>2. \A n \in Nat : Off(n) \in Nat /\ Off(n + 1) = Off(n) + BufSize
  BY BufSizeAssumption DEF Off
<1>3. ASSUME NEW m \in Nat, NEW n \in Nat, m < n
      PROVE  Off(m) + BufSize <= Off(n)
  <2>1. n = (m + 1) + (n - (m + 1)) /\ n - (m + 1) \in Nat /\ BufSize \in Nat
    BY <1>3, BufSizeAssumption
  <2> DEFINE r == n - (m + 1)
  <2>2. n = (m + 1) + r /\ r \in Nat
    BY <2>1
  <2> HIDE DEF r
  <2>3. n * BufSize = m * BufSize + BufSize + r * BufSize /\ r * BufSize \in Nat /\ m * BufSize \in Nat
    BY <2>1, <2>2
  <2> QED BY <2>1, <2>3 DEF Off
<1>4. \A m, n \in Nat : m < n \/ m = n \/ n < m
  OBVIOUS
<1>5. ASSUME NEW m \in Nat, NEW n \in Nat, m <= n
      PROVE  Off(m) <= Off(n)
  <2>1. CASE m = n
    BY <1>2, <2>1
  <2>2. CASE m < n
    BY <1>1, <1>2, <1>3, <2>2
  <2> QED BY <1>5, <2>1, <2>2
<1> QED BY <1>1, <1>2, <1>3, <1>5

\* The split by length: a frame that ends in the buffer after n full ones needs
\* n + 1 of them, also when it fills the last one.
LEMMA CountFacts ==
  ASSUME NEW n \in Nat, NEW r \in 1 .. BufSize, framelength = Off(n) + r
  PROVE  bufcount = n + 1
<1>1. BufSize \in Nat \ {0} /\ r \in Nat \ {0} /\ framelength = n * BufSize + r
  BY BufSizeAssumption DEF Off
<1>2. CASE n = 0
  <2>1. ~(framelength > BufSize)
    BY <1>1, <1>2
  <2> QED BY <1>2, <2>1 DEF bufcount
<1>3. CASE n # 0
  <2>1. framelength > BufSize
    <3>1. Off(0) + BufSize <= Off(n) /\ Off(0) = 0 /\ Off(n) \in Nat
      BY <1>3, OffFacts
    <3> QED BY <1>1, <3>1 DEF Off
  <2>2. CASE r = BufSize
    <3>1. framelength = (n + 1) * BufSize
      BY <1>1, <2>2
    <3>2. framelength \div BufSize = n + 1 /\ framelength % BufSize = 0
      BY <1>1, <3>1
    <3> QED BY <2>1, <3>2 DEF bufcount
  <2>3. CASE r < BufSize
    <3> DEFINE k == framelength \div BufSize
               s == framelength % BufSize
    <3>1. k \in Nat /\ s \in Nat /\ s < BufSize /\ framelength = k * BufSize + s
      BY <1>1
    <3>2. Off(k) + s = Off(n) + r /\ Off(k) \in Nat /\ Off(n) \in Nat
      BY <1>1, <3>1, OffFacts DEF Off
    <3> HIDE DEF k, s
    <3>3. k = n
      <4>1. CASE k < n
        <5>1. Off(k) + BufSize <= Off(n)
          BY <3>1, <4>1, OffFacts
        <5> QED BY <1>1, <2>3, <3>1, <3>2, <5>1
      <4>2. CASE n < k
        <5>1. Off(n) + BufSize <= Off(k)
          BY <3>1, <4>2, OffFacts
        <5> QED BY <1>1, <2>3, <3>1, <3>2, <5>1
      <4> QED BY <3>1, <4>1, <4>2
    <3>4. s # 0
      BY <1>1, <3>1, <3>2, <3>3
    <3> QED BY <2>1, <3>1, <3>3, <3>4 DEF bufcount, k, s
  <2> QED BY <1>1, <2>2, <2>3
<1> QED BY <1>2, <1>3

\* What the window says of single descriptors
LEMMA WindowFacts ==
  ASSUME TypeOK, RingInv
  PROVE  /\ ~own[cur] => TxDesc = cur /\ \A d \in Desc : ~own[d]
         /\ \A d \in Desc : own[d] /\ Nxt(d) # TxDesc => own[Nxt(d)] /\ Nxt(d) # cur
         /\ own[cur] /\ Nxt(cur) = TxDesc => ~own[TxDesc]
         /\ ~own[TxDesc] /\ own[Nxt(TxDesc)] => Nxt(TxDesc) = cur
<1>1. cur \in Desc /\ TxDesc \in Desc /\ N \in Nat /\ N >= 2
  BY NAssumption DEF TypeOK
<1>2. PICK q \in 0 .. N : TxDesc = Plus(cur, q) /\ \A d \in Desc : own[d] <=> Dist(cur, d) < q
  BY DEF RingInv, Window
<1>3. ~own[cur] => TxDesc = cur /\ \A d \in Desc : ~own[d]
  <2> SUFFICES ASSUME ~own[cur] PROVE TxDesc = cur /\ \A d \in Desc : ~own[d]
    OBVIOUS
  <2>1. q = 0
    BY <1>1, <1>2, DistFacts
  <2>2. TxDesc = cur
    BY <1>1, <1>2, <2>1, PlusFacts
  <2>3. \A d \in Desc : ~(Dist(cur, d) < 0)
    BY <1>1, DistFacts
  <2> QED BY <1>2, <2>1, <2>2, <2>3
<1>4. ASSUME NEW d \in Desc, own[d], Nxt(d) # TxDesc
      PROVE  own[Nxt(d)] /\ Nxt(d) # cur
  <2>1. Dist(cur, d) < q /\ Dist(cur, d) \in Nat /\ Nxt(d) \in Desc
    BY <1>1, <1>2, <1>4, DistFacts, NxtFacts
  <2>2. Dist(cur, d) + 1 # q
    <3> SUFFICES ASSUME Dist(cur, d) + 1 = q PROVE FALSE
      OBVIOUS
    <3>1. CASE q < N
      <4>1. Dist(cur, Nxt(d)) = q /\ Dist(cur, TxDesc) = q
        BY <1>1, <1>2, <3>1, DistFacts, PlusFacts
      <4> QED BY <1>1, <1>4, <2>1, <4>1, DistUnique
    <3>2. CASE q = N
      BY <1>1, <1>2, <1>4, <3>2, DistFacts, PlusFacts
    <3> QED BY <1>1, <3>1, <3>2
  <2>3. Dist(cur, Nxt(d)) = Dist(cur, d) + 1 /\ Dist(cur, d) + 1 < q
    BY <1>1, <2>1, <2>2, DistFacts
  <2> QED BY <1>1, <1>2, <2>1, <2>3, DistFacts
<1>5. own[cur] /\ Nxt(cur) = TxDesc => ~own[TxDesc]
  <2> SUFFICES ASSUME Nxt(cur) = TxDesc, own[TxDesc] PROVE FALSE
    OBVIOUS
  <2>1. Dist(cur, cur) = 0 /\ Dist(cur, TxDesc) = 1
    BY <1>1, DistFacts
  <2>2. q # N
    BY <1>1, <1>2, <2>1, PlusFacts
  <2>3. q = 1
    BY <1>1, <1>2, <2>1, <2>2, PlusFacts
  <2> QED BY <1>1, <1>2, <2>1, <2>3
<1>6. ~own[TxDesc] /\ own[Nxt(TxDesc)] => Nxt(TxDesc) = cur
  <2> SUFFICES ASSUME ~own[TxDesc], own[Nxt(TxDesc)], Nxt(TxDesc) # cur PROVE FALSE
    OBVIOUS
  <2>0. q # N
    <3> SUFFICES ASSUME q = N PROVE FALSE
      OBVIOUS
    <3>1. TxDesc = cur
      BY <1>1, <1>2, PlusFacts
    <3>2. Dist(cur, cur) = 0
      BY <1>1, DistFacts
    <3> QED BY <1>1, <1>2, <3>1, <3>2
  <2>1. q # N /\ Dist(cur, TxDesc) = q
    BY <1>1, <1>2, <2>0, PlusFacts
  <2>2. Dist(cur, Nxt(TxDesc)) = q + 1
    BY <1>1, <2>1, DistFacts
  <2> QED BY <1>1, <1>2, <2>2, NxtFacts
<1> QED BY <1>3, <1>4, <1>5, <1>6
----------------------------------------------------------------------------
(* Steps that leave the ring and the engine alone.                         *)

\* The frames that low_level_output() was called with stay what they were.
FramesKept == frame <= frame' /\ \A f \in 1 .. frame : frames'[f] = frames[f]

\* The phase of the driver changes only as the ring allows.
PhaseKept ==
  /\ Partial' <=> Partial
  /\ Partial => i' = i /\ frame' = frame
  /\ Fresh' => (Fresh /\ frame' = frame) \/ frame < frame'
  /\ \A f \in 1 .. frame : Given(f) => Given(f)'

\* The types that the proofs below need
LEMMA Types ==
  ASSUME TypeOK
  PROVE  /\ frame \in Nat /\ cur \in Desc /\ TxDesc \in Desc /\ DmaTxDesc \in Desc
         /\ \A d \in Desc : own[d] \in BOOLEAN /\ buf[d][1][1] \in Nat /\ buf[d][1][2] \in Nat
         /\ \A d \in Desc : ctrl[d].size \in 0 .. BufSize /\ ctrl[d].fs \in BOOLEAN /\ ctrl[d].ls \in BOOLEAN
         /\ \A f \in 1 .. frame : LengthOf(f) \in 1 .. N * BufSize
<1>1. frame \in Nat /\ cur \in Desc /\ TxDesc \in Desc /\ DmaTxDesc \in Desc
  BY DEF TypeOK, frame
<1>2. \A d \in Desc : ctrl[d].size \in 0 .. BufSize /\ ctrl[d].fs \in BOOLEAN /\ ctrl[d].ls \in BOOLEAN
  BY DEF TypeOK
<1>3. ASSUME NEW d \in Desc
      PROVE  own[d] \in BOOLEAN /\ buf[d][1][1] \in Nat /\ buf[d][1][2] \in Nat
  <2>1. 1 \in 1 .. BufSize
    BY BufSizeAssumption
  <2>2. buf[d][1] \in (0 .. MaxFrames) \X Nat
    <3>1. buf[d] \in [1 .. BufSize -> Byte]
      BY DEF TypeOK
    <3>2. buf[d][1] \in Byte
      BY <2>1, <3>1
    <3> QED BY <3>2 DEF Byte
  <2>3. MaxFrames \in Nat
    BY BoundsAssumption
  <2> QED BY <2>2, <2>3 DEF TypeOK
<1>4. ASSUME NEW f \in 1 .. frame
      PROVE  LengthOf(f) \in 1 .. N * BufSize
  <2>1. frames[f] \in Chains
    BY <1>4 DEF TypeOK, frame
  <2> QED BY <2>1, ChainsAssumption DEF LengthOf
<1> QED BY <1>1, <1>2, <1>3, <1>4

\* A segment does not depend on the phase.
LEMMA SegKept ==
  ASSUME TypeOK, FramesKept, NEW d \in Desc, Seg(d), ctrl'[d] = ctrl[d], buf'[d] = buf[d],
         Given(FrameOf(d)) => Given(FrameOf(d))', frame' \in Nat
  PROVE  Seg(d)' /\ FrameOf(d)' = FrameOf(d) /\ Base(d)' = Base(d) /\ FrameOf(d) \in 1 .. frame
<1>1. FrameOf(d)' = FrameOf(d) /\ Base(d)' = Base(d)
  BY DEF FrameOf, Base
<1>2. FrameOf(d) \in 1 .. frame /\ frame \in Nat
  BY Types DEF Seg
<1>3. LengthOf(FrameOf(d))' = LengthOf(FrameOf(d))
  BY <1>1, <1>2 DEF LengthOf, FramesKept
<1>4. FrameOf(d)' \in 1 .. frame'
  BY <1>1, <1>2 DEF FramesKept
<1> QED BY <1>1, <1>2, <1>3, <1>4 DEF Seg

\* The ring, what the engine has sent and what it will send are kept.
LEMMA Keeps ==
  ASSUME IInv, TypeOK', UNCHANGED <<own, ctrl, cur, out, TxDesc, sent>>,
         \A d \in Desc : own[d] => buf'[d] = buf[d], FramesKept, PhaseKept
  PROVE  RingInv' /\ Segments' /\ Engine' /\ SentInv'
<1>1. TypeOK /\ RingInv /\ Segments /\ Engine /\ SentInv
  BY DEF IInv
<1>2. /\ frame \in Nat /\ cur \in Desc /\ TxDesc \in Desc /\ frame' \in Nat
      /\ \A d \in Desc : Nxt(d) \in Desc
  <2>1. frame' \in Nat
    BY DEF TypeOK, frame
  <2> QED BY <1>1, <2>1, Types, NxtFacts
<1>3. RingInv'
  BY <1>1 DEF RingInv, Window
<1>4. ASSUME NEW d \in Desc, own[d]
      PROVE  Seg(d)' /\ FrameOf(d)' = FrameOf(d) /\ Base(d)' = Base(d) /\ FrameOf(d) \in 1 .. frame
  <2>1. Seg(d) /\ FrameOf(d) \in 1 .. frame
    BY <1>1, <1>4 DEF Segments, Seg
  <2>2. Given(FrameOf(d)) => Given(FrameOf(d))'
    <3>1. FrameOf(d)' = FrameOf(d)
      BY <1>4 DEF FrameOf
    <3>2. \A f \in 1 .. frame : Given(f) => Given(f)'
      BY DEF PhaseKept
    <3>3. Given(FrameOf(d)) => (\E j \in DOMAIN accepted' : accepted'[j] = FrameOf(d))
                               \/ (FrameOf(d) = frame' /\ (Complete' \/ pc' = "give"))
      BY <2>1, <3>2 DEF Given
    <3> QED BY <3>1, <3>3 DEF Given
  <2> QED BY <1>1, <1>2, <1>4, <2>1, <2>2, SegKept
<1>5. Segments'
  <2> SUFFICES ASSUME NEW d \in Desc, own[d]
               PROVE  /\ Seg(d)'
                      /\ own[Nxt(d)] /\ Nxt(d) # cur => Link(d, Nxt(d))'
                      /\ Nxt(d) = TxDesc => LastGiven(d)'
    BY DEF Segments
  <2>1. own[Nxt(d)] /\ Nxt(d) # cur => Link(d, Nxt(d))'
    <3> SUFFICES ASSUME own[Nxt(d)], Nxt(d) # cur PROVE Link(d, Nxt(d))'
      OBVIOUS
    <3>1. Link(d, Nxt(d))
      BY <1>1 DEF Segments
    <3>2. FrameOf(Nxt(d))' = FrameOf(Nxt(d)) /\ Base(Nxt(d))' = Base(Nxt(d))
      BY <1>2, <1>4
    <3> QED BY <1>4, <3>1, <3>2 DEF Link
  <2>2. Nxt(d) = TxDesc => LastGiven(d)'
    <3> SUFFICES ASSUME Nxt(d) = TxDesc PROVE LastGiven(d)'
      OBVIOUS
    <3>1. LastGiven(d)
      BY <1>1 DEF Segments
    <3>2. FrameOf(d)' = FrameOf(d) /\ Base(d)' = Base(d) /\ FrameOf(d) \in 1 .. frame
      BY <1>4
    <3>3. Fresh' => FrameOf(d) < frame' \/ (Fresh /\ frame' = frame)
      BY <1>2, <3>2 DEF PhaseKept
    <3>4. CASE ctrl[d].ls
      BY <3>1, <3>2, <3>3, <3>4 DEF LastGiven, PhaseKept
    <3>5. CASE ~ctrl[d].ls
      <4>1. Off(i)' = Off(i) /\ frame' = frame /\ Partial'
        BY <3>1, <3>5 DEF LastGiven, PhaseKept, Off
      <4> QED BY <3>1, <3>2, <3>5, <4>1 DEF LastGiven
    <3> QED BY <3>4, <3>5
  <2> QED BY <1>4, <2>1, <2>2
<1>6. \A f : SentBelow(f)' <=> SentBelow(f)
  BY DEF SentBelow
<1>7. \A k \in DOMAIN sent : sent[k][1][1] \in 1 .. frame
  BY <1>1 DEF SentInv
<1>8. Engine'
  <2>1. own[cur]' => out' = Prefix(FrameOf(cur), Base(cur))' /\ SentBelow(FrameOf(cur))'
    <3> SUFFICES ASSUME own[cur] PROVE out = Prefix(FrameOf(cur), Base(cur))' /\ SentBelow(FrameOf(cur))'
      OBVIOUS
    <3>1. FrameOf(cur)' = FrameOf(cur) /\ Base(cur)' = Base(cur)
      BY <1>2, <1>4 DEF FrameOf, Base
    <3>2. out = Prefix(FrameOf(cur), Base(cur)) /\ SentBelow(FrameOf(cur))
      BY <1>1 DEF Engine
    <3> QED BY <3>1, <3>2 DEF Prefix, SentBelow
  <2>2. ~own[cur]' => out' = IF Partial' THEN Prefix(frame, Off(i))' ELSE <<>>
    <3> SUFFICES ASSUME ~own[cur] PROVE out = IF Partial' THEN Prefix(frame, Off(i))' ELSE <<>>
      OBVIOUS
    <3>1. out = IF Partial THEN Prefix(frame, Off(i)) ELSE <<>>
      BY <1>1 DEF Engine
    <3>2. CASE Partial
      <4>1. Partial' /\ i' = i /\ frame' = frame
        BY <3>2 DEF PhaseKept
      <4> QED BY <3>1, <3>2, <4>1 DEF Prefix, Off
    <3>3. CASE ~Partial
      BY <3>1, <3>3 DEF PhaseKept
    <3> QED BY <3>2, <3>3
  <2>3. Fresh' \/ Partial' => SentBelow(frame)'
    <3>1. frame < frame' => SentBelow(frame)'
      BY <1>2, <1>7 DEF SentBelow
    <3>2. Fresh \/ Partial => SentBelow(frame)
      BY <1>1 DEF Engine
    <3> QED BY <3>1, <3>2 DEF PhaseKept, SentBelow
  <2> QED BY <2>1, <2>2, <2>3 DEF Engine
<1>9. SentInv'
  <2>1. ASSUME NEW k \in DOMAIN sent
        PROVE  /\ sent[k][1][1] \in 1 .. frame' /\ Given(sent[k][1][1])'
               /\ sent[k] = BytesOf(sent[k][1][1])'
    <3>1. /\ sent[k][1][1] \in 1 .. frame /\ Given(sent[k][1][1])
          /\ sent[k] = BytesOf(sent[k][1][1])
      BY <1>1 DEF SentInv
    <3>2. sent[k][1][1] \in 1 .. frame' /\ frames'[sent[k][1][1]] = frames[sent[k][1][1]]
      BY <1>2, <3>1 DEF FramesKept
    <3> DEFINE f == sent[k][1][1]
    <3>3. Given(f) => (\E j \in DOMAIN accepted' : accepted'[j] = f)
                      \/ (f = frame' /\ (Complete' \/ pc' = "give"))
      <4>1. \A g \in 1 .. frame : Given(g) => (\E j \in DOMAIN accepted' : accepted'[j] = g)
                      \/ (g = frame' /\ (Complete' \/ pc' = "give"))
        BY DEF PhaseKept, Given
      <4>2. f \in 1 .. frame
        BY <3>1
      <4> HIDE DEF f
      <4> QED BY <4>1, <4>2
    <3>4. Given(sent[k][1][1])'
      BY <3>1, <3>3 DEF Given
    <3>5. sent[k] = BytesOf(sent[k][1][1])'
      BY <3>1, <3>2 DEF BytesOf
    <3> QED BY <3>2, <3>4, <3>5
  <2>2. \A k \in 2 .. Len(sent) : sent[k - 1][1][1] < sent[k][1][1]
    BY <1>1 DEF SentInv
  <2> QED BY <2>1, <2>2 DEF SentInv
<1> QED BY <1>3, <1>5, <1>8, <1>9

\* The count of last segments that are not sent, when no descriptor changes
LEMMA CountsKept ==
  ASSUME Counts, UNCHANGED <<own, ctrl, sent, underflows, accepted>>, Complete' <=> Complete
  PROVE  Counts'
<1>1. Lasts' = Lasts
  BY DEF Lasts
<1> QED BY <1>1 DEF Counts

\* low_level_output() is called.
LEMMA OutputInv ==
  ASSUME IInv, NEW ch \in Chains, Output(ch)
  PROVE  IInv'
<1>1. TypeOK /\ WakeUp /\ Driver /\ Counts
  BY DEF IInv
<1>2. /\ pc = "idle" /\ frame < MaxFrames /\ frames' = Append(frames, ch)
      /\ chain' = ch /\ pc' = "check" /\ DmaTxDesc' = TxDesc /\ bufferoffset' = 0 /\ framelength' = 0
      /\ UNCHANGED <<own, ctrl, buf, tbus, tus, dma, cur, out, underflows, TxDesc, left, i,
                     errval, accepted, sent>>
  BY DEF Output, hwvars
<1>3. ch \in Seq(Nat) /\ N * BufSize \in Nat /\ MaxFrames \in Nat
  BY ChainsAssumption, NAssumption, BufSizeAssumption, BoundsAssumption
<1>4. frames \in Seq(Chains) /\ frame \in Nat /\ frame' = frame + 1
  BY <1>1, <1>2 DEF TypeOK, frame
<1>5. TypeOK'
  <2>1. frames' \in Seq(Chains)
    BY <1>2, <1>4
  <2>2. 0 \in 0 .. BufSize /\ 0 \in 0 .. N * BufSize
    BY <1>3, BufSizeAssumption
  <2> QED BY <1>1, <1>2, <1>3, <2>1, <2>2 DEF TypeOK
<1>6. FramesKept
  BY <1>2, <1>4 DEF FramesKept, frame
<1>7. PhaseKept
  <2>1. ~Partial /\ ~Partial' /\ ~Complete
    BY <1>2 DEF Partial, Complete
  <2>2. \A f \in 1 .. frame : Given(f) => Given(f)'
    BY <1>2, <2>1 DEF Given
  <2> QED BY <1>4, <2>1, <2>2 DEF PhaseKept
<1>8. RingInv' /\ Segments' /\ Engine' /\ SentInv'
  BY <1>2, <1>5, <1>6, <1>7, Keeps
<1>9. WakeUp'
  BY <1>1, <1>2 DEF WakeUp
<1>10. Counts'
  <2>1. ~Complete /\ ~Complete'
    BY <1>2 DEF Complete
  <2> QED BY <1>1, <1>2, <2>1, CountsKept
<1>11. Driver'
  <2>1. TxDesc \in Desc /\ Full' = 0 /\ \A d \in Desc : Dist(TxDesc, d) \in Nat
    <3>1. TxDesc \in Desc
      BY <1>1, Types
    <3> QED BY <1>2, <3>1, DistFacts DEF Full
  <2>2. Off(0) = 0 /\ \A n \in Nat : Off(n) \in Nat
    BY OffFacts
  <2>3. Filled(0)'
    <3> SUFFICES ASSUME NEW d \in Desc, NEW b \in 1 .. BufSize, Off(0 + Dist(TxDesc, d)) + b <= 0
                 PROVE  FALSE
      BY <1>2 DEF Filled
    <3>1. 0 + Dist(TxDesc, d) \in Nat
      BY <2>1
    <3> QED BY <2>2, <3>1
  <2>4. Free(Full)'
    BY <1>2, <2>1 DEF Free
  <2>5. LengthOf(frame)' = Total(ch) /\ Total(ch) \in Nat
    <3>1. frames'[frame'] = ch
      BY <1>2, <1>4 DEF frame
    <3> QED BY <1>3, <3>1, TotalFacts DEF LengthOf
  <2>6. Copying'
    BY <1>2, <2>1, <2>2, <2>3, <2>4, <2>5 DEF Copying
  <2>7. Giving'
    BY <1>2 DEF Giving
  <2> QED BY <1>2, <1>3, <1>4, <2>6, <2>7 DEF Driver
<1> QED BY <1>5, <1>8, <1>9, <1>10, <1>11 DEF IInv

\* The OWN bit of the current descriptor is tested.
LEMMA CheckDescInv ==
  ASSUME IInv, CheckDesc
  PROVE  IInv'
<1>1. TypeOK /\ WakeUp /\ Driver /\ Counts
  BY DEF IInv
<1>2. /\ pc = "check" /\ chain # <<>>
      /\ UNCHANGED <<own, ctrl, buf, tbus, tus, dma, cur, out, underflows, TxDesc, DmaTxDesc,
                     bufferoffset, framelength, i, frames, accepted, sent>>
  BY DEF CheckDesc, hwvars
<1>3. \/ own[DmaTxDesc] /\ errval' = "ERR_USE" /\ pc' = "tus" /\ UNCHANGED <<chain, left>>
      \/ ~own[DmaTxDesc] /\ left' = Head(chain) /\ chain' = Tail(chain) /\ pc' = "copy" /\ errval' = errval
  BY DEF CheckDesc
<1>4. chain \in Seq(Nat) /\ Head(chain) \in Nat /\ Tail(chain) \in Seq(Nat)
  <2>1. chain \in Seq(Nat)
    BY <1>1 DEF TypeOK
  <2> QED BY <1>2, <2>1
<1>5. TypeOK'
  BY <1>1, <1>2, <1>3, <1>4 DEF TypeOK
<1>6. frame' = frame /\ frame \in Nat
  BY <1>1, <1>2, Types DEF frame
<1>7. FramesKept
  BY <1>2, <1>6 DEF FramesKept
<1>8. ~Complete /\ ~Complete' /\ ~Partial /\ ~Partial' /\ Fresh
  BY <1>2, <1>3 DEF Complete, Partial, Fresh
<1>9. PhaseKept
  <2>1. \A f \in 1 .. frame : Given(f) => Given(f)'
    BY <1>2, <1>8 DEF Given
  <2> QED BY <1>6, <1>8, <2>1 DEF PhaseKept
<1>10. RingInv' /\ Segments' /\ Engine' /\ SentInv'
  BY <1>2, <1>5, <1>7, <1>9, Keeps
<1>11. WakeUp'
  BY <1>1, <1>2, <1>3 DEF WakeUp
<1>12. Counts'
  BY <1>1, <1>2, <1>8, CountsKept
<1>13. Driver'
  <2>1. Giving'
    BY <1>3 DEF Giving
  <2>2. Copying'
    <3> SUFFICES ASSUME pc' = "copy" PROVE Copying'
      BY <1>3 DEF Copying
    <3>1. ~own[DmaTxDesc] /\ left' = Head(chain) /\ chain' = Tail(chain)
      BY <1>3
    <3>2. /\ framelength = Off(Full) + bufferoffset /\ Filled(0) /\ Free(Full)
          /\ Full > 0 => bufferoffset > 0
          /\ framelength + 0 + Total(chain) = LengthOf(frame)
      BY <1>1, <1>2 DEF Driver, Copying
    <3>3. Full' = Full /\ Off(Full)' = Off(Full) /\ Filled(0)' /\ Free(Full)'
      BY <1>2, <1>6, <3>2 DEF Full, Off, Filled, Free
    <3>4. Total(chain) = Head(chain) + Total(Tail(chain)) /\ Total(Tail(chain)) \in Nat
      BY <1>2, <1>4, TotalFacts
    <3>5. LengthOf(frame)' = LengthOf(frame) /\ framelength \in Nat
      BY <1>1, <1>2, <1>6, NAssumption, BufSizeAssumption DEF LengthOf, TypeOK
    <3>6. framelength + left' + Total(Tail(chain)) = LengthOf(frame)
      BY <1>4, <3>1, <3>2, <3>4, <3>5
    <3> QED BY <1>2, <3>1, <3>2, <3>3, <3>5, <3>6 DEF Copying
  <2> QED BY <1>1, <1>2, <1>3, <1>6, <2>1, <2>2 DEF Driver
<1> QED BY <1>5, <1>10, <1>11, <1>12, <1>13 DEF IInv

\* memcpy() puts the next n bytes of the frame behind those that the buffer has.
LEMMA MemcpyFacts ==
  ASSUME TypeOK, Driver, pc = "copy", NEW n \in Nat, bufferoffset + n <= BufSize, Memcpy(n)
  PROVE  /\ buf' \in [Desc -> [1 .. BufSize -> Byte]]
         /\ \A d \in Desc \ {DmaTxDesc} : buf'[d] = buf[d]
         /\ \A b \in 1 .. BufSize : Off(Full) + b <= framelength + n =>
              buf'[DmaTxDesc][b] = <<frame, Off(Full) + b>>
<1>1. /\ DmaTxDesc \in Desc /\ bufferoffset \in Nat /\ framelength \in Nat /\ BufSize \in Nat
      /\ frame \in Nat /\ frame \in 0 .. MaxFrames /\ Full \in Nat /\ Off(Full) \in Nat
  <2>1. TxDesc \in Desc /\ DmaTxDesc \in Desc /\ frame \in Nat
    BY Types
  <2>2. Full \in Nat
    BY <2>1, DistFacts DEF Full
  <2>3. Off(Full) \in Nat
    BY <2>2, OffFacts
  <2>4. bufferoffset \in Nat /\ framelength \in Nat /\ BufSize \in Nat
    BY NAssumption, BufSizeAssumption DEF TypeOK
  <2>5. frame \in 0 .. MaxFrames
    BY <2>1, BoundsAssumption DEF Driver
  <2> QED BY <2>1, <2>2, <2>3, <2>4, <2>5
<1>2. framelength = Off(Full) + bufferoffset /\ Filled(0)
  BY DEF Driver, Copying
<1> DEFINE new == [k \in 1 .. BufSize |->
                     IF k \in bufferoffset + 1 .. bufferoffset + n
                       THEN <<frame, framelength + k - bufferoffset>>
                       ELSE buf[DmaTxDesc][k]]
<1>3. buf \in [Desc -> [1 .. BufSize -> Byte]] /\ buf' = [buf EXCEPT ![DmaTxDesc] = new]
  BY DEF TypeOK, Memcpy
<1>4. new \in [1 .. BufSize -> Byte]
  <2> SUFFICES ASSUME NEW k \in 1 .. BufSize
               PROVE  (IF k \in bufferoffset + 1 .. bufferoffset + n
                         THEN <<frame, framelength + k - bufferoffset>>
                         ELSE buf[DmaTxDesc][k]) \in Byte
    OBVIOUS
  <2>1. CASE k \in bufferoffset + 1 .. bufferoffset + n
    <3>1. framelength + k - bufferoffset \in Nat
      BY <1>1, <2>1
    <3>2. <<frame, framelength + k - bufferoffset>> \in Byte
      BY <1>1, <3>1 DEF Byte
    <3> QED BY <2>1, <3>2
  <2>2. CASE k \notin bufferoffset + 1 .. bufferoffset + n
    <3>1. buf[DmaTxDesc] \in [1 .. BufSize -> Byte]
      BY <1>1, <1>3
    <3>2. buf[DmaTxDesc][k] \in Byte
      BY <3>1
    <3> QED BY <2>2, <3>2
  <2> QED BY <2>1, <2>2
<1>5. ASSUME NEW b \in 1 .. BufSize, Off(Full) + b <= framelength + n
      PROVE  new[b] = <<frame, Off(Full) + b>>
  <2>1. CASE b \in bufferoffset + 1 .. bufferoffset + n
    <3>1. framelength + b - bufferoffset = Off(Full) + b
      BY <1>1, <1>2
    <3> QED BY <2>1, <3>1
  <2>2. CASE b \notin bufferoffset + 1 .. bufferoffset + n
    <3>1. new[b] = buf[DmaTxDesc][b]
      BY <2>2
    <3>2. b <= bufferoffset /\ Off(Full) + b <= framelength
      BY <1>1, <1>2, <1>5, <2>2
    <3>3. 0 + Dist(TxDesc, DmaTxDesc) = Full
      BY <1>1 DEF Full
    <3>4. buf[DmaTxDesc][b] = <<frame, Off(Full) + b>>
      BY <1>1, <1>2, <3>2, <3>3 DEF Filled
    <3> QED BY <3>1, <3>4
  <2> QED BY <2>1, <2>2
<1> HIDE DEF new
<1>6. buf'[DmaTxDesc] = new /\ \A d \in Desc \ {DmaTxDesc} : buf'[d] = buf[d]
  BY <1>1, <1>3
<1>7. buf' \in [Desc -> [1 .. BufSize -> Byte]]
  BY <1>1, <1>3, <1>4
<1> QED BY <1>5, <1>6, <1>7

\* Where the bytes are after a copy that ends in or at the end of the buffer.
LEMMA FilledAfter ==
  ASSUME TypeOK, Driver, pc = "copy", NEW n \in Nat, bufferoffset + n <= BufSize, Memcpy(n),
         framelength' = framelength + n, TxDesc' = TxDesc, frames' = frames
  PROVE  Filled(0)'
<1>1. /\ DmaTxDesc \in Desc /\ TxDesc \in Desc /\ bufferoffset \in Nat /\ framelength \in Nat
      /\ BufSize \in Nat \ {0}
      /\ Full \in Nat /\ Off(Full) \in Nat /\ \A d \in Desc : Dist(TxDesc, d) \in Nat
  <2>1. TxDesc \in Desc /\ DmaTxDesc \in Desc
    BY Types
  <2>2. Full \in Nat /\ \A d \in Desc : Dist(TxDesc, d) \in Nat
    BY <2>1, DistFacts DEF Full
  <2>3. Off(Full) \in Nat
    BY <2>2, OffFacts
  <2> QED BY <2>1, <2>2, <2>3, NAssumption, BufSizeAssumption DEF TypeOK
<1>2. framelength = Off(Full) + bufferoffset /\ Filled(0)
  BY DEF Driver, Copying
<1>3. /\ \A d \in Desc \ {DmaTxDesc} : buf'[d] = buf[d]
      /\ \A b \in 1 .. BufSize : Off(Full) + b <= framelength + n =>
           buf'[DmaTxDesc][b] = <<frame, Off(Full) + b>>
  BY MemcpyFacts
<1>4. frame' = frame
  BY DEF frame
<1> SUFFICES ASSUME NEW d \in Desc, NEW b \in 1 .. BufSize,
                    Off(0 + Dist(TxDesc, d)) + b <= framelength + n
             PROVE  buf'[d][b] = <<frame, Off(0 + Dist(TxDesc, d)) + b>>
  BY <1>4 DEF Filled
<1> DEFINE m == Dist(TxDesc, d)
<1>5. m \in Nat /\ 0 + m = m /\ Off(m) \in Nat
  BY <1>1, OffFacts
<1>6. m <= Full
  <2> SUFFICES ASSUME Full < m PROVE FALSE
    BY <1>1, <1>5
  <2>1. Off(Full) + BufSize <= Off(m)
    BY <1>1, <1>5, OffFacts
  <2> QED BY <1>1, <1>2, <1>5, <2>1
<1>7. CASE d = DmaTxDesc
  <2>1. 0 + Dist(TxDesc, d) = Full
    BY <1>5, <1>7 DEF Full
  <2> QED BY <1>3, <1>7, <2>1
<1>8. CASE d # DmaTxDesc
  <2>1. m # Full
    BY <1>1, <1>8, DistUnique DEF Full
  <2>2. Off(m) + BufSize <= Off(Full)
    <3>1. m < Full
      BY <1>1, <1>5, <1>6, <2>1
    <3> QED BY <1>1, <1>5, <3>1, OffFacts
  <2>3. Off(0 + Dist(TxDesc, d)) + b <= framelength
    BY <1>1, <1>2, <1>5, <2>2
  <2> QED BY <1>2, <1>3, <1>8, <2>3 DEF Filled
<1> QED BY <1>7, <1>8

\* A copy does not touch what the engine owns, and does not complete a frame.
LEMMA CopyKeeps ==
  ASSUME IInv, TypeOK', pc = "copy", pc' \in {"check", "copy", "tus"},
         pc' = "tus" => errval' = "ERR_USE",
         \A d \in Desc \ {DmaTxDesc} : buf'[d] = buf[d],
         UNCHANGED <<own, ctrl, tbus, tus, dma, cur, out, underflows, TxDesc, frames, accepted, sent>>
  PROVE  RingInv' /\ Segments' /\ Engine' /\ SentInv' /\ WakeUp' /\ Counts'
<1>1. TypeOK /\ WakeUp /\ Driver /\ Counts
  BY DEF IInv
<1>2. ~own[DmaTxDesc]
  BY <1>1 DEF Driver, Copying
<1>3. \A d \in Desc : own[d] => buf'[d] = buf[d]
  BY <1>2
<1>4. frame' = frame /\ frame \in Nat
  BY <1>1, Types DEF frame
<1>5. FramesKept
  BY <1>4 DEF FramesKept
<1>6. ~Complete /\ ~Complete' /\ ~Partial /\ ~Partial' /\ Fresh
  BY DEF Complete, Partial, Fresh
<1>7. PhaseKept
  <2>1. \A f \in 1 .. frame : Given(f) => Given(f)'
    BY <1>6 DEF Given
  <2> QED BY <1>4, <1>6, <2>1 DEF PhaseKept
<1>8. RingInv' /\ Segments' /\ Engine' /\ SentInv'
  BY <1>3, <1>5, <1>7, Keeps
<1>9. WakeUp'
  BY <1>1 DEF WakeUp
<1>10. Counts'
  BY <1>1, <1>6, CountsKept
<1> QED BY <1>8, <1>9, <1>10

\* The numbers of a copy
LEMMA CopyTypes ==
  ASSUME TypeOK, Driver, pc = "copy"
  PROVE  /\ TxDesc \in Desc /\ DmaTxDesc \in Desc /\ Full \in Nat /\ Full < N /\ Off(Full) \in Nat
         /\ bufferoffset \in Nat /\ bufferoffset <= BufSize /\ framelength \in Nat /\ left \in Nat
         /\ BufSize \in Nat \ {0} /\ N \in Nat
         /\ Total(chain) \in Nat /\ LengthOf(frame) \in Nat /\ LengthOf(frame) <= Off(N)
         /\ framelength = Off(Full) + bufferoffset /\ Filled(0) /\ Free(Full) /\ ~own[DmaTxDesc]
         /\ Full > 0 => bufferoffset > 0 \/ left > 0
         /\ framelength + left + Total(chain) = LengthOf(frame)
<1>1. TxDesc \in Desc /\ DmaTxDesc \in Desc
  BY Types
<1>2. Full \in Nat /\ Full < N
  BY <1>1, DistFacts DEF Full
<1>3. Off(Full) \in Nat
  BY <1>2, OffFacts
<1>4. /\ bufferoffset \in Nat /\ bufferoffset <= BufSize /\ framelength \in Nat /\ left \in Nat
      /\ BufSize \in Nat \ {0} /\ N \in Nat
  BY NAssumption, BufSizeAssumption DEF TypeOK
<1>5. Total(chain) \in Nat
  BY TotalFacts DEF TypeOK
<1>6. LengthOf(frame) \in Nat /\ LengthOf(frame) <= Off(N)
  <2>1. frame \in 1 .. frame
    BY Types DEF Driver
  <2>2. LengthOf(frame) \in 1 .. N * BufSize
    BY <2>1, Types
  <2>3. Off(N) = N * BufSize /\ N * BufSize \in Nat
    BY <1>4 DEF Off
  <2> QED BY <2>2, <2>3
<1> QED BY <1>1, <1>2, <1>3, <1>4, <1>5, <1>6 DEF Driver, Copying

\* The rest of a pbuf is copied.
LEMMA CopyRestInv ==
  ASSUME IInv, CopyRest
  PROVE  IInv'
<1>1. TypeOK /\ WakeUp /\ Driver /\ Counts
  BY DEF IInv
<1>2. /\ pc = "copy" /\ left + bufferoffset <= BufSize /\ Memcpy(left)
      /\ bufferoffset' = bufferoffset + left /\ framelength' = framelength + left
      /\ left' = 0 /\ pc' = "check"
      /\ UNCHANGED <<own, ctrl, tbus, tus, dma, cur, out, underflows, TxDesc, chain, DmaTxDesc,
                     i, errval, frames, accepted, sent>>
  BY DEF CopyRest, hwvars
<1>3. /\ TxDesc \in Desc /\ DmaTxDesc \in Desc /\ Full \in Nat /\ Full < N /\ Off(Full) \in Nat
      /\ bufferoffset \in Nat /\ bufferoffset <= BufSize /\ framelength \in Nat /\ left \in Nat
      /\ BufSize \in Nat \ {0} /\ N \in Nat
      /\ Total(chain) \in Nat /\ LengthOf(frame) \in Nat /\ LengthOf(frame) <= Off(N)
      /\ framelength = Off(Full) + bufferoffset /\ Filled(0) /\ Free(Full) /\ ~own[DmaTxDesc]
      /\ Full > 0 => bufferoffset > 0 \/ left > 0
      /\ framelength + left + Total(chain) = LengthOf(frame)
  BY <1>1, <1>2, CopyTypes
<1>4. bufferoffset + left <= BufSize
  BY <1>2, <1>3
<1>5. /\ buf' \in [Desc -> [1 .. BufSize -> Byte]]
      /\ \A d \in Desc \ {DmaTxDesc} : buf'[d] = buf[d]
  BY <1>1, <1>2, <1>3, <1>4, MemcpyFacts
<1>6. TypeOK'
  <2>1. Off(N) = N * BufSize /\ Off(N) \in Nat
    BY <1>3, OffFacts
  <2>2. bufferoffset + left \in 0 .. BufSize /\ framelength + left \in 0 .. N * BufSize
    BY <1>3, <1>4, <2>1
  <2> QED BY <1>1, <1>2, <1>5, <2>2 DEF TypeOK
<1>7. RingInv' /\ Segments' /\ Engine' /\ SentInv' /\ WakeUp' /\ Counts'
  BY <1>2, <1>5, <1>6, CopyKeeps
<1>8. Driver'
  <2>1. frame' = frame /\ LengthOf(frame)' = LengthOf(frame) /\ Full' = Full /\ Off(Full)' = Off(Full)
    BY <1>2 DEF frame, LengthOf, Full, Off
  <2>2. Filled(0)'
    BY <1>1, <1>2, <1>3, <1>4, FilledAfter
  <2>3. Free(Full)'
    BY <1>2, <1>3, <2>1 DEF Free
  <2>4. framelength' = Off(Full) + bufferoffset'
    BY <1>2, <1>3
  <2>5. Full > 0 => bufferoffset' > 0
    BY <1>2, <1>3
  <2>6. framelength' + 0 + Total(chain) = LengthOf(frame)
    BY <1>2, <1>3
  <2>7. Copying'
    BY <1>2, <1>3, <2>1, <2>2, <2>3, <2>4, <2>5, <2>6 DEF Copying
  <2>8. Giving'
    BY <1>2 DEF Giving
  <2> QED BY <1>1, <1>2, <2>1, <2>7, <2>8 DEF Driver
<1> QED BY <1>6, <1>7, <1>8 DEF IInv

\* A pbuf is split between two buffers.
LEMMA CopySplitInv ==
  ASSUME IInv, CopySplit
  PROVE  IInv'
<1> DEFINE n == BufSize - bufferoffset
<1>1. TypeOK /\ WakeUp /\ Driver /\ Counts
  BY DEF IInv
<1>2. /\ pc = "copy" /\ left + bufferoffset > BufSize /\ Memcpy(n)
      /\ DmaTxDesc' = Nxt(DmaTxDesc)
      /\ UNCHANGED <<own, ctrl, tbus, tus, dma, cur, out, underflows, TxDesc, chain,
                     i, frames, accepted, sent>>
  BY DEF CopySplit, hwvars
<1>3. \/ /\ own[DmaTxDesc'] /\ errval' = "ERR_USE" /\ pc' = "tus"
         /\ UNCHANGED <<left, framelength, bufferoffset>>
      \/ /\ ~own[DmaTxDesc'] /\ left' = left - n /\ framelength' = framelength + n
         /\ bufferoffset' = 0 /\ pc' = "copy" /\ errval' = errval
  BY <1>2 DEF CopySplit
<1>4. /\ TxDesc \in Desc /\ DmaTxDesc \in Desc /\ Full \in Nat /\ Full < N /\ Off(Full) \in Nat
      /\ bufferoffset \in Nat /\ bufferoffset <= BufSize /\ framelength \in Nat /\ left \in Nat
      /\ BufSize \in Nat \ {0} /\ N \in Nat
      /\ Total(chain) \in Nat /\ LengthOf(frame) \in Nat /\ LengthOf(frame) <= Off(N)
      /\ framelength = Off(Full) + bufferoffset /\ Filled(0) /\ Free(Full) /\ ~own[DmaTxDesc]
      /\ Full > 0 => bufferoffset > 0 \/ left > 0
      /\ framelength + left + Total(chain) = LengthOf(frame)
  BY <1>1, <1>2, CopyTypes
<1>5. n \in Nat /\ bufferoffset + n <= BufSize /\ n < left /\ framelength + n = Off(Full) + BufSize
  BY <1>2, <1>4
<1> HIDE DEF n
<1>6. /\ buf' \in [Desc -> [1 .. BufSize -> Byte]]
      /\ \A d \in Desc \ {DmaTxDesc} : buf'[d] = buf[d]
  BY <1>1, <1>2, <1>5, MemcpyFacts
<1>7. /\ Full + 1 \in Nat /\ Off(Full + 1) = Off(Full) + BufSize /\ Off(Full + 1) \in Nat
      /\ Full + 1 < N
  <2>1. Full + 1 \in Nat /\ Off(Full + 1) = Off(Full) + BufSize /\ Off(Full + 1) \in Nat
    BY <1>4, OffFacts
  <2>2. Off(Full + 1) < Off(N)
    BY <1>4, <1>5, <2>1, OffFacts
  <2>3. ~(N <= Full + 1)
    <3>1. N <= Full + 1 => Off(N) <= Off(Full + 1)
      BY <1>4, <2>1, OffFacts
    <3> QED BY <1>4, <2>1, <2>2, <3>1, OffFacts
  <2> QED BY <1>4, <2>1, <2>3
<1>8. TypeOK'
  <2>1. Off(N) = N * BufSize /\ Off(N) \in Nat
    BY <1>4, OffFacts
  <2>2. 0 \in 0 .. BufSize /\ framelength + n \in 0 .. N * BufSize /\ left - n \in Nat
    BY <1>4, <1>5, <2>1
  <2>3. Nxt(DmaTxDesc) \in Desc
    BY <1>4, NxtFacts
  <2> QED BY <1>1, <1>2, <1>3, <1>6, <2>2, <2>3 DEF TypeOK
<1>9. RingInv' /\ Segments' /\ Engine' /\ SentInv' /\ WakeUp' /\ Counts'
  BY <1>2, <1>3, <1>6, <1>8, CopyKeeps
<1>10. Driver'
  <2>1. frame' = frame /\ LengthOf(frame)' = LengthOf(frame)
    BY <1>2 DEF frame, LengthOf
  <2>2. Giving'
    BY <1>3 DEF Giving
  <2>3. Copying'
    <3> SUFFICES ASSUME pc' = "copy" PROVE Copying'
      BY <1>3 DEF Copying
    <3>1. /\ ~own[DmaTxDesc'] /\ left' = left - n /\ framelength' = framelength + n
          /\ bufferoffset' = 0
      BY <1>3
    <3>2. Full' = Full + 1
      BY <1>2, <1>4, <1>7, DistFacts DEF Full
    <3>3. Filled(0)'
      BY <1>1, <1>2, <1>5, <3>1, FilledAfter
    <3>4. Free(Full)'
      <4> SUFFICES ASSUME NEW d \in Desc, Dist(TxDesc, d) < Full + 1 PROVE ~own[d]
        BY <1>2, <3>2 DEF Free
      <4>1. CASE d = DmaTxDesc
        BY <1>4, <4>1
      <4>2. CASE d # DmaTxDesc
        <5>1. Dist(TxDesc, d) # Full /\ Dist(TxDesc, d) \in Nat
          BY <1>4, <4>2, DistUnique, DistFacts DEF Full
        <5>2. Dist(TxDesc, d) < Full
          BY <1>4, <5>1
        <5> QED BY <1>4, <5>2 DEF Free
      <4> QED BY <4>1, <4>2
    <3>5. framelength' = Off(Full + 1) + bufferoffset'
      BY <1>5, <1>7, <3>1
    <3>6. framelength' + left' + Total(chain) = LengthOf(frame)
      BY <1>4, <1>5, <3>1
    <3>7. left' > 0
      BY <1>4, <1>5, <3>1
    <3>8. Off(Full)' = Off(Full + 1)
      BY <3>2 DEF Off
    <3> QED BY <1>2, <2>1, <3>1, <3>2, <3>3, <3>4, <3>5, <3>6, <3>7, <3>8 DEF Copying
  <2> QED BY <1>1, <1>2, <1>3, <2>1, <2>2, <2>3 DEF Driver
<1> QED BY <1>8, <1>9, <1>10 DEF IInv

\* HAL_ETH_TransmitFrame() is called, and refuses nothing: the frame is not empty
\* and its first descriptor was seen free.
LEMMA TransmitFrameInv ==
  ASSUME IInv, TransmitFrame
  PROVE  IInv'
<1>1. TypeOK /\ WakeUp /\ Driver /\ Counts
  BY DEF IInv
<1>2. /\ pc = "check" /\ chain = <<>> /\ errval' = "ERR_OK" /\ i' = 0
      /\ pc' = IF framelength = 0 \/ own[TxDesc] THEN "tus" ELSE "give"
      /\ UNCHANGED <<own, ctrl, buf, tbus, tus, dma, cur, out, underflows, TxDesc, chain, left,
                     DmaTxDesc, bufferoffset, framelength, frames, accepted, sent>>
  BY DEF TransmitFrame, hwvars
<1>3. /\ framelength = Off(Full) + bufferoffset /\ Filled(0) /\ Free(Full)
      /\ bufferoffset > 0 => ~own[DmaTxDesc]
      /\ Full > 0 => bufferoffset > 0
      /\ framelength + 0 + Total(chain) = LengthOf(frame)
  BY <1>1, <1>2 DEF Driver, Copying
<1>4. /\ TxDesc \in Desc /\ DmaTxDesc \in Desc /\ frame \in Nat
      /\ LengthOf(frame) \in Nat /\ LengthOf(frame) >= 1
  <2>1. frame \in 1 .. frame /\ frame \in Nat
    BY <1>1, <1>2, Types DEF Driver
  <2>2. LengthOf(frame) \in 1 .. N * BufSize /\ N * BufSize \in Nat
    BY <1>1, <2>1, Types, NAssumption, BufSizeAssumption
  <2> QED BY <1>1, <2>1, <2>2, Types
<1>5. /\ bufferoffset \in 0 .. BufSize /\ framelength \in Nat /\ BufSize \in Nat \ {0} /\ N \in Nat
      /\ N * BufSize \in Nat
  BY <1>1, NAssumption, BufSizeAssumption DEF TypeOK
<1>6. Full \in Nat /\ Full < N /\ Off(Full) \in Nat /\ Off(0) = 0
  <2>1. Full \in Nat /\ Full < N
    BY <1>4, DistFacts DEF Full
  <2> QED BY <2>1, OffFacts
<1>7. framelength = LengthOf(frame)
  <2>1. Total(chain) = 0
    <3>1. chain \in Seq(Nat)
      BY <1>1 DEF TypeOK
    <3> QED BY <1>2, <3>1, TotalFacts
  <2> QED BY <1>3, <1>5, <2>1
<1>8. bufferoffset \in 1 .. BufSize
  <2>1. bufferoffset > 0
    <3>1. CASE Full = 0
      BY <1>3, <1>4, <1>5, <1>6, <1>7, <3>1
    <3>2. CASE Full # 0
      BY <1>3, <1>6, <3>2
    <3> QED BY <3>1, <3>2
  <2> QED BY <1>5, <2>1
<1>9. bufcount = Full + 1
  BY <1>3, <1>6, <1>8, CountFacts
<1>10. Free(Full + 1)
  <2> SUFFICES ASSUME NEW d \in Desc, Dist(TxDesc, d) < Full + 1 PROVE ~own[d]
    BY DEF Free
  <2>1. CASE d = DmaTxDesc
    BY <1>3, <1>8, <2>1
  <2>2. CASE d # DmaTxDesc
    <3>1. Dist(TxDesc, d) # Full /\ Dist(TxDesc, d) \in Nat
      BY <1>4, <2>2, DistUnique, DistFacts DEF Full
    <3>2. Dist(TxDesc, d) < Full
      BY <1>6, <3>1
    <3> QED BY <1>3, <3>2 DEF Free
  <2> QED BY <2>1, <2>2
<1>11. ~own[TxDesc] /\ framelength # 0
  <2>1. Dist(TxDesc, TxDesc) = 0
    BY <1>4, DistFacts
  <2>2. Dist(TxDesc, TxDesc) < Full + 1
    BY <1>6, <2>1
  <2> QED BY <1>4, <1>7, <1>10, <2>2 DEF Free
<1>12. pc' = "give"
  BY <1>2, <1>11
<1>13. TypeOK'
  BY <1>1, <1>2, <1>12, NAssumption DEF TypeOK
<1>14. frame' = frame /\ bufcount' = bufcount
  BY <1>2 DEF frame, bufcount
<1>15. FramesKept
  BY <1>2, <1>4, <1>14 DEF FramesKept
<1>16. ~Complete /\ ~Complete' /\ ~Partial /\ ~Partial' /\ Fresh
  BY <1>2, <1>6, <1>9, <1>12, <1>14 DEF Complete, Partial, Fresh
<1>17. PhaseKept
  <2>1. \A f \in 1 .. frame : Given(f) => Given(f)'
    BY <1>2, <1>16 DEF Given
  <2> QED BY <1>14, <1>16, <2>1 DEF PhaseKept
<1>18. RingInv' /\ Segments' /\ Engine' /\ SentInv'
  BY <1>2, <1>13, <1>15, <1>17, Keeps
<1>19. WakeUp'
  BY <1>1, <1>2, <1>12 DEF WakeUp
<1>20. Counts'
  BY <1>1, <1>2, <1>16, CountsKept
<1>21. Driver'
  <2>1. Copying'
    BY <1>12 DEF Copying
  <2>2. /\ LengthOf(frame)' = LengthOf(frame) /\ Filled(0)' /\ Free(Full + 1)'
        /\ Off(bufcount - 1)' = Off(Full) /\ Off(bufcount)' = Off(Full + 1)
        /\ Filled(i)'
    <3>1. Filled(0)'
      BY <1>2, <1>3, <1>14 DEF Filled
    <3>2. (Full + 1) - 1 = Full
      BY <1>6
    <3>3. Filled(i)'
      BY <1>2, <3>1 DEF Filled
    <3>4. Full' = Full
      BY <1>2 DEF Full
    <3>5. Free(Full + 1)'
      BY <1>2, <1>10, <3>4 DEF Free
    <3> QED BY <1>2, <1>9, <1>14, <3>1, <3>2, <3>3, <3>5 DEF LengthOf, Off
  <2>3. Off(Full + 1) = Off(Full) + BufSize
    BY <1>6, OffFacts
  <2>4. Off(Full) < framelength /\ framelength <= Off(Full + 1)
    BY <1>3, <1>5, <1>6, <1>8, <2>3
  <2>5. Free(bufcount - i)'
    <3>1. (bufcount - i)' = Full + 1
      BY <1>2, <1>6, <1>9, <1>14
    <3>2. Full' = Full
      BY <1>2 DEF Full
    <3> QED BY <2>2, <3>1, <3>2 DEF Free
  <2>6. Giving'
    BY <1>2, <1>5, <1>6, <1>7, <1>9, <1>14, <2>2, <2>4, <2>5 DEF Giving
  <2> QED BY <1>1, <1>2, <1>12, <1>14, <2>1, <2>6 DEF Driver
<1> QED BY <1>13, <1>18, <1>19, <1>20, <1>21 DEF IInv

\* Steps after the last descriptor was given: the frame stays complete.
LEMMA DoneKeeps ==
  ASSUME IInv, TypeOK', Complete, Complete', pc' # "give",
         UNCHANGED <<own, ctrl, buf, cur, out, underflows, TxDesc, frames, accepted, sent>>
  PROVE  RingInv' /\ Segments' /\ Engine' /\ SentInv' /\ Counts'
<1>1. TypeOK /\ Driver /\ Counts
  BY DEF IInv
<1>2. frame' = frame /\ frame \in Nat
  BY <1>1, Types DEF frame
<1>3. FramesKept
  BY <1>2 DEF FramesKept
<1>4. ~Partial /\ ~Partial' /\ ~Fresh'
  <2>0. i \in Nat /\ ~(i < i)
    BY <1>1, NAssumption DEF TypeOK
  <2>1. ~Partial
    BY <2>0 DEF Complete, Partial
  <2> QED BY <2>1 DEF Complete, Partial, Fresh
<1>5. PhaseKept
  <2>1. \A f \in 1 .. frame : Given(f) => Given(f)'
    BY <1>2 DEF Given
  <2> QED BY <1>4, <2>1 DEF PhaseKept
<1>6. RingInv' /\ Segments' /\ Engine' /\ SentInv'
  BY <1>3, <1>5, Keeps
<1> QED BY <1>1, <1>6, CountsKept

\* TBUS is tested.
LEMMA TestTbusInv ==
  ASSUME IInv, TestTbus
  PROVE  IInv'
<1>1. TypeOK /\ WakeUp /\ Driver
  BY DEF IInv
<1>2. /\ pc = "give" /\ i = bufcount /\ pc' = IF tbus THEN "tbusdemand" ELSE "tus"
      /\ tbus' = FALSE
      /\ UNCHANGED <<own, ctrl, buf, tus, dma, cur, out, underflows, TxDesc, chain, left,
                     DmaTxDesc, bufferoffset, framelength, i, errval, frames, accepted, sent>>
  BY DEF TestTbus
<1>3. TypeOK'
  BY <1>1, <1>2 DEF TypeOK
<1>4. errval = "ERR_OK"
  BY <1>1, <1>2 DEF Driver
<1>5. Complete /\ Complete' /\ pc' # "give"
  BY <1>2, <1>4 DEF Complete
<1>6. RingInv' /\ Segments' /\ Engine' /\ SentInv' /\ Counts'
  BY <1>2, <1>3, <1>5, DoneKeeps
<1>7. WakeUp'
  BY <1>1, <1>2 DEF WakeUp
<1>8. Driver'
  BY <1>1, <1>2, <1>4 DEF Driver, Copying, Giving, frame
<1> QED BY <1>3, <1>6, <1>7, <1>8 DEF IInv

\* The poll demand after TBUS
LEMMA TbusDemandInv ==
  ASSUME IInv, TbusDemand
  PROVE  IInv'
<1>1. TypeOK /\ WakeUp /\ Driver
  BY DEF IInv
<1>2. /\ pc = "tbusdemand" /\ dma' = "run" /\ pc' = "tus"
      /\ UNCHANGED <<own, ctrl, buf, tbus, tus, cur, out, underflows, TxDesc, chain, left,
                     DmaTxDesc, bufferoffset, framelength, i, errval, frames, accepted, sent>>
  BY DEF TbusDemand, PollDemand
<1>3. TypeOK'
  BY <1>1, <1>2 DEF TypeOK
<1>4. errval = "ERR_OK"
  BY <1>1, <1>2 DEF Driver
<1>5. Complete /\ Complete' /\ pc' # "give"
  BY <1>2, <1>4 DEF Complete
<1>6. RingInv' /\ Segments' /\ Engine' /\ SentInv' /\ Counts'
  BY <1>2, <1>3, <1>5, DoneKeeps
<1>7. WakeUp'
  BY <1>2 DEF WakeUp
<1>8. Driver'
  BY <1>1, <1>2, <1>4 DEF Driver, Copying, Giving, frame
<1> QED BY <1>3, <1>6, <1>7, <1>8 DEF IInv

\* An underflow is acknowledged.
LEMMA TusSetInv ==
  ASSUME IInv, TusSet
  PROVE  IInv'
<1>1. TypeOK /\ WakeUp /\ Driver /\ Counts
  BY DEF IInv
<1>2. /\ pc = "tus" /\ tus' = FALSE /\ pc' = "tusdemand"
      /\ UNCHANGED <<own, ctrl, buf, tbus, dma, cur, out, underflows, TxDesc, chain, left,
                     DmaTxDesc, bufferoffset, framelength, i, errval, frames, accepted, sent>>
  BY DEF TusSet
<1>3. TypeOK'
  BY <1>1, <1>2 DEF TypeOK
<1>4. frame' = frame /\ frame \in Nat
  BY <1>1, <1>2, Types DEF frame
<1>5. FramesKept
  BY <1>2, <1>4 DEF FramesKept
<1>6. ~Partial /\ ~Partial' /\ ~Fresh' /\ (Complete' <=> Complete)
  BY <1>2 DEF Complete, Partial, Fresh
<1>7. PhaseKept
  <2>1. \A f \in 1 .. frame : Given(f) => Given(f)'
    BY <1>2, <1>4, <1>6 DEF Given
  <2> QED BY <1>6, <2>1 DEF PhaseKept
<1>8. RingInv' /\ Segments' /\ Engine' /\ SentInv'
  BY <1>2, <1>3, <1>5, <1>7, Keeps
<1>9. Counts'
  BY <1>1, <1>2, <1>6, CountsKept
<1>10. WakeUp'
  BY <1>2 DEF WakeUp
<1>11. Driver'
  BY <1>1, <1>2 DEF Driver, Copying, Giving, frame
<1> QED BY <1>3, <1>8, <1>9, <1>10, <1>11 DEF IInv

\* low_level_output() returns; with ERR_OK, the frame is one more that is accepted.
LEMMA ReturnKeeps ==
  ASSUME IInv, pc \in {"tus", "tusdemand"}, Return, tbus' \in BOOLEAN, tus' \in BOOLEAN,
         dma' \in {"run", "suspended"},
         UNCHANGED <<own, ctrl, buf, cur, out, underflows, TxDesc, chain, left, DmaTxDesc,
                     bufferoffset, framelength, i, errval, frames, sent>>
  PROVE  TypeOK' /\ RingInv' /\ Segments' /\ Engine' /\ Driver' /\ SentInv' /\ Counts'
<1>1. TypeOK /\ Driver /\ Counts
  BY DEF IInv
<1>2. pc' = "idle" /\ accepted' = IF errval = "ERR_OK" THEN Append(accepted, frame) ELSE accepted
  BY DEF Return
<1>3. frame' = frame /\ frame \in Nat /\ frame \in 1 .. MaxFrames /\ accepted \in Seq(1 .. MaxFrames)
  <2>1. frame' = frame /\ frame \in Nat
    BY <1>1, Types DEF frame
  <2>2. accepted \in Seq(1 .. MaxFrames) /\ pc # "idle"
    BY <1>1 DEF TypeOK
  <2> QED BY <1>1, <2>1, <2>2, BoundsAssumption DEF Driver
<1>4. TypeOK'
  <2> DEFINE S == 1 .. MaxFrames
  <2>0. accepted \in Seq(S) /\ frame \in S
    BY <1>3
  <2> HIDE DEF S
  <2>1. accepted' \in Seq(S)
    BY <1>2, <2>0
  <2> USE DEF S
  <2> QED BY <1>1, <1>2, <2>1 DEF TypeOK
<1>5. FramesKept
  BY <1>3 DEF FramesKept
<1>6. ~Partial /\ ~Partial' /\ ~Fresh' /\ ~Complete' /\ (Complete <=> errval = "ERR_OK")
  BY <1>2 DEF Complete, Partial, Fresh
<1>7. PhaseKept
  <2>1. ASSUME NEW f \in 1 .. frame, Given(f)
        PROVE  Given(f)'
    <3>1. CASE errval = "ERR_OK"
      <4>1. /\ DOMAIN accepted = 1 .. Len(accepted) /\ DOMAIN accepted' = 1 .. Len(accepted) + 1
            /\ Len(accepted) \in Nat /\ accepted'[Len(accepted) + 1] = frame
            /\ \A j \in DOMAIN accepted : accepted'[j] = accepted[j]
        BY <1>2, <1>3, <3>1
      <4>2. \E j \in DOMAIN accepted' : accepted'[j] = f
        <5>1. CASE f = frame
          BY <4>1, <5>1
        <5>2. CASE f # frame
          <6>1. PICK j \in DOMAIN accepted : accepted[j] = f
            BY <2>1, <5>2 DEF Given
          <6> QED BY <4>1, <6>1
        <5> QED BY <5>1, <5>2
      <4> QED BY <4>2 DEF Given
    <3>2. CASE errval # "ERR_OK"
      <4>1. \E j \in DOMAIN accepted : accepted[j] = f
        BY <1>6, <2>1, <3>2 DEF Given
      <4> QED BY <1>2, <3>2, <4>1 DEF Given
    <3> QED BY <3>1, <3>2
  <2> QED BY <1>6, <2>1 DEF PhaseKept
<1>8. RingInv' /\ Segments' /\ Engine' /\ SentInv'
  BY <1>4, <1>5, <1>7, Keeps
<1>9. Counts'
  <2>1. Lasts' = Lasts
    BY DEF Lasts
  <2>2. Len(accepted') = Len(accepted) + (IF Complete THEN 1 ELSE 0)
    BY <1>2, <1>3, <1>6
  <2>3. Len(accepted') + 0 = Len(accepted') /\ Len(accepted') \in Nat
    BY <1>4 DEF TypeOK
  <2> QED BY <1>1, <1>6, <2>1, <2>2, <2>3 DEF Counts
<1>10. Driver'
  BY <1>1, <1>2, <1>3 DEF Driver, Copying, Giving
<1> QED BY <1>4, <1>8, <1>9, <1>10

\* The call ends and no underflow was reported.
LEMMA TusClearInv ==
  ASSUME IInv, TusClear
  PROVE  IInv'
<1>1. TypeOK /\ WakeUp
  BY DEF IInv
<1>2. /\ pc = "tus" /\ ~tus /\ Return
      /\ UNCHANGED <<own, ctrl, buf, tbus, tus, dma, cur, out, underflows, TxDesc, chain, left,
                     DmaTxDesc, bufferoffset, framelength, i, errval, frames, sent>>
  BY DEF TusClear, hwvars
<1>3. tbus' \in BOOLEAN /\ tus' \in BOOLEAN /\ dma' \in {"run", "suspended"}
  BY <1>1, <1>2 DEF TypeOK
<1>4. TypeOK' /\ RingInv' /\ Segments' /\ Engine' /\ Driver' /\ SentInv' /\ Counts'
  BY <1>2, <1>3, ReturnKeeps
<1>5. WakeUp'
  BY <1>1, <1>2 DEF WakeUp
<1> QED BY <1>4, <1>5 DEF IInv

\* The poll demand after an underflow, and the end of the call
LEMMA TusDemandInv ==
  ASSUME IInv, TusDemand
  PROVE  IInv'
<1>1. TypeOK
  BY DEF IInv
<1>2. /\ pc = "tusdemand" /\ dma' = "run" /\ Return
      /\ UNCHANGED <<own, ctrl, buf, tbus, tus, cur, out, underflows, TxDesc, chain, left,
                     DmaTxDesc, bufferoffset, framelength, i, errval, frames, sent>>
  BY DEF TusDemand, PollDemand
<1>3. tbus' \in BOOLEAN /\ tus' \in BOOLEAN /\ dma' \in {"run", "suspended"}
  BY <1>1, <1>2 DEF TypeOK
<1>4. TypeOK' /\ RingInv' /\ Segments' /\ Engine' /\ Driver' /\ SentInv' /\ Counts'
  BY <1>2, <1>3, ReturnKeeps
<1>5. WakeUp'
  BY <1>2 DEF WakeUp
<1> QED BY <1>4, <1>5 DEF IInv

\* What the driver has seen and copied stays true while the engine gives
\* descriptors back.
LEMMA DriverKept ==
  ASSUME TypeOK, Driver, UNCHANGED <<TxDesc, pc, chain, left, DmaTxDesc, bufferoffset, framelength,
                             i, errval, buf, frames>>,
         \A d \in Desc : own'[d] => own[d]
  PROVE  Driver'
<1>1. frame' = frame /\ bufcount' = bufcount /\ Full' = Full /\ DmaTxDesc \in Desc
  BY DEF frame, bufcount, Full, TypeOK
<1>2. LengthOf(frame)' = LengthOf(frame) /\ Off(Full)' = Off(Full)
  BY <1>1 DEF LengthOf, Off
<1>3. Filled(0) => Filled(0)'
  BY <1>1 DEF Filled
<1>4. Filled(i) => Filled(i)'
  BY <1>1 DEF Filled
<1>5. Free(Full) => Free(Full)'
  BY <1>1 DEF Free
<1>6. Free(bufcount - i) => Free(bufcount - i)'
  BY <1>1 DEF Free
<1>7. Copying'
  BY <1>1, <1>2, <1>3, <1>5 DEF Driver, Copying
<1>8. Off(bufcount - 1)' = Off(bufcount - 1) /\ Off(bufcount)' = Off(bufcount)
  BY <1>1 DEF Off
<1>9. Giving'
  BY <1>1, <1>2, <1>4, <1>6, <1>8 DEF Driver, Giving
<1> QED BY <1>1, <1>7, <1>9 DEF Driver

\* The engine finds nothing to send.
LEMMA DmaSuspendInv ==
  ASSUME IInv, DmaSuspend
  PROVE  IInv'
<1>1. TypeOK /\ Driver /\ Counts
  BY DEF IInv
<1>2. /\ ~own[cur] /\ dma' = "suspended" /\ tbus' = TRUE
      /\ UNCHANGED <<own, ctrl, buf, tus, cur, out, underflows, TxDesc, pc, chain, left,
                     DmaTxDesc, bufferoffset, framelength, i, errval, frames, accepted, sent>>
  BY DEF DmaSuspend, cpuvars
<1>3. TypeOK'
  BY <1>1, <1>2 DEF TypeOK
<1>4. frame' = frame /\ frame \in Nat /\ bufcount' = bufcount
  BY <1>1, <1>2, Types DEF frame, bufcount
<1>5. FramesKept
  BY <1>2, <1>4 DEF FramesKept
<1>6. (Partial' <=> Partial) /\ (Fresh' <=> Fresh) /\ (Complete' <=> Complete)
  BY <1>2, <1>4 DEF Complete, Partial, Fresh
<1>7. PhaseKept
  <2>1. \A f \in 1 .. frame : Given(f) => Given(f)'
    BY <1>2, <1>4, <1>6 DEF Given
  <2> QED BY <1>2, <1>4, <1>6, <2>1 DEF PhaseKept
<1>8. RingInv' /\ Segments' /\ Engine' /\ SentInv'
  BY <1>2, <1>3, <1>5, <1>7, Keeps
<1>9. Counts'
  BY <1>1, <1>2, <1>6, CountsKept
<1>10. WakeUp'
  BY <1>2 DEF WakeUp
<1>11. Driver'
  BY <1>1, <1>2, <1>3, DriverKept
<1> QED BY <1>3, <1>8, <1>9, <1>10, <1>11 DEF IInv

----------------------------------------------------------------------------
(* A descriptor is given to the engine.                                    *)

\* The next descriptor is free, and its buffer holds the segment that begins
\* after i full buffers.
LEMMA GiveFacts ==
  ASSUME TypeOK, Driver, pc = "give", i < bufcount
  PROVE  /\ i \in Nat /\ bufcount \in Nat /\ bufcount <= N /\ N \in Nat /\ BufSize \in Nat \ {0}
         /\ framelength \in Nat /\ framelength = LengthOf(frame) /\ frame \in Nat /\ frame >= 1
         /\ Off(i) \in Nat /\ Off(i) < framelength /\ framelength <= Off(N)
         /\ ~own[TxDesc]
         /\ i = bufcount - 1 <=> framelength <= Off(i) + BufSize
         /\ (bufcount - 1) * BufSize = Off(bufcount - 1)
         /\ FrameOf(TxDesc) = frame /\ Base(TxDesc) = Off(i)
         /\ \A b \in 1 .. BufSize : Off(i) + b <= framelength => buf[TxDesc][b] = <<frame, Off(i) + b>>
<1>1. /\ i \in Nat /\ N \in Nat /\ BufSize \in Nat \ {0} /\ framelength \in Nat
      /\ N * BufSize \in Nat /\ framelength <= N * BufSize
  BY NAssumption, BufSizeAssumption DEF TypeOK
<1>2. frame \in Nat /\ frame >= 1 /\ TxDesc \in Desc
  BY Types DEF Driver
<1>3. /\ framelength = LengthOf(frame) /\ bufcount \in 1 .. N /\ Off(bufcount - 1) < framelength
      /\ framelength <= Off(bufcount) /\ Filled(i) /\ Free(bufcount - i)
  BY DEF Driver, Giving
<1>4. bufcount \in Nat /\ bufcount <= N /\ bufcount - 1 \in Nat
  BY <1>1, <1>3
<1>5. Dist(TxDesc, TxDesc) = 0
  BY <1>2, DistFacts
<1>6. ~own[TxDesc]
  <2>1. Dist(TxDesc, TxDesc) < bufcount - i
    BY <1>1, <1>4, <1>5
  <2> QED BY <1>2, <1>3, <2>1 DEF Free
<1>7. Off(i) \in Nat /\ Off(i) < framelength /\ (i = bufcount - 1 <=> framelength <= Off(i) + BufSize)
  <2>1. Off(i) \in Nat /\ Off(bufcount - 1) \in Nat
    BY <1>1, <1>4, OffFacts
  <2>2. CASE i = bufcount - 1
    <3>1. Off(bufcount) = Off(i) + BufSize
      <4>1. bufcount = i + 1
        BY <1>1, <1>4, <2>2
      <4> QED BY <1>1, <4>1, OffFacts
    <3> QED BY <1>3, <2>1, <2>2, <3>1
  <2>3. CASE i # bufcount - 1
    <3>1. i < bufcount - 1
      BY <1>1, <1>4, <2>3
    <3>2. Off(i) + BufSize <= Off(bufcount - 1)
      BY <1>1, <1>4, <3>1, OffFacts
    <3> QED BY <1>1, <1>3, <2>1, <2>3, <3>2
  <2> QED BY <2>2, <2>3
<1>8. \A b \in 1 .. BufSize : Off(i) + b <= framelength => buf[TxDesc][b] = <<frame, Off(i) + b>>
  <2>1. i + Dist(TxDesc, TxDesc) = i
    BY <1>1, <1>5
  <2> QED BY <1>2, <1>3, <2>1 DEF Filled
<1>9. FrameOf(TxDesc) = frame /\ Base(TxDesc) = Off(i)
  <2>1. 1 \in 1 .. BufSize /\ Off(i) + 1 <= framelength
    BY <1>1, <1>7
  <2>2. buf[TxDesc][1] = <<frame, Off(i) + 1>>
    BY <1>8, <2>1
  <2>3. buf[TxDesc][1][1] = frame /\ buf[TxDesc][1][2] = Off(i) + 1
    BY <2>2
  <2> QED BY <1>7, <2>3 DEF FrameOf, Base
<1>10. framelength <= Off(N) /\ (bufcount - 1) * BufSize = Off(bufcount - 1)
  BY <1>1 DEF Off
<1> QED BY <1>1, <1>2, <1>3, <1>4, <1>6, <1>7, <1>8, <1>9, <1>10

\* The window grows by the descriptor at its end.
LEMMA WindowGrows ==
  ASSUME TypeOK, RingInv, ~own[TxDesc], own' = [own EXCEPT ![TxDesc] = TRUE],
         TxDesc' = Nxt(TxDesc), cur' = cur
  PROVE  RingInv'
<1>1. cur \in Desc /\ TxDesc \in Desc /\ N \in Nat /\ N >= 2 /\ own \in [Desc -> BOOLEAN]
  BY NAssumption DEF TypeOK
<1>2. PICK q \in 0 .. N : TxDesc = Plus(cur, q) /\ \A d \in Desc : own[d] <=> Dist(cur, d) < q
  BY DEF RingInv, Window
<1>3. q < N
  <2>1. q # N
    <3> SUFFICES ASSUME q = N PROVE FALSE
      OBVIOUS
    <3>1. TxDesc = cur
      BY <1>1, <1>2, PlusFacts
    <3>2. Dist(cur, cur) = 0
      BY <1>1, DistFacts
    <3> QED BY <1>1, <1>2, <3>1, <3>2
  <2> QED BY <1>1, <2>1
<1>4. q + 1 \in 0 .. N /\ Dist(cur, TxDesc) = q /\ Nxt(TxDesc) = Plus(cur, q + 1)
  BY <1>1, <1>2, <1>3, PlusFacts
<1>5. ASSUME NEW d \in Desc
      PROVE  own'[d] <=> Dist(cur, d) < q + 1
  <2>1. Dist(cur, d) \in Nat
    BY <1>1, DistFacts
  <2>2. CASE d = TxDesc
    BY <1>1, <1>4, <2>1, <2>2
  <2>3. CASE d # TxDesc
    <3>1. Dist(cur, d) # q
      BY <1>1, <1>4, <2>3, DistUnique
    <3>2. own'[d] <=> own[d]
      BY <1>1, <2>3
    <3> QED BY <1>2, <2>1, <3>1, <3>2
  <2> QED BY <2>2, <2>3
<1>6. \E r \in 0 .. N : Nxt(TxDesc) = Plus(cur, r) /\ \A d \in Desc : own'[d] <=> Dist(cur, d) < r
  BY <1>4, <1>5
<1> QED BY <1>6 DEF RingInv, Window

\* The buffers after the given one hold the rest of the frame, and are free.
LEMMA GiveDriver ==
  ASSUME TypeOK, Driver, GiveDesc
  PROVE  Driver'
<1>1. /\ pc = "give" /\ i < bufcount /\ own' = [own EXCEPT ![TxDesc] = TRUE]
      /\ TxDesc' = Nxt(TxDesc) /\ i' = i + 1
      /\ UNCHANGED <<buf, pc, chain, left, DmaTxDesc, bufferoffset, framelength, errval, frames>>
  BY DEF GiveDesc
<1>2. /\ i \in Nat /\ bufcount \in Nat /\ bufcount <= N /\ N \in Nat /\ BufSize \in Nat \ {0}
      /\ framelength \in Nat /\ framelength <= Off(N)
  BY <1>1, GiveFacts
<1>3. frame' = frame /\ bufcount' = bufcount /\ LengthOf(frame)' = LengthOf(frame)
  BY <1>1 DEF frame, bufcount, LengthOf
<1>4. Filled(i) /\ Free(bufcount - i) /\ TxDesc \in Desc /\ own \in [Desc -> BOOLEAN]
  BY <1>1 DEF Driver, Giving, TypeOK
<1>5. Filled(i)'
  <2> SUFFICES ASSUME NEW d \in Desc, NEW b \in 1 .. BufSize,
                      Off((i + 1) + Dist(Nxt(TxDesc), d)) + b <= framelength
               PROVE  buf[d][b] = <<frame, Off((i + 1) + Dist(Nxt(TxDesc), d)) + b>>
    BY <1>1, <1>3 DEF Filled
  <2>1. CASE d = TxDesc
    <3>1. (i + 1) + Dist(Nxt(TxDesc), d) = i + N
      BY <1>2, <1>4, <2>1, DistFacts
    <3>2. Off(N) <= Off(i + N) /\ Off(i + N) \in Nat /\ Off(N) \in Nat
      <4>1. i + N \in Nat /\ N <= i + N /\ N \in Nat
        BY <1>2
      <4>2. \A m \in Nat : N <= m => Off(N) <= Off(m) /\ Off(m) \in Nat
        BY <4>1, OffFacts
      <4> QED BY <4>1, <4>2
    <3>3. Off(i + N) + b <= framelength
      BY <3>1
    <3> QED BY <1>2, <3>2, <3>3
  <2>2. CASE d # TxDesc
    <3>1. (i + 1) + Dist(Nxt(TxDesc), d) = i + Dist(TxDesc, d)
      BY <1>2, <1>4, <2>2, DistFacts
    <3>2. Off(i + Dist(TxDesc, d)) + b <= framelength
      BY <3>1
    <3>3. buf[d][b] = <<frame, Off(i + Dist(TxDesc, d)) + b>>
      BY <1>4, <3>2 DEF Filled
    <3> QED BY <3>1, <3>3
  <2> QED BY <2>1, <2>2
<1>6. Free(bufcount - i)'
  <2> SUFFICES ASSUME NEW d \in Desc, Dist(Nxt(TxDesc), d) < bufcount - (i + 1)
               PROVE  ~own'[d]
    BY <1>1, <1>3 DEF Free
  <2>1. d # TxDesc
    BY <1>2, <1>4, DistFacts
  <2>2. Dist(TxDesc, d) < bufcount - i
    BY <1>2, <1>4, <2>1, DistFacts
  <2> QED BY <1>1, <1>4, <2>1, <2>2 DEF Free
<1>7. Off(bufcount - 1)' = Off(bufcount - 1) /\ Off(bufcount)' = Off(bufcount)
  BY <1>3 DEF Off
<1>8. i + 1 <= bufcount
  BY <1>1, <1>2
<1>9. Giving'
  BY <1>1, <1>3, <1>5, <1>6, <1>7, <1>8 DEF Driver, Giving
<1>10. Copying'
  BY <1>1 DEF Copying
<1> QED BY <1>1, <1>3, <1>9, <1>10 DEF Driver

\* Nothing has been sent of a frame before it is begun.
LEMMA PrefixEmpty == \A f : Prefix(f, 0) = <<>>
BY DEF Prefix

\* The descriptor gets its segment bits and its size and is given.
LEMMA GiveSegments ==
  ASSUME IInv, GiveDesc
  PROVE  /\ TypeOK' /\ Segments'
         /\ \A d \in Desc : own[d] => FrameOf(d)' = FrameOf(d) /\ Base(d)' = Base(d)
         /\ \A f \in 1 .. frame : Given(f) => Given(f)'
<1>1. TypeOK /\ RingInv /\ Segments /\ Driver
  BY DEF IInv
<1> DEFINE last == i = bufcount - 1
           seg == [fs |-> i = 0, ls |-> last,
                   size |-> IF last THEN framelength - (bufcount - 1) * BufSize ELSE BufSize]
<1>2. /\ pc = "give" /\ i < bufcount /\ own' = [own EXCEPT ![TxDesc] = TRUE]
      /\ ctrl' = [ctrl EXCEPT ![TxDesc] = seg]
      /\ TxDesc' = Nxt(TxDesc) /\ i' = i + 1
      /\ UNCHANGED <<buf, tbus, tus, dma, cur, out, underflows, pc, chain, left, DmaTxDesc,
                     bufferoffset, framelength, errval, frames, accepted, sent>>
  BY DEF GiveDesc, hwvars
<1>3. /\ i \in Nat /\ bufcount \in Nat /\ bufcount <= N /\ N \in Nat /\ BufSize \in Nat \ {0}
      /\ framelength \in Nat /\ framelength = LengthOf(frame) /\ frame \in Nat /\ frame >= 1
      /\ Off(i) \in Nat /\ Off(i) < framelength /\ framelength <= Off(N)
      /\ ~own[TxDesc]
      /\ last <=> framelength <= Off(i) + BufSize
      /\ (bufcount - 1) * BufSize = Off(bufcount - 1)
      /\ FrameOf(TxDesc) = frame /\ Base(TxDesc) = Off(i)
      /\ \A b \in 1 .. BufSize : Off(i) + b <= framelength => buf[TxDesc][b] = <<frame, Off(i) + b>>
  BY <1>1, <1>2, GiveFacts
<1>4. /\ own \in [Desc -> BOOLEAN] /\ TxDesc \in Desc /\ cur \in Desc /\ Nxt(TxDesc) \in Desc
      /\ ctrl \in [Desc -> [fs : BOOLEAN, ls : BOOLEAN, size : 0 .. BufSize]]
  BY <1>1, NxtFacts DEF TypeOK
<1> DEFINE size == IF last THEN framelength - Off(i) ELSE BufSize
<1>5. /\ size \in 0 .. BufSize /\ seg.size = size /\ (seg.fs <=> i = 0) /\ (seg.ls <=> last)
      /\ seg \in [fs : BOOLEAN, ls : BOOLEAN, size : 0 .. BufSize]
      /\ \A b \in 1 .. size : b \in 1 .. BufSize /\ Off(i) + b <= framelength
  <2>1. last => (bufcount - 1) * BufSize = Off(i)
    BY <1>3
  <2>2. size \in 0 .. BufSize /\ \A b \in 1 .. size : b \in 1 .. BufSize /\ Off(i) + b <= framelength
    <3> HIDE DEF last
    <3> QED BY <1>3
  <2>3. seg.size = size
    <3> HIDE DEF last
    <3> QED BY <2>1
  <2>4. (i = 0) \in BOOLEAN /\ last \in BOOLEAN
    OBVIOUS
  <2>5. seg \in [fs : BOOLEAN, ls : BOOLEAN, size : 0 .. BufSize]
    <3>1. (IF last THEN framelength - (bufcount - 1) * BufSize ELSE BufSize) \in 0 .. BufSize
      BY <2>2, <2>3
    <3> HIDE DEF last
    <3> QED BY <2>4, <3>1
  <2> QED BY <2>2, <2>3, <2>5
<1> HIDE DEF seg, size
<1>6. /\ own'[TxDesc] /\ ctrl'[TxDesc] = seg
      /\ \A d \in Desc \ {TxDesc} : own'[d] = own[d] /\ ctrl'[d] = ctrl[d]
  BY <1>2, <1>4
<1>7. TypeOK'
  <2>1. ctrl' \in [Desc -> [fs : BOOLEAN, ls : BOOLEAN, size : 0 .. BufSize]]
    BY <1>2, <1>4, <1>5
  <2>2. own' \in [Desc -> BOOLEAN]
    BY <1>2, <1>4
  <2>3. i + 1 \in 0 .. N
    BY <1>2, <1>3
  <2> QED BY <1>1, <1>2, <1>4, <2>1, <2>2, <2>3 DEF TypeOK
<1>8. frame' = frame /\ bufcount' = bufcount
  BY <1>2 DEF frame, bufcount
<1>9. FramesKept
  BY <1>2, <1>3, <1>8 DEF FramesKept
<1>10. \A f : Given(f) => Given(f)'
  BY <1>2, <1>8 DEF Given
<1>11. \A d \in Desc : FrameOf(d)' = FrameOf(d) /\ Base(d)' = Base(d)
  BY <1>2 DEF FrameOf, Base
<1>12. \A d \in Desc : own[d] => Seg(d)'
  <2> SUFFICES ASSUME NEW d \in Desc, own[d] PROVE Seg(d)'
    OBVIOUS
  <2>1. Seg(d) /\ d # TxDesc
    BY <1>1, <1>3 DEF Segments
  <2>2. Given(FrameOf(d)) => Given(FrameOf(d))'
    BY <1>2, <1>8, <1>11 DEF Given
  <2>3. ctrl'[d] = ctrl[d] /\ buf'[d] = buf[d] /\ frame' \in Nat
    BY <1>2, <1>3, <1>6, <1>8, <2>1
  <2> QED BY <1>1, <1>9, <2>1, <2>2, <2>3, SegKept
<1>13. ASSUME NEW d \in Desc, d = TxDesc
       PROVE  Seg(d)'
  <2> DEFINE L == LengthOf(frame)
  <2>1. framelength = L /\ LengthOf(frame)' = L
    BY <1>2, <1>3, <1>8 DEF LengthOf
  <2>2. seg.fs <=> Off(i) = 0
    <3>1. Off(0) = 0 /\ (i # 0 => Off(0) + BufSize <= Off(i))
      BY <1>3, OffFacts
    <3> QED BY <1>3, <1>5, <3>1
  <2>3. seg.ls <=> L <= Off(i) + BufSize
    BY <1>3, <1>5, <2>1
  <2>4. seg.size = IF seg.ls THEN L - Off(i) ELSE BufSize
    BY <1>5, <2>1 DEF size
  <2>5. \A b \in 1 .. seg.size : buf[d][b] = <<frame, Off(i) + b>>
    BY <1>3, <1>5, <1>13
  <2>6. FrameOf(d)' = frame /\ Base(d)' = Off(i) /\ frame' = frame
    BY <1>3, <1>8, <1>11, <1>13
  <2>7. LengthOf(FrameOf(d))' = L
    BY <2>1, <2>6 DEF LengthOf
  <2>8. ctrl'[d] = seg /\ buf'[d] = buf[d]
    BY <1>2, <1>6, <1>13
  <2>9. Given(FrameOf(d))'
    BY <1>2, <2>6 DEF Given
  <2>10. frame \in 1 .. frame /\ Off(i) \in Nat /\ Off(i) < L
    BY <1>3
  <2> HIDE DEF L
  <2> QED BY <2>2, <2>3, <2>4, <2>5, <2>6, <2>7, <2>8, <2>9, <2>10 DEF Seg
<1>14. ASSUME NEW d \in Desc, own'[d], own'[Nxt(d)], Nxt(d) # cur
       PROVE  Link(d, Nxt(d))'
  <2>0. Nxt(d) \in Desc
    BY NxtFacts
  <2>1. d # TxDesc
    <3> SUFFICES ASSUME d = TxDesc PROVE FALSE
      OBVIOUS
    <3>1. Nxt(TxDesc) # TxDesc
      BY <1>4, NxtFacts
    <3>2. own[Nxt(TxDesc)]
      BY <1>4, <1>6, <1>14, <3>1
    <3> QED BY <1>1, <1>3, <1>14, <3>2, WindowFacts
  <2>2. own[d] /\ ctrl'[d] = ctrl[d]
    BY <1>6, <1>14, <2>1
  <2>3. /\ FrameOf(d)' = FrameOf(d) /\ Base(d)' = Base(d)
        /\ FrameOf(Nxt(d))' = FrameOf(Nxt(d)) /\ Base(Nxt(d))' = Base(Nxt(d))
    BY <1>11, <2>0
  <2>4. Link(d, Nxt(d))
    <3>1. CASE Nxt(d) = TxDesc
      <4>1. LastGiven(d)
        BY <1>1, <2>2, <3>1 DEF Segments
      <4>2. Partial <=> i # 0
        BY <1>2, <1>3 DEF Partial
      <4>3. CASE ctrl[d].ls
        <5>1. i = 0 /\ FrameOf(d) < frame
          BY <1>2, <4>1, <4>2, <4>3 DEF LastGiven, Fresh
        <5>2. Off(i) = 0
          BY <5>1, OffFacts
        <5> QED BY <1>3, <3>1, <4>3, <5>1, <5>2 DEF Link
      <4>4. CASE ~ctrl[d].ls
        <5>1. FrameOf(d) = frame /\ Base(d) + BufSize = Off(i)
          BY <4>1, <4>4 DEF LastGiven
        <5> QED BY <1>3, <3>1, <4>4, <5>1 DEF Link
      <4> QED BY <4>3, <4>4
    <3>2. CASE Nxt(d) # TxDesc
      <4>1. own[Nxt(d)]
        BY <1>6, <1>14, <2>0, <3>2
      <4> QED BY <1>1, <1>14, <2>2, <4>1 DEF Segments
    <3> QED BY <3>1, <3>2
  <2> QED BY <2>2, <2>3, <2>4 DEF Link
<1>15. ASSUME NEW d \in Desc, own'[d], Nxt(d) = TxDesc'
       PROVE  LastGiven(d)'
  <2>1. d = TxDesc
    BY <1>2, <1>4, <1>15, NxtFacts
  <2>2. ctrl'[d] = seg /\ FrameOf(d)' = frame /\ Base(d)' = Off(i)
    BY <1>3, <1>6, <1>11, <2>1
  <2>3. ~Fresh' /\ (Partial' <=> ~last)
    BY <1>2, <1>3, <1>8 DEF Fresh, Partial
  <2>4. Off(i)' = Off(i) + BufSize
    <3>1. Off(i + 1) = Off(i) + BufSize
      BY <1>3, OffFacts
    <3> QED BY <1>2, <3>1 DEF Off
  <2>5. ctrl'[d].ls <=> last
    BY <1>5, <2>2
  <2> HIDE DEF last
  <2>6. CASE last
    BY <2>3, <2>5, <2>6 DEF LastGiven
  <2>7. CASE ~last
    BY <1>8, <2>2, <2>3, <2>4, <2>5, <2>7 DEF LastGiven
  <2> QED BY <2>6, <2>7
<1>16. Segments'
  <2> SUFFICES ASSUME NEW d \in Desc, own'[d]
               PROVE  /\ Seg(d)'
                      /\ own'[Nxt(d)] /\ Nxt(d) # cur => Link(d, Nxt(d))'
                      /\ Nxt(d) = TxDesc' => LastGiven(d)'
    BY <1>2 DEF Segments
  <2>1. Seg(d)'
    <3>1. CASE d = TxDesc
      BY <1>13, <3>1
    <3>2. CASE d # TxDesc
      BY <1>6, <1>12, <3>2
    <3> QED BY <3>1, <3>2
  <2> QED BY <1>14, <1>15, <2>1
<1> QED BY <1>7, <1>10, <1>11, <1>16

\* One turn of the loop of HAL_ETH_TransmitFrame()
LEMMA GiveDescInv ==
  ASSUME IInv, GiveDesc
  PROVE  IInv'
<1>1. TypeOK /\ RingInv /\ Segments /\ Engine /\ WakeUp /\ Driver /\ SentInv /\ Counts
  BY DEF IInv
<1>2. /\ pc = "give" /\ i < bufcount /\ own' = [own EXCEPT ![TxDesc] = TRUE]
      /\ TxDesc' = Nxt(TxDesc) /\ i' = i + 1
      /\ UNCHANGED <<buf, tbus, tus, dma, cur, out, underflows, pc, chain, left, DmaTxDesc,
                     bufferoffset, framelength, errval, frames, accepted, sent>>
  BY DEF GiveDesc, hwvars
<1>3. /\ i \in Nat /\ bufcount \in Nat /\ frame \in Nat /\ ~own[TxDesc]
      /\ FrameOf(TxDesc) = frame /\ Base(TxDesc) = Off(i)
  BY <1>1, <1>2, GiveFacts
<1>4. TxDesc \in Desc /\ cur \in Desc /\ own \in [Desc -> BOOLEAN]
  BY <1>1 DEF TypeOK
<1>5. TypeOK' /\ Segments' /\ \A f \in 1 .. frame : Given(f) => Given(f)'
  BY GiveSegments
<1>6. RingInv'
  BY <1>1, <1>2, <1>3, WindowGrows
<1>7. frame' = frame /\ bufcount' = bufcount
  BY <1>2 DEF frame, bufcount
<1>8. (i = 0 => Fresh /\ ~Partial) /\ (i # 0 => Partial)
  BY <1>2, <1>3 DEF Fresh, Partial
<1>9. Engine'
  <2>1. own'[cur]
    <3>1. CASE own[cur]
      BY <1>2, <1>4, <3>1
    <3>2. CASE ~own[cur]
      <4>1. TxDesc = cur
        BY <1>1, <3>2, WindowFacts
      <4> QED BY <1>2, <1>4, <4>1
    <3> QED BY <3>1, <3>2
  <2>2. FrameOf(cur)' = FrameOf(cur) /\ Base(cur)' = Base(cur)
    BY <1>2 DEF FrameOf, Base
  <2>3. SentBelow(frame)
    BY <1>1, <1>8 DEF Engine
  <2>4. out = Prefix(FrameOf(cur), Base(cur)) /\ SentBelow(FrameOf(cur))
    <3>1. CASE own[cur]
      BY <1>1, <3>1 DEF Engine
    <3>2. CASE ~own[cur]
      <4>1. TxDesc = cur
        BY <1>1, <3>2, WindowFacts
      <4>2. out = Prefix(frame, Off(i))
        <5>1. CASE i = 0
          <6>1. Off(i) = 0
            BY <5>1, OffFacts
          <6>2. out = <<>>
            BY <1>1, <1>8, <3>2, <5>1 DEF Engine
          <6> QED BY <6>1, <6>2, PrefixEmpty
        <5>2. CASE i # 0
          BY <1>1, <1>8, <3>2, <5>2 DEF Engine
        <5> QED BY <5>1, <5>2
      <4> QED BY <1>3, <2>3, <4>1, <4>2
    <3> QED BY <3>1, <3>2
  <2> QED BY <1>2, <1>7, <2>1, <2>2, <2>3, <2>4 DEF Engine, Prefix, SentBelow
<1>10. WakeUp'
  BY <1>1, <1>2 DEF WakeUp
<1>11. Driver'
  BY <1>1, GiveDriver
<1>12. SentInv'
  <2>1. ASSUME NEW k \in DOMAIN sent
        PROVE  /\ sent[k][1][1] \in 1 .. frame' /\ Given(sent[k][1][1])'
               /\ sent[k] = BytesOf(sent[k][1][1])'
    <3>1. /\ sent[k][1][1] \in 1 .. frame /\ Given(sent[k][1][1])
          /\ sent[k] = BytesOf(sent[k][1][1])
      BY <1>1 DEF SentInv
    <3> QED BY <1>2, <1>7, <3>1 DEF Given, BytesOf
  <2>2. \A k \in 2 .. Len(sent) : sent[k - 1][1][1] < sent[k][1][1]
    BY <1>1 DEF SentInv
  <2> QED BY <1>2, <2>1, <2>2 DEF SentInv
<1>13. Counts'
  <2>1. IsFiniteSet(Lasts) /\ TxDesc \notin Lasts /\ Cardinality(Lasts) \in Nat
    <3>1. IsFiniteSet(Desc)
      BY FS_Interval, NAssumption DEF Desc
    <3>2. Lasts \subseteq Desc
      BY DEF Lasts
    <3>3. IsFiniteSet(Lasts)
      BY <3>1, <3>2, FS_Subset
    <3> QED BY <1>3, <3>3, FS_CardinalityType DEF Lasts
  <2>2. /\ ctrl'[TxDesc].ls <=> i = bufcount - 1
        /\ own'[TxDesc] /\ \A d \in Desc \ {TxDesc} : own'[d] = own[d] /\ ctrl'[d] = ctrl[d]
    BY <1>1, <1>4 DEF GiveDesc, TypeOK
  <2>3. ~Complete /\ (Complete' <=> i = bufcount - 1)
    BY <1>2, <1>3, <1>7 DEF Complete
  <2>4. Len(accepted) \in Nat /\ Len(sent) \in Nat /\ underflows \in Nat
    BY <1>1, BoundsAssumption DEF TypeOK
  <2>5. Len(accepted) + 0 = Len(sent) + underflows + Cardinality(Lasts)
    BY <1>1, <2>3 DEF Counts
  <2>6. CASE i = bufcount - 1
    <3>1. Lasts' = Lasts \cup {TxDesc}
      BY <1>4, <2>2, <2>6 DEF Lasts
    <3>2. Cardinality(Lasts') = Cardinality(Lasts) + 1
      BY <2>1, <3>1, FS_AddElement
    <3>3. Complete'
      BY <2>3, <2>6
    <3>4. Len(accepted) + 1 = Len(sent) + underflows + Cardinality(Lasts')
      BY <2>1, <2>4, <2>5, <3>2
    <3> QED BY <1>2, <3>3, <3>4 DEF Counts
  <2>7. CASE i # bufcount - 1
    <3>1. Lasts' = Lasts
      BY <1>3, <1>4, <2>2, <2>7 DEF Lasts
    <3>2. ~Complete'
      BY <2>3, <2>7
    <3> QED BY <1>2, <2>5, <3>1, <3>2 DEF Counts
  <2> QED BY <2>6, <2>7
<1> QED BY <1>5, <1>6, <1>9, <1>10, <1>11, <1>12, <1>13 DEF IInv

----------------------------------------------------------------------------
(* The engine sends a descriptor and gives it back.                        *)

\* The bytes that precede a segment, and those of the segment
LEMMA PrefixExtends ==
  ASSUME NEW f, NEW a \in Nat, NEW s \in Nat, NEW g, \A k \in 1 .. s : g[k] = <<f, a + k>>
  PROVE  /\ Prefix(f, a) \o [k \in 1 .. s |-> g[k]] = Prefix(f, a + s)
         /\ Len(Prefix(f, a)) = a
<1> DEFINE p == Prefix(f, a)
           r == [k \in 1 .. s |-> g[k]]
           S == {f} \X Nat
<1>1. p \in Seq(S) /\ Len(p) = a /\ \A k \in 1 .. a : p[k] = <<f, k>>
  BY DEF Prefix
<1>2. r \in Seq(S) /\ Len(r) = s /\ \A k \in 1 .. s : r[k] = <<f, a + k>>
  OBVIOUS
<1> HIDE DEF p, r
<1> HIDE DEF S
<1>3. /\ p \o r \in Seq(S) /\ Len(p \o r) = Len(p) + Len(r)
      /\ \A k \in 1 .. Len(p) + Len(r) : (p \o r)[k] = IF k <= Len(p) THEN p[k] ELSE r[k - Len(p)]
  BY <1>1, <1>2, ConcatProperties
<1>4. \A k \in 1 .. a + s : (p \o r)[k] = <<f, k>>
  <2> SUFFICES ASSUME NEW k \in 1 .. a + s PROVE (p \o r)[k] = <<f, k>>
    OBVIOUS
  <2>1. (p \o r)[k] = IF k <= a THEN p[k] ELSE r[k - a]
    BY <1>1, <1>2, <1>3
  <2>2. CASE k <= a
    <3>1. k \in 1 .. a
      BY <2>2
    <3> QED BY <1>1, <2>1, <2>2, <3>1
  <2>3. CASE ~(k <= a)
    <3>1. k - a \in 1 .. s /\ a + (k - a) = k
      BY <2>3
    <3>2. r[k - a] = <<f, a + (k - a)>>
      BY <1>2, <3>1
    <3>3. <<f, a + (k - a)>> = <<f, k>>
      BY <3>1
    <3> QED BY <2>1, <2>3, <3>2, <3>3
  <2> QED BY <2>2, <2>3
<1>5. p \o r = [k \in 1 .. a + s |-> <<f, k>>]
  <2> DEFINE w == p \o r
  <2>1. w \in Seq(S) /\ Len(w) = a + s /\ \A k \in 1 .. a + s : w[k] = <<f, k>>
    BY <1>1, <1>2, <1>3, <1>4
  <2> HIDE DEF w
  <2>2. w \in [1 .. Len(w) -> S]
    BY <2>1
  <2>3. w = [k \in 1 .. a + s |-> w[k]]
    BY <2>1, <2>2
  <2>4. w = [k \in 1 .. a + s |-> <<f, k>>]
    BY <2>1, <2>3
  <2> QED BY <2>4 DEF w
<1> QED BY <1>1, <1>5 DEF p, r, Prefix

\* The window shrinks by the descriptor at its beginning.
LEMMA WindowShrinks ==
  ASSUME TypeOK, RingInv, own[cur], CloseDesc, TxDesc' = TxDesc
  PROVE  RingInv'
<1>1. cur \in Desc /\ TxDesc \in Desc /\ N \in Nat /\ N >= 2 /\ own \in [Desc -> BOOLEAN]
  BY NAssumption DEF TypeOK
<1>2. own' = [own EXCEPT ![cur] = FALSE] /\ cur' = Nxt(cur)
  BY DEF CloseDesc
<1>3. PICK q \in 0 .. N : TxDesc = Plus(cur, q) /\ \A d \in Desc : own[d] <=> Dist(cur, d) < q
  BY DEF RingInv, Window
<1>4. Dist(cur, cur) = 0 /\ Dist(Nxt(cur), cur) = N - 1
  BY <1>1, DistFacts
<1>5. q \in 1 .. N /\ q - 1 \in 0 .. N /\ q - 1 < N /\ (q - 1) + 1 = q
  BY <1>1, <1>3, <1>4
<1>6. TxDesc = Plus(Nxt(cur), q - 1)
  BY <1>1, <1>3, <1>5, PlusFacts
<1>7. ASSUME NEW d \in Desc
      PROVE  own'[d] <=> Dist(Nxt(cur), d) < q - 1
  <2>1. CASE d = cur
    BY <1>1, <1>2, <1>4, <1>5, <2>1
  <2>2. CASE d # cur
    <3>1. Dist(Nxt(cur), d) = Dist(cur, d) - 1 /\ Dist(cur, d) \in Nat
      BY <1>1, <2>2, DistFacts
    <3>2. own'[d] <=> own[d]
      BY <1>1, <1>2, <2>2
    <3> QED BY <1>3, <1>5, <3>1, <3>2
  <2> QED BY <2>1, <2>2
<1>8. \E r \in 0 .. N : TxDesc = Plus(Nxt(cur), r) /\ \A d \in Desc : own'[d] <=> Dist(Nxt(cur), d) < r
  BY <1>5, <1>6, <1>7
<1> QED BY <1>2, <1>8 DEF RingInv, Window

\* What a descriptor that goes back to the driver leaves as it was
LEMMA CloseKeeps ==
  ASSUME IInv, own[cur], CloseDesc,
         UNCHANGED <<ctrl, buf, cpuvars, frames, accepted>>
  PROVE  /\ RingInv' /\ Segments' /\ Driver' /\ own' \in [Desc -> BOOLEAN] /\ cur' \in Desc
         /\ frame' = frame /\ (Partial' <=> Partial) /\ (Fresh' <=> Fresh) /\ (Complete' <=> Complete)
         /\ \A f : Given(f) => Given(f)'
         /\ Lasts' = Lasts \ {cur}
<1>1. TypeOK /\ RingInv /\ Segments /\ Driver
  BY DEF IInv
<1>2. own' = [own EXCEPT ![cur] = FALSE] /\ cur' = Nxt(cur)
  BY DEF CloseDesc
<1>3. /\ UNCHANGED <<TxDesc, pc, chain, left, DmaTxDesc, bufferoffset, framelength, i, errval>>
      /\ UNCHANGED <<ctrl, buf, frames, accepted>>
  BY DEF cpuvars
<1>4. own \in [Desc -> BOOLEAN] /\ cur \in Desc /\ Nxt(cur) \in Desc /\ frame \in Nat
  BY <1>1, NxtFacts, Types DEF TypeOK
<1>5. \A d \in Desc : own'[d] <=> own[d] /\ d # cur
  BY <1>2, <1>4
<1>6. frame' = frame /\ bufcount' = bufcount
  BY <1>3 DEF frame, bufcount
<1>7. (Partial' <=> Partial) /\ (Fresh' <=> Fresh) /\ (Complete' <=> Complete)
  BY <1>3, <1>6 DEF Partial, Fresh, Complete
<1>8. \A f : Given(f) => Given(f)'
  BY <1>3, <1>6, <1>7 DEF Given
<1>9. RingInv'
  BY <1>1, <1>3, WindowShrinks
<1>10. Driver'
  BY <1>1, <1>3, <1>5, DriverKept
<1>11. FramesKept
  BY <1>3, <1>4, <1>6 DEF FramesKept
<1>12. \A d \in Desc : FrameOf(d)' = FrameOf(d) /\ Base(d)' = Base(d)
  BY <1>3 DEF FrameOf, Base
<1>13. Segments'
  <2> SUFFICES ASSUME NEW d \in Desc, own'[d]
               PROVE  /\ Seg(d)'
                      /\ own'[Nxt(d)] /\ Nxt(d) # cur' => Link(d, Nxt(d))'
                      /\ Nxt(d) = TxDesc' => LastGiven(d)'
    BY DEF Segments
  <2>1. own[d] /\ Nxt(d) \in Desc
    BY <1>5, NxtFacts
  <2>2. /\ Seg(d) /\ (own[Nxt(d)] /\ Nxt(d) # cur => Link(d, Nxt(d)))
        /\ (Nxt(d) = TxDesc => LastGiven(d))
    BY <1>1, <2>1 DEF Segments
  <2>3. Seg(d)'
    <3>1. Given(FrameOf(d)) => Given(FrameOf(d))'
      BY <1>3, <1>6, <1>7, <1>12 DEF Given
    <3>2. ctrl'[d] = ctrl[d] /\ buf'[d] = buf[d] /\ frame' \in Nat
      BY <1>3, <1>4, <1>6
    <3> QED BY <1>1, <1>11, <2>2, <3>1, <3>2, SegKept
  <2>4. own'[Nxt(d)] /\ Nxt(d) # cur' => Link(d, Nxt(d))'
    <3> SUFFICES ASSUME own'[Nxt(d)] PROVE Link(d, Nxt(d))'
      OBVIOUS
    <3>1. Link(d, Nxt(d))
      BY <1>5, <2>1, <2>2
    <3>2. FrameOf(Nxt(d))' = FrameOf(Nxt(d)) /\ Base(Nxt(d))' = Base(Nxt(d))
      BY <1>12, <2>1
    <3> QED BY <1>3, <1>12, <3>1, <3>2 DEF Link
  <2>5. Nxt(d) = TxDesc' => LastGiven(d)'
    <3> SUFFICES ASSUME LastGiven(d) PROVE LastGiven(d)'
      BY <1>3, <2>2
    <3> QED BY <1>3, <1>6, <1>7, <1>12 DEF LastGiven, Off
  <2> QED BY <2>3, <2>4, <2>5
<1>14. Lasts' = Lasts \ {cur}
  BY <1>3, <1>5 DEF Lasts
<1>15. own' \in [Desc -> BOOLEAN] /\ cur' \in Desc
  BY <1>2, <1>4
<1> QED BY <1>6, <1>7, <1>8, <1>9, <1>10, <1>13, <1>14, <1>15

\* What the engine has sent precedes the descriptor it goes on to.
LEMMA CloseEngine ==
  ASSUME IInv, own[cur], CloseDesc, UNCHANGED <<ctrl, buf, cpuvars, frames, accepted>>,
         ctrl[cur].ls => /\ out' = <<>>
                         /\ \A k \in DOMAIN sent' :
                              sent'[k][1][1] = FrameOf(cur)
                              \/ \E j \in DOMAIN sent : sent'[k][1][1] = sent[j][1][1],
         ~ctrl[cur].ls => out' = Prefix(FrameOf(cur), Base(cur) + BufSize) /\ sent' = sent
  PROVE  Engine'
<1>1. TypeOK /\ RingInv /\ Segments /\ Engine /\ SentInv
  BY DEF IInv
<1>2. /\ cur \in Desc /\ Nxt(cur) \in Desc /\ Nxt(cur) # cur /\ own \in [Desc -> BOOLEAN]
      /\ frame \in Nat
  BY <1>1, NxtFacts, Types DEF TypeOK
<1>3. own' = [own EXCEPT ![cur] = FALSE] /\ cur' = Nxt(cur)
  BY DEF CloseDesc
<1>4. frame' = frame /\ (Partial' <=> Partial) /\ (Fresh' <=> Fresh) /\ i' = i /\ buf' = buf
  BY CloseKeeps DEF cpuvars
<1> DEFINE f == FrameOf(cur)
           e == Nxt(cur)
<1>5. own'[e] <=> own[e]
  BY <1>2, <1>3
<1>6. /\ own[e] => Link(cur, e) /\ FrameOf(e) \in 1 .. frame
      /\ ~own[e] => LastGiven(cur)
      /\ f \in 1 .. frame
  <2>1. own[e] => Link(cur, e) /\ FrameOf(e) \in 1 .. frame
    BY <1>1, <1>2 DEF Segments, Seg
  <2>2. ~own[e] => e = TxDesc
    BY <1>1, <1>2, WindowFacts
  <2>3. e = TxDesc => LastGiven(cur)
    BY <1>1, <1>2 DEF Segments
  <2>4. f \in 1 .. frame
    BY <1>1, <1>2 DEF Segments, Seg
  <2> QED BY <2>1, <2>2, <2>3, <2>4
<1>7. SentBelow(f)
  BY <1>1 DEF Engine
<1>8. \A k \in DOMAIN sent : sent[k][1][1] \in 1 .. frame
  BY <1>1 DEF SentInv
<1>9. \A g \in Nat : ctrl[cur].ls /\ f < g => SentBelow(g)'
  <2> SUFFICES ASSUME NEW g \in Nat, ctrl[cur].ls, f < g, NEW k \in DOMAIN sent'
               PROVE  sent'[k][1][1] < g
    BY DEF SentBelow
  <2>1. CASE sent'[k][1][1] = FrameOf(cur)
    BY <2>1
  <2>2. CASE \E j \in DOMAIN sent : sent'[k][1][1] = sent[j][1][1]
    <3>1. PICK j \in DOMAIN sent : sent'[k][1][1] = sent[j][1][1]
      BY <2>2
    <3>2. sent[j][1][1] < f /\ sent[j][1][1] \in 1 .. frame
      BY <1>7, <1>8 DEF SentBelow
    <3>3. sent[j][1][1] < g
      BY <1>2, <1>6, <3>2
    <3> QED BY <3>1, <3>3
  <2> QED BY <2>1, <2>2
<1>10. FrameOf(cur)' = FrameOf(e) /\ Base(cur)' = Base(e)
  BY <1>3, <1>4 DEF FrameOf, Base
<1>11. ~ctrl[cur].ls => \A g : SentBelow(g)' <=> SentBelow(g)
  BY DEF SentBelow
<1>12. CASE own[e]
  <2>1. out' = Prefix(FrameOf(e), Base(e)) /\ SentBelow(FrameOf(cur))'
    <3>1. CASE ctrl[cur].ls
      <4>1. Base(e) = 0 /\ f < FrameOf(e)
        BY <1>6, <1>12, <3>1 DEF Link
      <4>2. FrameOf(e) \in Nat
        BY <1>2, <1>6, <1>12
      <4>3. \A g : g = FrameOf(e) => SentBelow(g)'
        BY <1>9, <3>1, <4>1, <4>2
      <4>4. SentBelow(FrameOf(cur))'
        BY <1>10, <4>3 DEF SentBelow
      <4>5. out' = Prefix(FrameOf(e), 0)
        BY <3>1, PrefixEmpty
      <4> QED BY <4>1, <4>4, <4>5
    <3>2. CASE ~ctrl[cur].ls
      <4>1. FrameOf(e) = f /\ Base(e) = Base(cur) + BufSize
        BY <1>6, <1>12, <3>2 DEF Link
      <4>2. SentBelow(FrameOf(cur))'
        BY <1>7, <1>10, <3>2, <4>1 DEF SentBelow
      <4> QED BY <3>2, <4>1, <4>2
    <3> QED BY <3>1, <3>2
  <2>2. Fresh' \/ Partial' => SentBelow(frame)'
    <3> SUFFICES ASSUME Fresh \/ Partial PROVE SentBelow(frame)'
      BY <1>4
    <3>1. CASE ctrl[cur].ls
      <4>1. f < frame
        BY <1>2, <1>6, <1>12, <3>1 DEF Link
      <4>2. \A g : g = frame => SentBelow(g)'
        BY <1>2, <1>9, <3>1, <4>1
      <4> QED BY <1>4, <4>2 DEF SentBelow
    <3>2. CASE ~ctrl[cur].ls
      BY <1>1, <1>4, <3>2 DEF Engine, SentBelow
    <3> QED BY <3>1, <3>2
  <2>3. own[cur]'
    BY <1>3, <1>5, <1>12
  <2>4. out' = Prefix(FrameOf(cur), Base(cur))'
    BY <1>10, <2>1 DEF Prefix
  <2> QED BY <2>1, <2>2, <2>3, <2>4 DEF Engine
<1>13. CASE ~own[e]
  <2>0. ~own[cur]'
    BY <1>3, <1>5, <1>13
  <2>1. CASE ctrl[cur].ls
    <3>1. ~Partial /\ (Fresh => f < frame)
      BY <1>6, <1>13, <2>1 DEF LastGiven
    <3>2. Fresh => SentBelow(frame)'
      <4>1. \A g : g = frame /\ Fresh => SentBelow(g)'
        BY <1>2, <1>9, <2>1, <3>1
      <4> QED BY <1>4, <4>1 DEF SentBelow
    <3> QED BY <1>4, <2>0, <2>1, <3>1, <3>2 DEF Engine
  <2>2. CASE ~ctrl[cur].ls
    <3>1. Partial /\ f = frame /\ Base(cur) + BufSize = Off(i)
      BY <1>6, <1>13, <2>2 DEF LastGiven
    <3>2. out' = Prefix(frame, Off(i))'
      BY <1>4, <2>2, <3>1 DEF Prefix, Off
    <3>3. SentBelow(frame)'
      BY <1>1, <1>4, <2>2, <3>1 DEF Engine, SentBelow
    <3> QED BY <1>4, <2>0, <3>1, <3>2, <3>3 DEF Engine
  <2> QED BY <2>1, <2>2
<1> QED BY <1>12, <1>13

\* A last segment that leaves
LEMMA LastsFacts ==
  ASSUME TypeOK, own[cur], ctrl[cur].ls, Lasts' = Lasts \ {cur}
  PROVE  Cardinality(Lasts') + 1 = Cardinality(Lasts) /\ Cardinality(Lasts') \in Nat
<1>1. IsFiniteSet(Desc) /\ Lasts \subseteq Desc
  BY FS_Interval, NAssumption DEF Desc, Lasts
<1>2. IsFiniteSet(Lasts)
  BY <1>1, FS_Subset
<1>3. cur \in Lasts
  BY DEF Lasts, TypeOK
<1>4. IsFiniteSet(Lasts \ {cur}) /\ Cardinality(Lasts \ {cur}) = Cardinality(Lasts) - 1
  BY <1>2, <1>3, FS_RemoveElement
<1>5. Cardinality(Lasts) \in Nat /\ Cardinality(Lasts \ {cur}) \in Nat
  BY <1>2, <1>4, FS_CardinalityType
<1> QED BY <1>4, <1>5

\* The engine sends the segment of its current descriptor.
LEMMA DmaSendInv ==
  ASSUME IInv, DmaSend
  PROVE  IInv'
<1>1. TypeOK /\ RingInv /\ Segments /\ Engine /\ Driver /\ SentInv /\ Counts
  BY DEF IInv
<1> DEFINE f == FrameOf(cur)
           s == ctrl[cur].size
           bytes == (IF ctrl[cur].fs THEN <<>> ELSE out) \o [k \in 1 .. s |-> buf[cur][k]]
<1>2. /\ dma = "run" /\ own[cur] /\ CloseDesc
      /\ \/ ctrl[cur].ls /\ sent' = Append(sent, bytes) /\ out' = <<>>
         \/ ~ctrl[cur].ls /\ out' = bytes /\ sent' = sent
      /\ UNCHANGED <<ctrl, buf, tbus, tus, dma, underflows, cpuvars, frames, accepted>>
  BY DEF DmaSend
<1>3. /\ RingInv' /\ Segments' /\ Driver' /\ own' \in [Desc -> BOOLEAN] /\ cur' \in Desc
      /\ frame' = frame /\ (Partial' <=> Partial) /\ (Fresh' <=> Fresh) /\ (Complete' <=> Complete)
      /\ \A g : Given(g) => Given(g)'
      /\ Lasts' = Lasts \ {cur}
  BY <1>2, CloseKeeps
<1>4. cur \in Desc /\ frame \in Nat /\ frame <= MaxFrames /\ MaxFrames \in Nat /\ BufSize \in Nat
  BY <1>1, Types, BoundsAssumption, BufSizeAssumption DEF TypeOK, Driver
<1>5. /\ f \in 1 .. frame /\ Base(cur) \in Nat /\ Base(cur) < LengthOf(f)
      /\ ctrl[cur].fs <=> Base(cur) = 0
      /\ s = IF ctrl[cur].ls THEN LengthOf(f) - Base(cur) ELSE BufSize
      /\ \A b \in 1 .. s : buf[cur][b] = <<f, Base(cur) + b>>
      /\ Given(f)
  BY <1>1, <1>2, <1>4 DEF Segments, Seg
<1>6. /\ LengthOf(f) \in Nat /\ LengthOf(f) >= 1 /\ s \in Nat
      /\ Base(cur) + s = IF ctrl[cur].ls THEN LengthOf(f) ELSE Base(cur) + BufSize
  <2>1. LengthOf(f) \in 1 .. N * BufSize /\ N * BufSize \in Nat
    BY <1>1, <1>5, Types, NAssumption, BufSizeAssumption
  <2>2. s \in 0 .. BufSize
    BY <1>1, <1>4, Types
  <2> QED BY <1>4, <1>5, <2>1, <2>2
<1>7. bytes = Prefix(f, Base(cur) + s)
  <2>1. (IF ctrl[cur].fs THEN <<>> ELSE out) = Prefix(f, Base(cur))
    <3>1. out = Prefix(f, Base(cur))
      BY <1>1, <1>2 DEF Engine
    <3>2. ctrl[cur].fs => Prefix(f, Base(cur)) = <<>>
      BY <1>5, PrefixEmpty
    <3> QED BY <3>1, <3>2
  <2> DEFINE g == buf[cur]
             B == Base(cur)
  <2>2. B \in Nat /\ s \in Nat /\ \A k \in 1 .. s : g[k] = <<f, B + k>>
    BY <1>5, <1>6
  <2>3. Prefix(f, B) \o [k \in 1 .. s |-> g[k]] = Prefix(f, B + s)
    <3> HIDE DEF f, g, B, s
    <3> QED BY <2>2, PrefixExtends
  <2> QED BY <2>1, <2>3
<1> HIDE DEF bytes
<1>8. bytes \in Seq(Byte) /\ (ctrl[cur].ls => bytes = BytesOf(f) /\ bytes[1][1] = f)
  <2> DEFINE n == Base(cur) + s
  <2>1. bytes = [j \in 1 .. n |-> <<f, j>>] /\ n \in Nat
    BY <1>5, <1>6, <1>7 DEF Prefix
  <2>2. \A j \in 1 .. n : <<f, j>> \in Byte
    <3>1. f \in 0 .. MaxFrames
      BY <1>4, <1>5
    <3> HIDE DEF f, n
    <3> QED BY <2>1, <3>1 DEF Byte
  <2>3. bytes \in Seq(Byte)
    <3> HIDE DEF f, n
    <3> QED BY <2>1, <2>2
  <2>4. ctrl[cur].ls => n = Total(frames[f]) /\ 1 \in 1 .. n
    BY <1>6 DEF LengthOf
  <2>5. 1 \in 1 .. n => bytes[1] = <<f, 1>>
    <3> HIDE DEF f, n
    <3> QED BY <2>1
  <2>6. 1 \in 1 .. n => bytes[1][1] = f
    <3> HIDE DEF f, n
    <3> QED BY <2>5
  <2> HIDE DEF n, f
  <2> QED BY <2>1, <2>3, <2>4, <2>6 DEF BytesOf
<1>9. TypeOK'
  <2>1. out' \in Seq(Byte) /\ sent' \in Seq(Seq(Byte))
    <3>1. sent \in Seq(Seq(Byte)) /\ <<>> \in Seq(Byte)
      BY <1>1 DEF TypeOK
    <3> DEFINE S == Seq(Byte)
    <3>2. sent \in Seq(S) /\ bytes \in S /\ <<>> \in S
      BY <1>8, <3>1
    <3> HIDE DEF S
    <3>3. out' \in S /\ sent' \in Seq(S)
      BY <1>2, <3>2
    <3> QED BY <3>3 DEF S
  <2> QED BY <1>1, <1>2, <1>3, <2>1 DEF TypeOK, cpuvars
<1>10. sent \in Seq(Seq(Byte)) /\ Len(sent) \in Nat /\ DOMAIN sent = 1 .. Len(sent)
  BY <1>1 DEF TypeOK
<1>11. ctrl[cur].ls =>
         /\ Len(sent') = Len(sent) + 1 /\ DOMAIN sent' = 1 .. Len(sent) + 1
         /\ sent'[Len(sent) + 1] = bytes
         /\ \A k \in 1 .. Len(sent) : sent'[k] = sent[k]
  BY <1>2, <1>10
<1>12. Engine'
  <2>1. ctrl[cur].ls => /\ out' = <<>>
                        /\ \A k \in DOMAIN sent' :
                             sent'[k][1][1] = FrameOf(cur)
                             \/ \E j \in DOMAIN sent : sent'[k][1][1] = sent[j][1][1]
    <3> SUFFICES ASSUME ctrl[cur].ls, NEW k \in DOMAIN sent'
                 PROVE  sent'[k][1][1] = FrameOf(cur)
                        \/ \E j \in DOMAIN sent : sent'[k][1][1] = sent[j][1][1]
      BY <1>2
    <3>1. CASE k = Len(sent) + 1
      BY <1>8, <1>11, <3>1
    <3>2. CASE k # Len(sent) + 1
      <4>1. k \in DOMAIN sent /\ sent'[k] = sent[k]
        BY <1>10, <1>11, <3>2
      <4> QED BY <4>1
    <3> QED BY <3>1, <3>2
  <2>2. ~ctrl[cur].ls => out' = Prefix(FrameOf(cur), Base(cur) + BufSize) /\ sent' = sent
    BY <1>2, <1>6, <1>7
  <2> QED BY <1>2, <2>1, <2>2, CloseEngine
<1>13. WakeUp'
  BY <1>2 DEF WakeUp
<1>14. ASSUME NEW k \in DOMAIN sent, NEW g, g = sent[k][1][1]
       PROVE  g \in 1 .. frame' /\ Given(g)' /\ sent[k] = BytesOf(g)'
  <2>1. g \in 1 .. frame /\ Given(g) /\ sent[k] = BytesOf(g)
    BY <1>1, <1>14 DEF SentInv
  <2> QED BY <1>2, <1>3, <2>1 DEF BytesOf
<1>15. SentInv'
  <2>1. CASE ctrl[cur].ls
    <3>1. ASSUME NEW k \in DOMAIN sent', NEW g, g = sent'[k][1][1]
          PROVE  g \in 1 .. frame' /\ Given(g)' /\ sent'[k] = BytesOf(g)'
      <4>1. CASE k = Len(sent) + 1
        <5>1. sent'[k] = bytes /\ g = f
          BY <1>8, <1>11, <2>1, <3>1, <4>1
        <5>2. Given(g)'
          BY <1>3, <1>5, <5>1
        <5>3. bytes = BytesOf(g)'
          BY <1>2, <1>8, <2>1, <5>1 DEF BytesOf
        <5> QED BY <1>3, <1>5, <5>1, <5>2, <5>3
      <4>2. CASE k # Len(sent) + 1
        <5>1. k \in DOMAIN sent /\ sent'[k] = sent[k]
          BY <1>10, <1>11, <2>1, <4>2
        <5> QED BY <1>14, <3>1, <5>1
      <4> QED BY <4>1, <4>2
    <3>2. \A k \in 2 .. Len(sent') : sent'[k - 1][1][1] < sent'[k][1][1]
      <4> SUFFICES ASSUME NEW k \in 2 .. Len(sent') PROVE sent'[k - 1][1][1] < sent'[k][1][1]
        OBVIOUS
      <4>1. CASE k = Len(sent) + 1
        <5>1. k - 1 \in DOMAIN sent /\ sent'[k - 1] = sent[k - 1]
          BY <1>10, <1>11, <2>1, <4>1
        <5>2. SentBelow(f)
          BY <1>1, <1>2 DEF Engine
        <5>3. sent[k - 1][1][1] < f
          BY <5>1, <5>2 DEF SentBelow
        <5>4. sent'[k][1][1] = f
          BY <1>8, <1>11, <2>1, <4>1
        <5> QED BY <5>1, <5>3, <5>4
      <4>2. CASE k # Len(sent) + 1
        <5>1. k \in 2 .. Len(sent) /\ k - 1 \in 1 .. Len(sent) /\ k \in 1 .. Len(sent)
          BY <1>10, <1>11, <2>1, <4>2
        <5>2. sent'[k] = sent[k] /\ sent'[k - 1] = sent[k - 1]
          BY <1>11, <2>1, <5>1
        <5> QED BY <1>1, <5>1, <5>2 DEF SentInv
      <4> QED BY <4>1, <4>2
    <3> QED BY <3>1, <3>2 DEF SentInv
  <2>2. CASE ~ctrl[cur].ls
    <3>1. sent' = sent
      BY <1>2, <2>2
    <3>2. ASSUME NEW k \in DOMAIN sent', NEW g, g = sent'[k][1][1]
          PROVE  g \in 1 .. frame' /\ Given(g)' /\ sent'[k] = BytesOf(g)'
      BY <1>14, <3>1, <3>2
    <3>3. \A k \in 2 .. Len(sent') : sent'[k - 1][1][1] < sent'[k][1][1]
      BY <1>1, <3>1 DEF SentInv
    <3> QED BY <3>2, <3>3 DEF SentInv
  <2> QED BY <2>1, <2>2
<1>16. Counts'
  <2>1. Lasts' = IF ctrl[cur].ls THEN Lasts \ {cur} ELSE Lasts
    BY <1>3 DEF Lasts
  <2>2. accepted' = accepted /\ underflows' = underflows
    BY <1>2
  <2>3. CASE ctrl[cur].ls
    <3>1. Cardinality(Lasts') + 1 = Cardinality(Lasts) /\ Cardinality(Lasts') \in Nat
      BY <1>1, <1>2, <1>3, <2>3, LastsFacts
    <3>2. Len(sent') = Len(sent) + 1
      BY <1>11, <2>3
    <3>3. Len(sent') + underflows + Cardinality(Lasts') = Len(sent) + underflows + Cardinality(Lasts)
      <4>1. underflows \in Nat
        BY <1>1, BoundsAssumption DEF TypeOK
      <4> QED BY <1>10, <3>1, <3>2, <4>1
    <3> QED BY <1>1, <1>3, <2>2, <3>3 DEF Counts
  <2>4. CASE ~ctrl[cur].ls
    BY <1>1, <1>2, <1>3, <2>1, <2>2, <2>4 DEF Counts
  <2> QED BY <2>3, <2>4
<1> QED BY <1>3, <1>9, <1>12, <1>13, <1>15, <1>16 DEF IInv

\* The engine loses a frame to an underflow.
LEMMA DmaUnderflowInv ==
  ASSUME IInv, DmaUnderflow
  PROVE  IInv'
<1>1. TypeOK /\ SentInv /\ Counts
  BY DEF IInv
<1>2. /\ own[cur] /\ ctrl[cur].ls /\ underflows < MaxUnderflows /\ underflows' = underflows + 1
      /\ CloseDesc /\ out' = <<>> /\ dma' = "suspended" /\ tus' = TRUE
      /\ UNCHANGED <<ctrl, buf, tbus, cpuvars, frames, accepted, sent>>
  BY DEF DmaUnderflow
<1>3. /\ RingInv' /\ Segments' /\ Driver' /\ own' \in [Desc -> BOOLEAN] /\ cur' \in Desc
      /\ frame' = frame /\ (Complete' <=> Complete)
      /\ \A g : Given(g) => Given(g)'
      /\ Lasts' = Lasts \ {cur}
  BY <1>2, CloseKeeps
<1>4. underflows \in Nat /\ underflows + 1 \in 0 .. MaxUnderflows
  BY <1>1, <1>2, BoundsAssumption DEF TypeOK
<1>5. TypeOK'
  BY <1>1, <1>2, <1>3, <1>4 DEF TypeOK, cpuvars
<1>6. Engine'
  BY <1>2, CloseEngine
<1>7. WakeUp'
  BY <1>2 DEF WakeUp
<1>8. SentInv'
  <2>1. ASSUME NEW k \in DOMAIN sent', NEW g, g = sent'[k][1][1]
        PROVE  g \in 1 .. frame' /\ Given(g)' /\ sent'[k] = BytesOf(g)'
    <3>1. g \in 1 .. frame /\ Given(g) /\ sent[k] = BytesOf(g)
      BY <1>1, <1>2, <2>1 DEF SentInv
    <3> QED BY <1>2, <1>3, <3>1 DEF BytesOf
  <2>2. \A k \in 2 .. Len(sent') : sent'[k - 1][1][1] < sent'[k][1][1]
    BY <1>1, <1>2 DEF SentInv
  <2> QED BY <2>1, <2>2 DEF SentInv
<1>9. Counts'
  <2>1. Cardinality(Lasts') + 1 = Cardinality(Lasts) /\ Cardinality(Lasts') \in Nat
    BY <1>1, <1>2, <1>3, LastsFacts
  <2>2. Len(sent) \in Nat
    BY <1>1 DEF TypeOK
  <2>3. Len(sent) + underflows' + Cardinality(Lasts') = Len(sent) + underflows + Cardinality(Lasts)
    BY <1>2, <1>4, <2>1, <2>2
  <2> QED BY <1>1, <1>2, <1>3, <2>3 DEF Counts
<1> QED BY <1>3, <1>5, <1>6, <1>7, <1>8, <1>9 DEF IInv

----------------------------------------------------------------------------
(* The theorems.                                                           *)

\* The driver and the engine have just been started.
LEMMA InitInv == Init => IInv
<1> SUFFICES ASSUME Init PROVE IInv
  OBVIOUS
<1>1. N \in Nat /\ N >= 2 /\ BufSize \in Nat \ {0} /\ MaxFrames \in Nat /\ MaxUnderflows \in Nat
      /\ N * BufSize \in Nat
  BY NAssumption, BufSizeAssumption, BoundsAssumption
<1>2. 0 \in Desc /\ \A d \in Desc : ~own[d]
  BY <1>1 DEF Init, Desc
<1>3. TypeOK
  <2>1. <<0, 0>> \in Byte
    BY <1>1 DEF Byte
  <2>2. [d \in Desc |-> [k \in 1 .. BufSize |-> <<0, 0>>]] \in [Desc -> [1 .. BufSize -> Byte]]
    BY <2>1
  <2>3. [d \in Desc |-> [fs |-> FALSE, ls |-> FALSE, size |-> 0]]
          \in [Desc -> [fs : BOOLEAN, ls : BOOLEAN, size : 0 .. BufSize]]
    BY <1>1
  <2>4. 0 \in 0 .. BufSize /\ 0 \in 0 .. N * BufSize /\ 0 \in 0 .. N /\ 0 \in 0 .. MaxUnderflows
    BY <1>1
  <2>5. <<>> \in Seq(Byte) /\ <<>> \in Seq(Nat) /\ <<>> \in Seq(Chains) /\ <<>> \in Seq(1 .. MaxFrames)
        /\ <<>> \in Seq(Seq(Byte))
    OBVIOUS
  <2>6. own \in [Desc -> BOOLEAN]
    BY DEF Init
  <2> QED BY <1>2, <2>2, <2>3, <2>4, <2>5, <2>6 DEF Init, TypeOK
<1>4. RingInv
  <2>1. Plus(0, 0) = 0 /\ 0 \in 0 .. N
    BY <1>1, <1>2, PlusFacts
  <2>2. \A d \in Desc : ~(Dist(cur, d) < 0)
    BY <1>2, DistFacts DEF Init
  <2> QED BY <1>2, <2>1, <2>2 DEF Init, RingInv, Window
<1>5. Segments
  BY <1>2 DEF Segments
<1>6. Engine
  BY <1>2 DEF Init, Engine, Partial, Fresh
<1>7. WakeUp
  BY DEF Init, WakeUp
<1>8. Driver
  BY <1>1 DEF Init, Driver, Copying, Giving, frame
<1>9. SentInv
  BY DEF Init, SentInv
<1>10. Counts
  <2>1. Lasts = {}
    BY <1>2 DEF Lasts
  <2>2. Cardinality(Lasts) = 0
    BY <2>1, FS_EmptySet
  <2>3. ~Complete
    BY DEF Init, Complete
  <2> QED BY <2>2, <2>3 DEF Init, Counts
<1> QED BY <1>3, <1>4, <1>5, <1>6, <1>7, <1>8, <1>9, <1>10 DEF IInv

\* Every step of the driver and of the engine keeps the invariant.
LEMMA NextInv == IInv /\ [Next]_vars => IInv'
<1> SUFFICES ASSUME IInv, [Next]_vars PROVE IInv'
  OBVIOUS
<1>1. CASE \E ch \in Chains : Output(ch)
  BY <1>1, OutputInv
<1>2. CASE CheckDesc
  BY <1>2, CheckDescInv
<1>3. CASE CopySplit
  BY <1>3, CopySplitInv
<1>4. CASE CopyRest
  BY <1>4, CopyRestInv
<1>5. CASE TransmitFrame
  BY <1>5, TransmitFrameInv
<1>6. CASE GiveDesc
  BY <1>6, GiveDescInv
<1>7. CASE TestTbus
  BY <1>7, TestTbusInv
<1>8. CASE TbusDemand
  BY <1>8, TbusDemandInv
<1>9. CASE TusClear
  BY <1>9, TusClearInv
<1>10. CASE TusSet
  BY <1>10, TusSetInv
<1>11. CASE TusDemand
  BY <1>11, TusDemandInv
<1>12. CASE DmaSend
  BY <1>12, DmaSendInv
<1>13. CASE DmaSuspend
  BY <1>13, DmaSuspendInv
<1>14. CASE DmaUnderflow
  BY <1>14, DmaUnderflowInv
<1>15. CASE UNCHANGED vars
  <2>1. UNCHANGED <<own, ctrl, buf, tbus, tus, dma, cur, out, underflows, TxDesc, pc, chain, left,
                    DmaTxDesc, bufferoffset, framelength, i, errval, frames, accepted, sent>>
    BY <1>15 DEF vars, hwvars, cpuvars
  <2>2. TypeOK /\ RingInv /\ Segments /\ Engine /\ WakeUp /\ Driver /\ SentInv /\ Counts
    BY DEF IInv
  <2>3. TypeOK'
    BY <2>1, <2>2 DEF TypeOK
  <2>4. frame' = frame /\ frame \in Nat /\ bufcount' = bufcount
    BY <2>1, <2>2, Types DEF frame, bufcount
  <2>5. (Partial' <=> Partial) /\ (Fresh' <=> Fresh) /\ (Complete' <=> Complete)
    BY <2>1, <2>4 DEF Complete, Partial, Fresh
  <2>6. FramesKept /\ PhaseKept
    <3>1. \A f \in 1 .. frame : Given(f) => Given(f)'
      BY <2>1, <2>4, <2>5 DEF Given
    <3> QED BY <2>1, <2>4, <2>5, <3>1 DEF FramesKept, PhaseKept
  <2>7. RingInv' /\ Segments' /\ Engine' /\ SentInv'
    BY <2>1, <2>3, <2>6, Keeps
  <2>8. Counts'
    BY <2>1, <2>2, <2>5, CountsKept
  <2>9. WakeUp'
    BY <2>1, <2>2 DEF WakeUp
  <2>10. Driver'
    BY <2>1, <2>2, DriverKept
  <2> QED BY <2>3, <2>7, <2>8, <2>9, <2>10 DEF IInv
<1> QED
  BY <1>1, <1>2, <1>3, <1>4, <1>5, <1>6, <1>7, <1>8, <1>9, <1>10, <1>11, <1>12, <1>13, <1>14,
     <1>15 DEF Next, Cpu, DmaStep, Quiet

\* The invariant holds of the driver and the engine, whatever the sizes.
THEOREM Invariance == Spec => []IInv
<1>1. Init => IInv
  BY InitInv
<1>2. IInv /\ [Next]_vars => IInv'
  BY NextInv
<1> QED BY <1>1, <1>2, PTL DEF Spec

\* low_level_output() copies to, and HAL_ETH_TransmitFrame() sets up, only
\* descriptors that the engine does not own.
THEOREM DriverExclusion == Spec => []TxExclusion
<1>1. ASSUME IInv PROVE TxExclusion
  <2>1. TypeOK /\ Driver
    BY <1>1 DEF IInv
  <2>2. pc = "copy" => ~own[DmaTxDesc]
    BY <2>1 DEF Driver, Copying
  <2>3. pc = "give" /\ i < bufcount => ~own[TxDesc]
    BY <2>1, GiveFacts
  <2> QED BY <2>1, <2>2, <2>3 DEF TxExclusion
<1> QED BY <1>1, Invariance, PTL

\* An engine that is suspended with a descriptor to send will be resumed: no
\* order of the tests of DMASR and of the engine's suspension loses the demand.
THEOREM NoLostWakeUp == Spec => []NoTransmitStall
<1>1. ASSUME IInv PROVE NoTransmitStall
  BY <1>1 DEF IInv, WakeUp, NoTransmitStall
<1> QED BY <1>1, Invariance, PTL

\* What leaves is what low_level_output() was called with, byte for byte and in
\* order, and what it returned ERR_OK for leaves.
THEOREM FramesIntact == Spec => []SentIntact
<1>1. ASSUME IInv PROVE SentIntact
  <2>1. TypeOK /\ SentInv /\ Counts
    BY <1>1 DEF IInv
  <2>2. ASSUME NEW k \in DOMAIN sent
        PROVE  \E f \in 1 .. frame :
                 /\ sent[k] = BytesOf(f)
                 /\ f \in {accepted[j] : j \in DOMAIN accepted} \/ (f = frame /\ pc # "idle")
    <3>1. PICK f \in 1 .. frame : Given(f) /\ sent[k] = BytesOf(f)
      BY <2>1 DEF SentInv
    <3>2. Complete \/ pc = "give" => pc # "idle"
      BY DEF Complete
    <3>3. f \in {accepted[j] : j \in DOMAIN accepted} \/ (f = frame /\ pc # "idle")
      BY <3>1, <3>2 DEF Given
    <3> QED BY <3>1, <3>3
  <2>3. AcceptedIsSent
    <3> SUFFICES ASSUME pc = "idle", \A d \in Desc : ~own[d]
                 PROVE  Len(accepted) = Len(sent) + underflows
      BY DEF AcceptedIsSent
    <3>1. Cardinality(Lasts) = 0
      <4>1. Lasts = {}
        BY DEF Lasts
      <4> QED BY <4>1, FS_EmptySet
    <3>2. ~Complete
      BY DEF Complete
    <3>3. Len(accepted) \in Nat /\ Len(sent) \in Nat /\ underflows \in Nat
      BY <2>1, BoundsAssumption DEF TypeOK
    <3> QED BY <2>1, <3>1, <3>2, <3>3 DEF Counts
  <2> QED BY <2>1, <2>2, <2>3 DEF SentIntact, SentInv
<1> QED BY <1>1, Invariance, PTL
=============================================================================
