--------------------------- MODULE TcpApps_proofs ---------------------------
(***************************************************************************)
(* Proofs about the TCP applications, for every size of pool, send buffer  *)
(* and window, every number of units and every length of a segment.        *)
(*                                                                         *)
(* The invariant of the server says more than its properties in three      *)
(* places: a connection without callbacks holds no data, so that nothing   *)
(* is lost with it; the stack's values of a connection that is gone are    *)
(* those of a new one; and echoed data is ordered with data that is still  *)
(* to be echoed.  That of the client says that it writes nothing before it *)
(* is connected, and that the message is either written or waiting while   *)
(* es is allocated.                                                        *)
(***************************************************************************)
EXTENDS TcpApps, SequenceTheorems, TLAPS

\* The units a peer may send
Unit == 1..MaxUnits

\* The units of q are ordered, and those before unit m.
Ordered(q, m) == \A i \in 1..Len(q) : q[i] < m /\ \A j \in 1..(i - 1) : q[j] < q[i]

\* What the server knows of a connection, and of one that is over
Structure ==
  /\ registered <=> es # "none"
  /\ registered <=> pcb \in {"ESTABLISHED", "CLOSE_WAIT"}
  /\ ~registered => p = << >> /\ refused_data = << >>
  /\ pcb = "none" => rcv_wnd = Wnd /\ snd_buf = SndBuf /\ next = 1 /\ echoed = << >>

ServerInv == TypeOK /\ Structure /\ EchoInOrder /\ Accounting

\* What the client knows of its connection
ClientInv ==
  /\ Client!TypeOK /\ Client!CallbackHasEs
  /\ c_pcb \in {"new", "SYN_SENT"} => c_es = "none" /\ p_tx = 0 /\ written = 0
  /\ c_es = "none" => p_tx = 0 /\ written \in 0..1
  /\ c_es # "none" => written + p_tx = 1

IInv == ServerInv /\ ClientInv

----------------------------------------------------------------------------
(* Sequences of units.                                                     *)

\* A sequence that picks units of an ordered one, in their order, is ordered.
LEMMA OrderedPick ==
  ASSUME NEW q \in Seq(Unit), NEW r \in Seq(Unit), NEW m \in Int, Ordered(q, m),
         NEW f \in [1..Len(r) -> 1..Len(q)],
         \A i \in 1..Len(r) : r[i] = q[f[i]],
         \A i \in 1..Len(r), j \in 1..Len(r) : j < i => f[j] < f[i]
  PROVE  Ordered(r, m)
<1>1. Len(q) \in Nat /\ Len(r) \in Nat
  BY LenProperties
<1>2. ASSUME NEW i \in 1..Len(r)
      PROVE  r[i] < m /\ \A j \in 1..(i - 1) : r[j] < r[i]
  <2>1. f[i] \in 1..Len(q) /\ r[i] = q[f[i]]
    OBVIOUS
  <2>2. q[f[i]] < m /\ \A j \in 1..(f[i] - 1) : q[j] < q[f[i]]
    BY <2>1 DEF Ordered
  <2>3. ASSUME NEW j \in 1..(i - 1)
        PROVE  r[j] < r[i]
    <3>1. j \in 1..Len(r) /\ j < i
      BY <1>1
    <3>2. r[j] = q[f[j]] /\ f[j] \in 1..Len(q) /\ f[j] < f[i]
      BY <3>1
    <3>3. f[j] \in 1..(f[i] - 1)
      BY <1>1, <2>1, <3>2
    <3>4. q[f[j]] < q[f[i]]
      BY <2>2, <3>3
    <3> QED BY <2>1, <3>2, <3>4
  <2> QED BY <2>1, <2>2, <2>3
<1> QED BY <1>2 DEF Ordered

\* Less of a sequence is ordered as well.
LEMMA OrderedPrefix ==
  ASSUME NEW a \in Seq(Unit), NEW b \in Seq(Unit), NEW m \in Int, Ordered(a \o b, m)
  PROVE  Ordered(a, m)
<1>1. /\ Len(a) \in Nat /\ Len(b) \in Nat /\ Len(a \o b) = Len(a) + Len(b)
      /\ \A i \in 1..Len(a) : (a \o b)[i] = a[i]
  BY ConcatProperties
<1> QED BY <1>1 DEF Ordered

\* What is dropped from the middle does not disturb the order.
LEMMA OrderedWithout ==
  ASSUME NEW a \in Seq(Unit), NEW b \in Seq(Unit), NEW c \in Seq(Unit), NEW m \in Int,
         Ordered(a \o b \o c, m)
  PROVE  Ordered(a \o c, m)
<1> DEFINE l == Len(a)  k == Len(b)  n == Len(c)  q == a \o b \o c  r == a \o c
           f == [i \in 1..(l + n) |-> IF i <= l THEN i ELSE i + k]
<1>1. a \o b \in Seq(Unit) /\ Len(a \o b) = l + k /\ l \in Nat /\ k \in Nat /\ n \in Nat
  BY ConcatProperties
<1>2. Len(q) = l + k + n /\ Len(r) = l + n /\ q \in Seq(Unit) /\ r \in Seq(Unit)
  BY <1>1, ConcatProperties
<1>3. \A i \in 1..l : q[i] = a[i] /\ r[i] = a[i]
  BY <1>1, ConcatProperties
<1>4. \A i \in (l + 1)..(l + n) : r[i] = c[i - l] /\ q[i + k] = c[i - l]
  BY <1>1, ConcatProperties
<1>5. \A i \in 1..(l + n) : r[i] = q[f[i]]
  BY <1>1, <1>3, <1>4
<1>6. f \in [1..(l + n) -> 1..(l + k + n)]
  BY <1>1
<1>7. \A i \in 1..(l + n), j \in 1..(l + n) : j < i => f[j] < f[i]
  BY <1>1
<1>8. Ordered(q, m)
  OBVIOUS
<1> HIDE DEF q, r, f
<1>9. Ordered(r, m)
  <2>1. f \in [1..Len(r) -> 1..Len(q)] /\ q \in Seq(Unit) /\ r \in Seq(Unit)
    BY <1>2, <1>6
  <2>2. /\ \A i \in 1..Len(r) : r[i] = q[f[i]]
        /\ \A i \in 1..Len(r), j \in 1..Len(r) : j < i => f[j] < f[i]
    BY <1>2, <1>5, <1>7
  <2> QED BY <1>8, <2>1, <2>2, OrderedPick
<1> QED BY <1>9 DEF r

\* The units of a segment that a peer sends next
LEMMA UnitsType ==
  ASSUME NEW m \in 1..(MaxUnits + 1), NEW n \in Nat, m + n - 1 <= MaxUnits
  PROVE  /\ Units(m, m + n - 1) \in Seq(Unit) /\ Len(Units(m, m + n - 1)) = n
         /\ \A i \in 1..n : Units(m, m + n - 1)[i] = m + i - 1
<1> DEFINE s == [i \in 1..n |-> m + i - 1]
<1>1. MaxUnits \in Nat
  BY ServerAssumption
<1>2. (m + n - 1) - m + 1 = n
  BY <1>1
<1>3. Units(m, m + n - 1) = s
  BY <1>2 DEF Units
<1>4. \A i \in 1..n : m + i - 1 \in Unit
  BY <1>1 DEF Unit
<1>5. s \in [1..n -> Unit]
  BY <1>4
<1>6. \A t \in [1..n -> Unit] : t \in Seq(Unit) /\ Len(t) = n
  OBVIOUS
<1>7. \A i \in 1..n : s[i] = m + i - 1
  OBVIOUS
<1> HIDE DEF s
<1> QED BY <1>3, <1>5, <1>6, <1>7

\* The next units of the peer follow all earlier ones.
LEMMA OrderedSegment ==
  ASSUME NEW q \in Seq(Unit), NEW m \in 1..(MaxUnits + 1), NEW n \in Nat,
         m + n - 1 <= MaxUnits, Ordered(q, m)
  PROVE  Ordered(q \o Units(m, m + n - 1), m + n)
<1> DEFINE s == Units(m, m + n - 1)  l == Len(q)  r == q \o s
<1>1. s \in Seq(Unit) /\ Len(s) = n /\ \A i \in 1..n : s[i] = m + i - 1
  BY UnitsType
<1> HIDE DEF s
<1>2. l \in Nat /\ Len(r) = l + n
  BY <1>1
<1>3. \A i \in 1..l : r[i] = q[i]
  BY <1>1, <1>2, ConcatProperties
<1>4. \A i \in (l + 1)..(l + n) : r[i] = s[i - l] /\ i - l \in 1..n
  BY <1>1, <1>2, ConcatProperties
<1>5. \A i \in (l + 1)..(l + n) : r[i] = m + (i - l) - 1
  BY <1>1, <1>4
<1>6. \A i \in 1..l : q[i] \in Int /\ q[i] < m /\ \A j \in 1..(i - 1) : q[j] < q[i]
  BY ElementOfSeq, ServerAssumption DEF Ordered, Unit
<1>7. MaxUnits \in Nat
  BY ServerAssumption
<1> HIDE DEF l, r
<1>8. ASSUME NEW i \in 1..(l + n)
      PROVE  r[i] < m + n /\ \A j \in 1..(i - 1) : r[j] < r[i]
  <2>1. CASE i <= l
    BY <1>2, <1>3, <1>6, <1>7, <2>1
  <2>2. CASE i > l
    <3>1. r[i] = m + (i - l) - 1
      BY <1>2, <1>5, <2>2
    <3>2. ASSUME NEW j \in 1..(i - 1)
          PROVE  r[j] < r[i]
      <4>1. CASE j <= l
        <5>1. r[j] \in Int /\ r[j] < m
          BY <1>2, <1>3, <1>6, <4>1
        <5> QED BY <1>2, <1>7, <2>2, <3>1, <5>1
      <4>2. CASE j > l
        <5>1. r[j] = m + (j - l) - 1
          BY <1>2, <1>5, <4>2
        <5> QED BY <1>2, <1>7, <3>1, <5>1
      <4> QED BY <1>2, <4>1, <4>2
    <3> QED BY <1>2, <1>7, <3>1, <3>2
  <2> QED BY <1>2, <2>1, <2>2
<1> QED BY <1>2, <1>8 DEF Ordered, r, s

\* tcp_server_send() cuts a chain in two.
LEMMA Cut ==
  ASSUME NEW q \in Seq(Unit), NEW n \in 0..Len(q)
  PROVE  /\ SubSeq(q, 1, n) \in Seq(Unit) /\ Len(SubSeq(q, 1, n)) = n
         /\ SubSeq(q, n + 1, Len(q)) \in Seq(Unit)
         /\ Len(SubSeq(q, n + 1, Len(q))) = Len(q) - n
         /\ SubSeq(q, 1, n) \o SubSeq(q, n + 1, Len(q)) = q
<1>1. Len(q) \in Nat /\ \A i \in 1..Len(q) : q[i] \in Unit
  BY LenProperties, ElementOfSeq
<1>2. SubSeq(q, 1, n) \in Seq(Unit) /\ Len(SubSeq(q, 1, n)) = n
  BY <1>1, SubSeqProperties
<1>3. /\ SubSeq(q, n + 1, Len(q)) \in Seq(Unit)
      /\ Len(SubSeq(q, n + 1, Len(q))) = Len(q) - n
  BY <1>1, SubSeqProperties
<1>4. SubSeq(q, 1, n) \o SubSeq(q, n + 1, Len(q)) = SubSeq(q, 1, Len(q))
  <2>1. 1 \in 1..(Len(q) + 1) /\ n \in (1 - 1)..Len(q) /\ Len(q) \in n..Len(q)
    BY <1>1
  <2> QED BY <2>1, ConcatAdjacentSubSeq
<1> QED BY <1>2, <1>3, <1>4, SubSeqFull

\* Concatenation is associative.
LEMMA Associative ==
  ASSUME NEW a \in Seq(Unit), NEW b \in Seq(Unit), NEW c \in Seq(Unit)
  PROVE  (a \o b) \o c = a \o (b \o c)
OBVIOUS

\* What tcp_server_send() echoes of a chain stays ordered, with and without the
\* rest of the chain.
LEMMA OrderedSend ==
  ASSUME NEW a \in Seq(Unit), NEW q \in Seq(Unit), NEW n \in 0..Len(q), NEW m \in Int,
         Ordered(a \o q, m)
  PROVE  /\ a \o SubSeq(q, 1, n) \in Seq(Unit)
         /\ Ordered((a \o SubSeq(q, 1, n)) \o SubSeq(q, n + 1, Len(q)), m)
         /\ Ordered(a \o SubSeq(q, 1, n), m)
<1> DEFINE s == SubSeq(q, 1, n)  r == SubSeq(q, n + 1, Len(q))
<1>1. s \in Seq(Unit) /\ r \in Seq(Unit) /\ s \o r = q
  BY Cut
<1> HIDE DEF s, r
<1>2. a \o s \in Seq(Unit)
  BY <1>1, ConcatProperties
<1>3. (a \o s) \o r = a \o (s \o r)
  BY <1>1, Associative
<1>4. Ordered((a \o s) \o r, m) /\ Ordered(a \o s, m)
  BY <1>1, <1>2, <1>3, OrderedPrefix
<1> QED BY <1>2, <1>4 DEF s, r

----------------------------------------------------------------------------
(* The server.                                                             *)

\* The constants are numbers.
LEMMA Numbers ==
  PoolSize \in Nat \ {0} /\ SndBuf \in Nat \ {0} /\ Wnd \in Nat \ {0} /\ MaxUnits \in Nat
BY ServerAssumption

\* The sequence without units
LEMMA NoUnits == << >> \in Seq(1..MaxUnits) /\ Len(<< >>) = 0
OBVIOUS

\* The property about the order of the units, in terms of Ordered
LEMMA EchoIsOrdered == EchoInOrder <=> Ordered(echoed \o p \o refused_data, next)
BY DEF EchoInOrder, Ordered

\* tcp_recved() keeps the window below its maximum and never makes it smaller.
LEMMA RecvedFacts ==
  ASSUME NEW wnd \in 0..Wnd, NEW n \in Nat
  PROVE  /\ tcp_recved(wnd, n) \in 0..Wnd /\ tcp_recved(wnd, n) >= wnd
         /\ wnd + n >= Wnd => tcp_recved(wnd, n) = Wnd
BY Numbers DEF tcp_recved, Lesser

\* tcp_server_send() writes no more than there is, and than the send buffer holds.
LEMMA WrittenFacts ==
  ASSUME NEW q \in Seq(Unit), NEW room \in Nat, NEW n \in Written(q, room)
  PROVE  n \in 0..Len(q) /\ n <= room
<1>1. Len(q) \in Nat
  OBVIOUS
<1> DEFINE fit == Lesser(Len(q), room)
<1>2. fit \in 0..Len(q) /\ fit <= room
  BY <1>1 DEF Lesser
<1>3. n \in IF FALSE \in HeapOk THEN 0..fit ELSE {fit}
  BY DEF Written
<1>4. n \in 0..fit \/ n = fit
  BY <1>3
<1> HIDE DEF fit
<1> QED BY <1>1, <1>2, <1>4

\* The result of tcp_server_send()
LEMMA SendFields ==
  ASSUME NEW q, NEW n, NEW pool, NEW wnd
  PROVE  /\ tcp_server_send(q, n, pool, wnd).p = SubSeq(q, n + 1, Len(q))
         /\ tcp_server_send(q, n, pool, wnd).free = pool + n
         /\ tcp_server_send(q, n, pool, wnd).wnd = tcp_recved(wnd, n)
BY DEF tcp_server_send

\* A connection that is gone leaves the state of a new one.
LEMMA GoneFacts ==
  ASSUME TypeOK, Gone, free' \in 0..PoolSize, listening' = listening, stale' \in BOOLEAN
  PROVE  ServerInv'
<1>1. TypeOK'
  <2>1. SndBuf \in 0..SndBuf /\ Wnd \in 0..Wnd /\ 1 \in 1..(MaxUnits + 1)
    BY Numbers
  <2> QED BY <2>1, NoUnits DEF Gone, TypeOK
<1>2. Structure'
  BY DEF Gone, Structure
<1>4. Accounting'
  <2>1. free' \in Nat /\ free' <= PoolSize
    BY Numbers
  <2> QED BY <2>1, NoUnits DEF Gone, Accounting, NoDoubleFree, NoCreditMissing
<1>3. EchoInOrder'
  <2>1. Len((echoed \o p \o refused_data)') = 0
    BY DEF Gone
  <2> QED BY <2>1 DEF EchoInOrder
<1> QED BY <1>1, <1>2, <1>3, <1>4 DEF ServerInv

\* tcp_server_connection_close(): nothing is left with the connection, which has
\* its whole window when tcp_close() does not reset it.
LEMMA CloseFacts ==
  ASSUME ServerInv, NEW wnd \in 0..Wnd, NEW refused,
         tcp_server_connection_close(wnd, refused),
         free' \in 0..PoolSize, listening' = listening, stale' \in BOOLEAN
  PROVE  ServerInv'
<1>1. CASE Unread(wnd, refused)
  BY <1>1, GoneFacts DEF tcp_server_connection_close, ServerInv
<1>2. CASE ~Unread(wnd, refused)
  <2>1. /\ pcb' = "CLOSING" /\ registered' = FALSE /\ es' = "none" /\ p' = << >>
        /\ refused_data' = << >> /\ fin' = FALSE /\ rcv_wnd' = Wnd
        /\ UNCHANGED <<snd_buf, next, echoed>>
    BY <1>2 DEF tcp_server_connection_close, Unread
  <2>2. TypeOK'
    <3>1. Wnd \in 0..Wnd
      BY Numbers
    <3> QED BY <2>1, <3>1, NoUnits DEF ServerInv, TypeOK
  <2>3. Structure'
    BY <2>1 DEF Structure
  <2>5. Accounting'
    <3>1. free' \in Nat /\ free' <= PoolSize /\ Wnd >= Wnd - 0
      BY Numbers
    <3> QED BY <2>1, <3>1, NoUnits DEF Accounting, NoDoubleFree, NoCreditMissing
  <2>4. EchoInOrder'
    <3>1. echoed \in Seq(Unit) /\ p \in Seq(Unit) /\ refused_data \in Seq(Unit) /\ next \in Int
      BY Numbers DEF ServerInv, TypeOK, Unit
    <3>2. Ordered(echoed \o p \o refused_data, next) /\ echoed \o p \in Seq(Unit)
      BY <3>1, EchoIsOrdered DEF ServerInv
    <3>3. Ordered(echoed, next)
      <4>1. Ordered(echoed \o p, next)
        BY <3>1, <3>2, OrderedPrefix
      <4> QED BY <3>1, <4>1, OrderedPrefix
    <3>4. (echoed \o p \o refused_data)' = echoed
      BY <2>1, <3>1
    <3>5. Ordered((echoed \o p \o refused_data)', next')
      BY <2>1, <3>3, <3>4
    <3> QED BY <3>5 DEF EchoInOrder, Ordered
  <2> QED BY <2>2, <2>3, <2>4, <2>5 DEF ServerInv
<1> QED BY <1>1, <1>2

\* What the three parts of the state come to when units are echoed
LEMMA EchoFacts ==
  ASSUME NEW a \in Seq(Unit), NEW q \in Seq(Unit), NEW r \in Seq(Unit), NEW m \in 1..(MaxUnits + 1),
         echoed' = a, p' = q, refused_data' = r, next' = m, Ordered(a \o q \o r, m)
  PROVE  EchoInOrder'
BY DEF EchoInOrder, Ordered

\* tcp_server_recv() for data that is new or was refused before: m is the unit
\* the peer sends next, and pool and wnd are what the data has left.
LEMMA RecvFacts ==
  ASSUME ServerInv, registered, NEW data \in Seq(Unit), NEW end \in BOOLEAN, NEW wnd \in 0..Wnd,
         NEW pool \in Nat, NEW m \in 1..(MaxUnits + 1),
         tcp_server_recv(data, end, wnd, pool),
         pool + Len(p) + Len(data) <= PoolSize, wnd >= Wnd - Len(data),
         Ordered(echoed \o p \o data, m),
         next' = IF pcb' = "none" THEN 1 ELSE m, listening' = listening, stale' \in BOOLEAN
  PROVE  ServerInv'
<1>1. /\ TypeOK /\ Structure
      /\ p \in Seq(Unit) /\ echoed \in Seq(Unit) /\ next \in Int /\ snd_buf \in 0..SndBuf
      /\ Len(data) \in Nat /\ Len(p) \in Nat
      /\ pcb \in {"ESTABLISHED", "CLOSE_WAIT"} /\ es # "none"
  BY Numbers DEF ServerInv, TypeOK, Unit, Structure
<1>2. CASE /\ FALSE \in HeapOk
           /\ refused_data' = data /\ fin' = end /\ free' = pool /\ rcv_wnd' = wnd
           /\ pcb' = IF end THEN "CLOSE_WAIT" ELSE pcb
           /\ UNCHANGED <<registered, es, p, snd_buf, echoed>>
  <2>1. next' = m
    BY <1>1, <1>2
  <2>2. EchoInOrder'
    BY <1>1, <1>2, <2>1, EchoFacts
  <2>3. free' \in 0..PoolSize /\ NoDoubleFree' /\ NoCreditMissing'
    BY <1>1, <1>2, Numbers DEF NoDoubleFree, NoCreditMissing
  <2>4. TypeOK' /\ Structure'
    BY <1>1, <1>2, <2>1, <2>3 DEF TypeOK, Structure, Unit
  <2> QED BY <2>2, <2>3, <2>4 DEF ServerInv, Accounting
<1>3. CASE /\ pool >= Len(data)
           /\ \E n \in Written(data, snd_buf) :
                \E s \in {tcp_server_send(data, n, pool - Len(data), wnd)} :
                  /\ echoed' = echoed \o SubSeq(data, 1, n)
                  /\ snd_buf' = snd_buf - n
                  /\ free' = s.free + Len(data)
                  /\ rcv_wnd' = Credited(s.wnd, Len(data))
                  /\ p' = IF end THEN << >> ELSE s.p
           /\ refused_data' = << >> /\ fin' = FALSE
           /\ es' = IF end THEN "CLOSING" ELSE es
           /\ pcb' = IF end THEN "CLOSE_WAIT" ELSE pcb
           /\ UNCHANGED registered
  <2>0. PICK n \in Written(data, snd_buf) :
          \E s \in {tcp_server_send(data, n, pool - Len(data), wnd)} :
            /\ echoed' = echoed \o SubSeq(data, 1, n)
            /\ snd_buf' = snd_buf - n
            /\ free' = s.free + Len(data)
            /\ rcv_wnd' = Credited(s.wnd, Len(data))
            /\ p' = IF end THEN << >> ELSE s.p
    BY <1>3
  <2>1. /\ echoed' = echoed \o SubSeq(data, 1, n)
        /\ snd_buf' = snd_buf - n
        /\ free' = (pool - Len(data) + n) + Len(data)
        /\ rcv_wnd' = Credited(tcp_recved(wnd, n), Len(data))
        /\ p' = IF end THEN << >> ELSE SubSeq(data, n + 1, Len(data))
    <3>1. PICK s \in {tcp_server_send(data, n, pool - Len(data), wnd)} :
            /\ echoed' = echoed \o SubSeq(data, 1, n)
            /\ snd_buf' = snd_buf - n
            /\ free' = s.free + Len(data)
            /\ rcv_wnd' = Credited(s.wnd, Len(data))
            /\ p' = IF end THEN << >> ELSE s.p
      BY <2>0
    <3>2. /\ s.p = SubSeq(data, n + 1, Len(data)) /\ s.free = pool - Len(data) + n
          /\ s.wnd = tcp_recved(wnd, n)
      BY SendFields
    <3> QED BY <3>1, <3>2
  <2>2. n \in 0..Len(data) /\ n <= snd_buf
    BY <1>1, WrittenFacts
  <2>3. next' = m
    BY <1>1, <1>3
  <2> DEFINE a == SubSeq(data, 1, n)  b == SubSeq(data, n + 1, Len(data))
  <2>4. b \in Seq(Unit) /\ Len(b) = Len(data) - n
    BY <2>2, Cut
  <2>5. Ordered(echoed \o data, m)
    BY <1>1, OrderedWithout
  <2>6. /\ echoed \o a \in Seq(Unit)
        /\ Ordered((echoed \o a) \o b, m) /\ Ordered(echoed \o a, m)
    BY <1>1, <2>2, <2>5, OrderedSend
  <2>7. p' \in Seq(Unit) /\ Len(p') \in Nat /\ Len(p') <= Len(data) - n
    <3>1. << >> \in Seq(Unit) /\ Len(<< >>) = 0
      BY NoUnits DEF Unit
    <3> HIDE DEF b
    <3> QED BY <1>1, <2>1, <2>2, <2>4, <3>1 DEF b
  <2>8. Ordered((echoed \o a) \o p', m)
    <3> HIDE DEF a, b
    <3>1. (echoed \o a) \o << >> = echoed \o a
      BY <2>6
    <3> QED BY <2>1, <2>6, <3>1 DEF b
  <2>9. EchoInOrder'
    <3>1. << >> \in Seq(Unit)
      BY NoUnits DEF Unit
    <3>2. (echoed \o a) \o p' \o << >> = (echoed \o a) \o p'
      <4> HIDE DEF a
      <4> QED BY <2>6, <2>7
    <3> HIDE DEF a
    <3> QED BY <1>3, <2>1, <2>3, <2>6, <2>7, <2>8, <3>1, <3>2, EchoFacts DEF a
  <2>10. rcv_wnd' = Wnd
    <3>1. tcp_recved(wnd, n) \in 0..Wnd /\ tcp_recved(wnd, n) >= wnd
      BY <2>2, RecvedFacts
    <3>2. tcp_recved(wnd, n) + Len(data) >= Wnd
      BY <1>1, <3>1, Numbers
    <3> QED BY <1>1, <2>1, <3>1, <3>2, RecvedFacts DEF Credited
  <2>11. free' \in 0..PoolSize /\ free' + Len(p') <= PoolSize
    <3>1. pool >= Len(data) /\ free' = (pool - Len(data) + n) + Len(data)
      BY <1>3, <2>1
    <3>2. free' = pool + n
      BY <1>1, <2>2, <3>1
    <3>3. n + Len(p') <= Len(data) /\ pool + Len(data) <= PoolSize
      BY <1>1, <2>2, <2>7, Numbers
    <3> QED BY <1>1, <2>2, <2>7, <3>2, <3>3, Numbers
  <2>12. TypeOK'
    <3>1. snd_buf' \in 0..SndBuf /\ Wnd \in 0..Wnd
      BY <1>1, <2>1, <2>2, Numbers
    <3>2. echoed' \in Seq(1..MaxUnits) /\ p' \in Seq(1..MaxUnits)
      BY <2>1, <2>6, <2>7 DEF Unit
    <3>3. pcb' \in {"ESTABLISHED", "CLOSE_WAIT"} /\ es' \in {"ACCEPTED", "CLOSING"}
      BY <1>1, <1>3 DEF TypeOK
    <3> QED BY <1>1, <1>3, <2>3, <2>10, <2>11, <3>1, <3>2, <3>3, NoUnits DEF TypeOK
  <2>13. Structure'
    BY <1>1, <1>3 DEF Structure
  <2>14. NoDoubleFree' /\ NoCreditMissing'
    BY <1>3, <2>7, <2>10, <2>11, NoUnits, Numbers DEF NoDoubleFree, NoCreditMissing
  <2> QED BY <2>9, <2>12, <2>13, <2>14 DEF ServerInv, Accounting
<1>4. CASE /\ pool < Len(data)
           /\ free' = pool + Len(data)
           /\ tcp_server_connection_close(wnd, << >>)
  <2>1. free' \in 0..PoolSize
    BY <1>1, <1>4, Numbers
  <2> QED BY <1>4, <2>1, CloseFacts
<1> QED BY <1>2, <1>3, <1>4 DEF tcp_server_recv

\* A segment, tcp_server_recv() and what the stack does around it
LEMMA ReceiveInv ==
  ASSUME ServerInv, NEW n \in SegLens, NEW end \in BOOLEAN, Receive(n, end)
  PROVE  ServerInv'
<1>1. n \in Nat \ {0} /\ n <= Wnd
  BY ServerAssumption
<1> DEFINE data == Units(next, next + n - 1)
<1>2. /\ pcb = "ESTABLISHED" /\ refused_data = << >> /\ n <= rcv_wnd /\ n <= free
      /\ next + n - 1 <= MaxUnits
      /\ tcp_server_recv(data, end, rcv_wnd - n, free - n)
      /\ next' = (IF pcb' = "none" THEN 1 ELSE next + n)
      /\ listening' = listening /\ stale' = stale
  BY DEF Receive, NextUnit
<1>3. /\ registered /\ p \in Seq(Unit) /\ echoed \in Seq(Unit) /\ next \in 1..(MaxUnits + 1)
      /\ rcv_wnd \in 0..Wnd /\ free \in 0..PoolSize /\ stale \in BOOLEAN
  BY <1>2 DEF ServerInv, TypeOK, Structure, Unit
<1>4. data \in Seq(Unit) /\ Len(data) = n
  BY <1>1, <1>2, <1>3, UnitsType
<1>5. Ordered(echoed \o p \o data, next + n)
  <2>1. echoed \o p \in Seq(Unit) /\ (echoed \o p) \o << >> = echoed \o p
    BY <1>3
  <2>2. Ordered(echoed \o p, next)
    BY <1>2, <2>1, EchoIsOrdered DEF ServerInv
  <2> QED BY <1>1, <1>2, <1>3, <2>1, <2>2, OrderedSegment
<1> HIDE DEF data
<1>6. rcv_wnd = Wnd /\ free + Len(p) <= PoolSize
  BY <1>2, <1>3, NoUnits, Numbers DEF ServerInv, Accounting, NoDoubleFree, NoCreditMissing
<1>7. /\ free - n \in Nat /\ rcv_wnd - n \in 0..Wnd /\ next + n \in 1..(MaxUnits + 1)
      /\ free - n + Len(p) + n <= PoolSize /\ rcv_wnd - n >= Wnd - n
  BY <1>1, <1>2, <1>3, <1>6, Numbers
<1> QED BY <1>2, <1>3, <1>4, <1>5, <1>7, RecvFacts

\* Refused data comes again.
LEMMA RedeliverInv ==
  ASSUME ServerInv, Redeliver
  PROVE  ServerInv'
<1>1. /\ registered /\ tcp_server_recv(refused_data, fin, rcv_wnd, free)
      /\ next' = (IF pcb' = "none" THEN 1 ELSE next + 0)
      /\ listening' = listening /\ stale' \in BOOLEAN
  BY DEF Redeliver, NextUnit
<1>2. /\ p \in Seq(Unit) /\ echoed \in Seq(Unit) /\ refused_data \in Seq(Unit)
      /\ next \in 1..(MaxUnits + 1) /\ fin \in BOOLEAN /\ pcb # "none"
      /\ rcv_wnd \in 0..Wnd /\ free \in 0..PoolSize
  BY <1>1 DEF ServerInv, TypeOK, Structure, Unit
<1>3. /\ free \in Nat /\ next + 0 = next
      /\ free + Len(p) + Len(refused_data) <= PoolSize
      /\ rcv_wnd >= Wnd - Len(refused_data)
  BY <1>2, Numbers DEF ServerInv, Accounting, NoDoubleFree, NoCreditMissing
<1>4. Ordered(echoed \o p \o refused_data, next)
  BY EchoIsOrdered DEF ServerInv
<1> QED BY <1>1, <1>2, <1>3, <1>4, RecvFacts

\* The end of the peer's data: what waits in es->p is given up.
LEMMA FinInv ==
  ASSUME ServerInv, Fin
  PROVE  ServerInv'
<1>1. /\ pcb = "ESTABLISHED" /\ refused_data = << >>
      /\ pcb' = "CLOSE_WAIT" /\ es' = "CLOSING" /\ p' = << >>
      /\ UNCHANGED <<listening, registered, refused_data, fin, snd_buf, rcv_wnd, free, next,
                     echoed, stale>>
  BY DEF Fin
<1>2. TypeOK /\ Structure /\ echoed \in Seq(Unit) /\ p \in Seq(Unit) /\ next \in 1..(MaxUnits + 1)
  BY DEF ServerInv, TypeOK, Unit
<1>3. TypeOK' /\ Structure'
  BY <1>1, <1>2, NoUnits DEF TypeOK, Structure
<1>4. Accounting'
  <2>1. free \in 0..PoolSize /\ rcv_wnd >= Wnd - Len(refused_data)
    BY <1>1, <1>2 DEF ServerInv, Accounting, NoCreditMissing, TypeOK
  <2> QED BY <1>1, <2>1, NoUnits, Numbers DEF Accounting, NoDoubleFree, NoCreditMissing
<1>5. EchoInOrder'
  <2>1. << >> \in Seq(Unit) /\ (echoed \o p) \o << >> = echoed \o p
        /\ echoed \o << >> \o << >> = echoed
    BY <1>2, NoUnits DEF Unit
  <2>2. Ordered(echoed \o p, next)
    BY <1>1, <2>1, EchoIsOrdered DEF ServerInv
  <2>3. Ordered(echoed, next)
    BY <1>2, <2>2, Numbers, OrderedPrefix
  <2>4. echoed' = echoed /\ p' = << >> /\ refused_data' = << >> /\ next' = next
    BY <1>1
  <2>5. Ordered(echoed \o << >> \o << >>, next)
    BY <2>1, <2>3
  <2> QED BY <1>2, <2>1, <2>4, <2>5, EchoFacts
<1> QED BY <1>3, <1>4, <1>5 DEF ServerInv

\* What waits in es->p is sent: the chain is cut, nothing else of the order and
\* of the accounts changes.
LEMMA SendWaitingFacts ==
  ASSUME ServerInv, registered, NEW room \in 0..SndBuf, SendWaiting(room),
         UNCHANGED <<listening, pcb, registered, es, refused_data, fin, next, stale>>
  PROVE  ServerInv'
<1>1. /\ TypeOK /\ Structure
      /\ p \in Seq(Unit) /\ echoed \in Seq(Unit) /\ refused_data \in Seq(Unit)
      /\ next \in 1..(MaxUnits + 1) /\ rcv_wnd \in 0..Wnd /\ free \in 0..PoolSize
      /\ Len(p) \in Nat /\ Len(refused_data) \in Nat /\ room \in Nat
  BY Numbers DEF ServerInv, TypeOK, Unit
<1>2. PICK n \in Written(p, room) :
        /\ p' = SubSeq(p, n + 1, Len(p)) /\ free' = free + n
        /\ rcv_wnd' = tcp_recved(rcv_wnd, n)
        /\ echoed' = echoed \o SubSeq(p, 1, n)
        /\ snd_buf' = room - n
  <2>1. PICK n \in Written(p, room) :
          \E s \in {tcp_server_send(p, n, free, rcv_wnd)} :
            /\ p' = s.p /\ free' = s.free /\ rcv_wnd' = s.wnd
            /\ echoed' = echoed \o SubSeq(p, 1, n)
            /\ snd_buf' = room - n
    BY DEF SendWaiting
  <2>2. PICK s \in {tcp_server_send(p, n, free, rcv_wnd)} :
          /\ p' = s.p /\ free' = s.free /\ rcv_wnd' = s.wnd
          /\ echoed' = echoed \o SubSeq(p, 1, n)
          /\ snd_buf' = room - n
    BY <2>1
  <2>3. s.p = SubSeq(p, n + 1, Len(p)) /\ s.free = free + n /\ s.wnd = tcp_recved(rcv_wnd, n)
    BY SendFields
  <2> QED BY <2>2, <2>3
<1>3. n \in 0..Len(p) /\ n <= room
  BY <1>1, WrittenFacts
<1>4. p' \in Seq(Unit) /\ Len(p') = Len(p) - n /\ SubSeq(p, 1, n) \in Seq(Unit)
      /\ SubSeq(p, 1, n) \o p' = p
  BY <1>1, <1>2, <1>3, Cut
<1>5. echoed' \in Seq(Unit) /\ echoed' \o p' = echoed \o p
  <2> DEFINE a == SubSeq(p, 1, n)
  <2>1. a \in Seq(Unit) /\ a \o p' = p /\ echoed' = echoed \o a /\ p' \in Seq(Unit)
    BY <1>2, <1>4
  <2> HIDE DEF a
  <2>2. (echoed \o a) \o p' = echoed \o (a \o p')
    BY <1>1, <2>1, Associative
  <2>3. echoed \o a \in Seq(Unit)
    BY <1>1, <2>1
  <2> QED BY <2>1, <2>2, <2>3
<1>6. EchoInOrder'
  <2>1. Ordered(echoed' \o p' \o refused_data, next)
    BY <1>5, EchoIsOrdered DEF ServerInv
  <2> QED BY <1>1, <1>4, <1>5, <2>1, EchoFacts
<1>7. Accounting /\ free + Len(p) + Len(refused_data) <= PoolSize
  BY DEF ServerInv, Accounting, NoDoubleFree
<1>8. /\ free' \in 0..PoolSize /\ free' + Len(p') + Len(refused_data') <= PoolSize
      /\ snd_buf' \in 0..SndBuf
  <2>1. refused_data' = refused_data
    OBVIOUS
  <2>2. free' = free + n /\ Len(p') = Len(p) - n /\ snd_buf' = room - n
    BY <1>2, <1>4
  <2>3. snd_buf' \in 0..SndBuf
    BY <1>3, <2>2, Numbers
  <2> HIDE DEF Written
  <2> QED BY <1>1, <1>3, <1>7, <2>1, <2>2, <2>3, Numbers
<1>9. rcv_wnd' \in 0..Wnd /\ rcv_wnd' >= rcv_wnd
  BY <1>1, <1>2, <1>3, RecvedFacts
<1>10. NoCreditMissing'
  <2>1. pcb # "none" => rcv_wnd >= Wnd - Len(refused_data)
    BY <1>7 DEF Accounting, NoCreditMissing
  <2> QED BY <1>1, <1>9, <2>1, Numbers DEF NoCreditMissing
<1>11. TypeOK'
  BY <1>1, <1>4, <1>5, <1>8, <1>9 DEF TypeOK, Unit
<1>12. Structure'
  BY <1>1 DEF Structure
<1> QED BY <1>6, <1>8, <1>10, <1>11, <1>12 DEF ServerInv, Accounting, NoDoubleFree

\* tcp_server_sent()
LEMMA SentInv ==
  ASSUME ServerInv, NEW k \in 1..SndBuf, tcp_server_sent(k)
  PROVE  ServerInv'
<1>1. /\ registered /\ k <= SndBuf - snd_buf /\ SendWaiting(snd_buf + k)
      /\ UNCHANGED <<listening, pcb, registered, es, refused_data, fin, next, stale>>
  BY DEF tcp_server_sent
<1>2. snd_buf + k \in 0..SndBuf
  BY <1>1, Numbers DEF ServerInv, TypeOK
<1> QED BY <1>1, <1>2, SendWaitingFacts

\* tcp_server_poll() sends, closes or does nothing.
LEMMA PollInv ==
  ASSUME ServerInv, tcp_server_poll
  PROVE  ServerInv'
<1>1. CASE /\ p # << >>
           /\ SendWaiting(snd_buf)
           /\ UNCHANGED <<pcb, registered, es, refused_data, fin, next, stale>>
  <2>1. registered /\ listening' = listening /\ snd_buf \in 0..SndBuf
    BY DEF tcp_server_poll, ServerInv, TypeOK
  <2> QED BY <1>1, <2>1, SendWaitingFacts
<1>2. CASE /\ p = << >> /\ es = "CLOSING"
           /\ tcp_server_connection_close(rcv_wnd, refused_data)
           /\ free' = free + Len(refused_data)
           /\ stale' = (pcb' = "none")
  <2>1. listening' = listening /\ stale' \in BOOLEAN /\ rcv_wnd \in 0..Wnd
    BY <1>2 DEF tcp_server_poll, ServerInv, TypeOK
  <2>2. free' \in 0..PoolSize
    <3>1. free \in 0..PoolSize /\ Len(refused_data) \in Nat
      BY DEF ServerInv, TypeOK
    <3>2. free + 0 + Len(refused_data) <= PoolSize
      BY <1>2, NoUnits DEF ServerInv, Accounting, NoDoubleFree
    <3> QED BY <1>2, <3>1, <3>2, Numbers
  <2> QED BY <1>2, <2>1, <2>2, CloseFacts
<1> QED BY <1>1, <1>2 DEF tcp_server_poll

\* tcp_server_error(): what es->p holds is lost, and not freed.
LEMMA ErrorInv ==
  ASSUME ServerInv, tcp_server_error
  PROVE  ServerInv'
<1>1. /\ Gone /\ free' = free + Len(refused_data)
      /\ listening' = listening /\ stale' = stale
  BY DEF tcp_server_error
<1>2. TypeOK /\ stale \in BOOLEAN /\ free \in 0..PoolSize
      /\ Len(refused_data) \in Nat /\ Len(p) \in Nat
  BY DEF ServerInv, TypeOK
<1>3. free + Len(p) + Len(refused_data) <= PoolSize
  BY DEF ServerInv, Accounting, NoDoubleFree
<1>4. free' \in 0..PoolSize
  BY <1>1, <1>2, <1>3, Numbers
<1> QED BY <1>1, <1>2, <1>4, GoneFacts

\* The start of the server, a new connection and the end of one that was closed
LEMMA QuietInv ==
  ASSUME ServerInv, tcp_server_init \/ tcp_server_accept \/ EndConnection
  PROVE  ServerInv'
<1>1. CASE tcp_server_init
  <2>1. UNCHANGED <<pcb, registered, es, p, refused_data, fin, snd_buf, rcv_wnd, free, next,
                    echoed, stale>> /\ listening' \in {"failed", "LISTEN"}
    BY <1>1 DEF tcp_server_init
  <2> QED BY <2>1 DEF ServerInv, TypeOK, Structure, EchoInOrder, Accounting, NoDoubleFree,
                      NoCreditMissing
<1>2. CASE tcp_server_accept
  <2>1. /\ pcb = "none"
        /\ UNCHANGED <<listening, p, refused_data, fin, snd_buf, rcv_wnd, free, next, echoed,
                       stale>>
        /\ \/ pcb' = "ESTABLISHED" /\ registered' = TRUE /\ es' = "ACCEPTED"
           \/ UNCHANGED <<pcb, registered, es>>
    BY <1>2 DEF tcp_server_accept
  <2>2. TypeOK'
    BY <2>1 DEF ServerInv, TypeOK
  <2>5. Structure'
    <3>1. Structure /\ ~registered
      BY <2>1 DEF ServerInv, Structure
    <3>2. p' = << >> /\ refused_data' = << >> /\ rcv_wnd' = Wnd /\ snd_buf' = SndBuf
          /\ next' = 1 /\ echoed' = << >>
      BY <2>1, <3>1 DEF Structure
    <3>3. (registered' <=> es' # "none") /\ (registered' <=> pcb' \in {"ESTABLISHED", "CLOSE_WAIT"})
      BY <2>1, <3>1 DEF Structure
    <3> QED BY <3>2, <3>3 DEF Structure
  <2>3. EchoInOrder' /\ NoDoubleFree'
    BY <2>1 DEF ServerInv, EchoInOrder, Accounting, NoDoubleFree
  <2>4. NoCreditMissing'
    <3>1. rcv_wnd' = Wnd /\ Len(refused_data') \in Nat
      BY <2>1 DEF ServerInv, TypeOK, Structure
    <3> QED BY <3>1, Numbers DEF NoCreditMissing
  <2> QED BY <2>2, <2>3, <2>4, <2>5 DEF ServerInv, Accounting
<1>3. CASE EndConnection
  <2>1. Gone /\ UNCHANGED <<listening, free, stale>> /\ TypeOK
    BY <1>3 DEF EndConnection, ServerInv
  <2>2. free \in 0..PoolSize /\ stale \in BOOLEAN
    BY <2>1 DEF TypeOK
  <2> QED BY <2>1, <2>2, GoneFacts
<1> QED BY <1>1, <1>2, <1>3

\* The server starts without a connection, and keeps its invariant.
LEMMA ServerInit == Init => ServerInv
<1> SUFFICES ASSUME Init PROVE ServerInv
  OBVIOUS
<1>1. SndBuf \in 0..SndBuf /\ Wnd \in 0..Wnd /\ 1 \in 1..(MaxUnits + 1)
      /\ PoolSize \in 0..PoolSize
  BY Numbers
<1>2. TypeOK
  BY <1>1, NoUnits DEF Init, TypeOK
<1>3. Structure
  BY DEF Init, Structure
<1>4. EchoInOrder
  <2>1. Len(echoed \o p \o refused_data) = 0
    BY DEF Init
  <2> QED BY <2>1 DEF EchoInOrder
<1>5. Accounting
  BY NoUnits, Numbers DEF Init, Accounting, NoDoubleFree, NoCreditMissing
<1> QED BY <1>2, <1>3, <1>4, <1>5 DEF ServerInv

\* Every step of the server and of the stack around it keeps the invariant.
LEMMA ServerNext == ServerInv /\ [Next]_vars => ServerInv'
<1> SUFFICES ASSUME ServerInv, [Next]_vars PROVE ServerInv'
  OBVIOUS
<1>1. CASE UNCHANGED vars
  BY <1>1 DEF vars, ServerInv, TypeOK, Structure, EchoInOrder, Accounting, NoDoubleFree,
              NoCreditMissing
<1>2. CASE Next
  BY <1>2, ReceiveInv, RedeliverInv, FinInv, SentInv, PollInv, ErrorInv, QuietInv DEF Next
<1> QED BY <1>1, <1>2

----------------------------------------------------------------------------
(* The client.                                                             *)

\* The client starts without a connection and without a message.
LEMMA ClientInit == Client!Init => ClientInv
<1> SUFFICES ASSUME Client!Init PROVE ClientInv
  OBVIOUS
<1>1. ClientSndBuf \in 0..ClientSndBuf /\ 0 \in 0..ClientPool /\ 0 \in 0..MaxMessages
      /\ "ERR_OK" \in Client!Errors /\ 0 \in 0..1 /\ 0 \in Nat
  BY ClientAssumption DEF Client!Errors
<1>2. Client!TypeOK
  BY <1>1 DEF Client!Init, Client!TypeOK
<1> QED BY <1>2 DEF Client!Init, ClientInv, Client!CallbackHasEs

\* tcpclient_send(): the message is waiting or written, as before, and nothing
\* waits that did not wait before.
LEMMA ClientSendFacts ==
  ASSUME NEW q \in 0..1, NEW room \in 0..ClientSndBuf, written \in Nat,
         Client!tcpclient_send(q, room)
  PROVE  /\ p_tx' \in 0..q /\ c_snd_buf' \in 0..ClientSndBuf
         /\ written' \in Nat /\ written' + p_tx' = written + q
<1>1. CASE q > 0 /\ q < room /\ p_tx' = 0 /\ written' = written + q /\ c_snd_buf' = room - q
  BY <1>1, ClientAssumption
<1>2. CASE p_tx' = q /\ c_snd_buf' = room /\ written' = written
  BY <1>2
<1> QED BY <1>1, <1>2 DEF Client!tcpclient_send

\* What the steps that send have in common: es is allocated afterwards, with q
\* messages at hand.
LEMMA ClientSends ==
  ASSUME ClientInv, NEW q \in 0..1, NEW room \in 0..ClientSndBuf,
         Client!tcpclient_send(q, room), written + q = 1,
         c_pcb' \in {"ESTABLISHED", "CLOSE_WAIT"}, c_registered' = TRUE,
         c_es' \in {"CONNECTED", "CLOSE"}, ret' \in Client!Errors,
         UNCHANGED <<others, message_count>>
  PROVE  ClientInv'
<1>1. Client!TypeOK /\ written \in Nat
  BY DEF ClientInv, Client!TypeOK
<1>2. /\ p_tx' \in 0..q /\ c_snd_buf' \in 0..ClientSndBuf
      /\ written' \in Nat /\ written' + p_tx' = written + q
  BY <1>1, ClientSendFacts
<1>3. p_tx' \in 0..1 /\ written' + p_tx' = 1
  <2>1. written' + p_tx' = 1
    BY <1>2
  <2>2. p_tx' \in 0..1
    BY <1>2
  <2> QED BY <2>1, <2>2
<1>4. Client!TypeOK'
  BY <1>1, <1>2, <1>3 DEF Client!TypeOK
<1>5. Client!CallbackHasEs'
  BY DEF Client!CallbackHasEs
<1> QED BY <1>3, <1>4, <1>5 DEF ClientInv

\* tcpclient_connected_close() with nothing left to send
LEMMA ClientCloseFacts ==
  ASSUME ClientInv, Client!tcpclient_connected_close, p_tx = 0, written \in 0..1,
         ret' \in Client!Errors, UNCHANGED <<p_tx, c_snd_buf, written, others, message_count>>
  PROVE  ClientInv'
<1>1. c_pcb' = "CLOSING" /\ c_registered' = FALSE /\ c_es' = "none"
      /\ p_tx' = p_tx /\ c_snd_buf' = c_snd_buf /\ written' = written /\ others' = others
      /\ message_count' = message_count
  BY DEF Client!tcpclient_connected_close
<1>2. Client!TypeOK' /\ Client!CallbackHasEs'
  BY <1>1 DEF ClientInv, Client!TypeOK, Client!CallbackHasEs
<1> QED BY <1>1, <1>2 DEF ClientInv

\* Every step of the client and of the stack around it keeps the invariant.
LEMMA ClientNext == ClientInv /\ [Client!Next]_clientVars => ClientInv'
<1> SUFFICES ASSUME ClientInv, [Client!Next]_clientVars PROVE ClientInv'
  OBVIOUS
<1>0. /\ Client!TypeOK /\ Client!CallbackHasEs
      /\ p_tx \in 0..1 /\ written \in Nat /\ c_snd_buf \in 0..ClientSndBuf
      /\ "ERR_OK" \in Client!Errors /\ "ERR_MEM" \in Client!Errors
      /\ ClientSndBuf \in Nat
  BY ClientAssumption DEF ClientInv, Client!TypeOK, Client!Errors
<1>1. CASE Client!tcpclient_init
  BY <1>1 DEF Client!tcpclient_init, ClientInv, Client!TypeOK, Client!CallbackHasEs
<1>2. CASE Client!tcpclient_connected
  <2>1. /\ c_pcb = "SYN_SENT" /\ p_tx = 0 /\ written = 0 /\ c_es = "none"
        /\ UNCHANGED <<others, message_count>>
    BY <1>2 DEF Client!tcpclient_connected, ClientInv
  <2>2. CASE /\ c_pcb' = "ESTABLISHED" /\ c_registered' = TRUE /\ c_es' = "CONNECTED"
             /\ Client!tcpclient_send(1, c_snd_buf) /\ ret' \in Client!Errors
    <3>1. 1 \in 0..1 /\ written + 1 = 1
      BY <2>1
    <3> QED BY <1>0, <2>1, <2>2, <3>1, ClientSends
  <2>3. CASE /\ Client!tcpclient_connected_close /\ ret' = "ERR_MEM"
             /\ UNCHANGED <<p_tx, c_snd_buf, written>>
    BY <1>0, <2>1, <2>3, ClientCloseFacts
  <2> QED BY <1>2, <2>2, <2>3 DEF Client!tcpclient_connected
<1>3. CASE Client!EndOfData
  <2>1. /\ c_registered /\ c_es # "none" /\ ret' = "ERR_OK" /\ UNCHANGED <<others, message_count>>
        /\ written + p_tx = 1
    BY <1>0, <1>3 DEF Client!EndOfData, ClientInv, Client!CallbackHasEs
  <2>2. CASE /\ p_tx = 0 /\ Client!tcpclient_connected_close
             /\ UNCHANGED <<p_tx, c_snd_buf, written>>
    <3>1. written \in 0..1
      BY <1>0, <2>1, <2>2
    <3> QED BY <1>0, <2>1, <2>2, <3>1, ClientCloseFacts
  <2>3. CASE /\ c_pcb' = "CLOSE_WAIT" /\ c_es' = "CLOSE"
             /\ Client!tcpclient_send(p_tx, c_snd_buf) /\ UNCHANGED c_registered
    <3>1. c_registered' = TRUE
      BY <1>0, <2>1, <2>3 DEF Client!TypeOK
    <3> QED BY <1>0, <2>1, <2>3, <3>1, ClientSends
  <2> QED BY <1>3, <2>2, <2>3 DEF Client!EndOfData
<1>4. CASE Client!tcpclient_recv
  <2>1. message_count' \in 0..MaxMessages
    BY <1>0, <1>4, ClientAssumption DEF Client!tcpclient_recv, Client!TypeOK
  <2>2. ret' = "ERR_OK"
        /\ UNCHANGED <<c_pcb, c_registered, c_es, p_tx, c_snd_buf, others, written>>
    BY <1>4 DEF Client!tcpclient_recv
  <2> QED BY <1>0, <2>1, <2>2 DEF ClientInv, Client!TypeOK, Client!CallbackHasEs
<1>5. ASSUME NEW k \in 1..ClientSndBuf, Client!tcpclient_sent(k) PROVE ClientInv'
  <2>1. /\ c_registered /\ k <= ClientSndBuf - c_snd_buf
        /\ Client!tcpclient_send(p_tx, c_snd_buf + k) /\ ret' = "ERR_OK"
        /\ UNCHANGED <<c_pcb, c_registered, c_es, others, message_count>>
    BY <1>5 DEF Client!tcpclient_sent
  <2>2. c_snd_buf + k \in 0..ClientSndBuf
    BY <1>0, <2>1
  <2>3. written + p_tx = 1 /\ c_es \in {"CONNECTED", "CLOSE"}
        /\ c_pcb \in {"ESTABLISHED", "CLOSE_WAIT"} /\ c_registered = TRUE
    BY <1>0, <2>1 DEF ClientInv, Client!CallbackHasEs, Client!TypeOK
  <2> QED BY <1>0, <2>1, <2>2, <2>3, ClientSends
<1>6. CASE Client!tcpclient_poll
  <2>1. /\ c_registered = TRUE /\ UNCHANGED <<others, message_count>>
        /\ written + p_tx = 1 /\ c_es \in {"CONNECTED", "CLOSE"}
        /\ c_pcb \in {"ESTABLISHED", "CLOSE_WAIT"}
    BY <1>0, <1>6 DEF Client!tcpclient_poll, ClientInv, Client!CallbackHasEs, Client!TypeOK
  <2>2. CASE /\ Client!tcpclient_send(p_tx, c_snd_buf) /\ ret' \in Client!Errors
             /\ UNCHANGED <<c_pcb, c_registered, c_es>>
    BY <1>0, <2>1, <2>2, ClientSends
  <2>3. CASE /\ p_tx = 0 /\ Client!tcpclient_connected_close /\ ret' = "ERR_OK"
             /\ UNCHANGED <<p_tx, c_snd_buf, written>>
    <3>1. written \in 0..1
      BY <1>0, <2>1, <2>3
    <3> QED BY <1>0, <2>1, <2>3, <3>1, ClientCloseFacts
  <2>4. CASE UNCHANGED <<c_pcb, c_registered, c_es>> /\ ret' = "ERR_OK"
             /\ UNCHANGED <<p_tx, c_snd_buf, written>>
    BY <1>0, <2>1, <2>4 DEF ClientInv, Client!TypeOK, Client!CallbackHasEs
  <2> QED BY <1>6, <2>2, <2>3, <2>4 DEF Client!tcpclient_poll
<1>7. CASE Client!EndConnection
  BY <1>7 DEF Client!EndConnection, ClientInv, Client!TypeOK, Client!CallbackHasEs
<1>8. CASE Client!UseBuffer \/ Client!ReturnBuffer
  <2>1. others' \in 0..ClientPool
    BY <1>0, <1>8, ClientAssumption
       DEF Client!UseBuffer, Client!ReturnBuffer, Client!Free, Client!TypeOK
  <2>2. UNCHANGED <<c_pcb, c_registered, c_es, p_tx, c_snd_buf, message_count, written, ret>>
    BY <1>8 DEF Client!UseBuffer, Client!ReturnBuffer
  <2> QED BY <2>1, <2>2 DEF ClientInv, Client!TypeOK, Client!CallbackHasEs
<1>9. CASE UNCHANGED clientVars
  BY <1>9 DEF clientVars, ClientInv, Client!TypeOK, Client!CallbackHasEs
<1> QED BY <1>1, <1>2, <1>3, <1>4, <1>5, <1>6, <1>7, <1>8, <1>9 DEF Client!Next

----------------------------------------------------------------------------
(* The build with either of them.                                          *)

\* The invariant holds for whatever segments, acknowledgements, resets and
\* failed allocations come, in any order.
THEOREM Invariance == AppsSpec => []IInv
<1>1. AppsInit => IInv
  BY ServerInit, ClientInit DEF AppsInit, IInv
<1>2. IInv /\ [AppsNext]_appVars => IInv'
  <2> SUFFICES ASSUME IInv, [AppsNext]_appVars PROVE IInv'
    OBVIOUS
  <2>1. [Next]_vars /\ [Client!Next]_clientVars
    BY DEF AppsNext, Server, ClientStep, appVars
  <2> QED BY <2>1, ServerNext, ClientNext DEF IInv
<1>3. AppsSpec => AppsInit /\ [][AppsNext]_appVars
  BY PTL DEF AppsSpec
<1> QED BY <1>1, <1>2, <1>3, PTL

\* No callback of tcp_server.c or tcpclient.c runs without the es it dereferences,
\* or on a connection that is closed.
THEOREM CallbacksAreSafe == AppsSpec => []CallbacksHaveEs
<1>1. IInv => CallbacksHaveEs
  BY DEF IInv, ServerInv, Structure, ClientInv, CallbacksHaveEs, CallbackHasEs
<1> QED BY <1>1, Invariance, PTL

\* The server echoes in order and without repetition, however data is refused,
\* delivered again, cut by the send buffer or given up.
THEOREM EchoOrdered == AppsSpec => []EchoInOrder
<1>1. IInv => EchoInOrder
  BY DEF IInv, ServerInv
<1> QED BY <1>1, Invariance, PTL

\* The server frees no buffer twice and owes the peer no window.
THEOREM AccountsRight == AppsSpec => []Accounting
<1>1. IInv => Accounting
  BY DEF IInv, ServerInv
<1> QED BY <1>1, Invariance, PTL

\* The message of the client is written at most once, and before it closes.
THEOREM MessageWrittenOnce == AppsSpec => []MessageOnce
<1>1. IInv => MessageOnce
  BY DEF IInv, ClientInv, Client!TypeOK, MessageOnce, Client!MessageOnce
<1> QED BY <1>1, Invariance, PTL
=============================================================================
