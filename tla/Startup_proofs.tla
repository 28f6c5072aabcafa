--------------------------- MODULE Startup_proofs ---------------------------
(***************************************************************************)
(* Proofs about how the board starts: Startup, and at the end EthInit, the *)
(* initialisation of MAC and PHY that lwip_init_task() begins with.  The   *)
(* two share no variable and are proved one after the other.               *)
(*                                                                         *)
(* Startup.  Each function of the DHCP client gets a lemma that tells what *)
(* it does to the fields the invariants speak of; the steps of the main    *)
(* loop are then put together from these lemmas.                           *)
(*                                                                         *)
(* EthInit.  Two facts make the invariant inductive.  While                *)
(* low_level_init() is in the loop that waits for the negotiation, the     *)
(* time since its beginning has not wrapped, so that a failed read, longer *)
(* than the loop may last, is seen by the next test.  And a negotiation    *)
(* that is complete stays what it is until the link is lost.               *)
(***************************************************************************)
EXTENDS Startup, EthInit, TLAPS

\* Two clients with the same address, offer, lease and pcb.
Same(d, e) ==
  /\ d.ip = e.ip /\ d.offered_ip_addr = e.offered_ip_addr
  /\ d.lease_used = e.lease_used /\ d.t0_timeout = e.t0_timeout
  /\ d.pcb_allocated = e.pcb_allocated

\* The three fields that dhcp_set_state() assigns are none of those Same compares.
LEMMA StateUpdate ==
  ASSUME NEW d \in Client, NEW s \in State, NEW n \in 0 .. TriesMax, NEW r \in {0, 1},
         NEW e, e = [d EXCEPT !.state = s, !.tries = n, !.request_timeout = r]
  PROVE  e \in Client /\ e.state = s /\ Same(e, d)
BY DEF Client, Same

\* dhcp_set_state() changes the state and the counter of tries, nothing else.
LEMMA SetStateFacts ==
  ASSUME NEW d \in Client, NEW s \in State
  PROVE  SetState(d, s) \in Client /\ SetState(d, s).state = s /\ Same(SetState(d, s), d)
<1>1. 0 \in 0 .. TriesMax /\ 0 \in {0, 1}
  BY WidthAssumption
<1>2. CASE d.state = s
  BY <1>2 DEF SetState, Same
<1>3. CASE d.state # s
  <2> DEFINE e == [d EXCEPT !.state = s, !.tries = 0, !.request_timeout = 0]
  <2>1. SetState(d, s) = e
    BY <1>3 DEF SetState
  <2>2. e \in Client /\ e.state = s /\ Same(e, d)
    BY <1>1, StateUpdate
  <2> QED BY <2>1, <2>2
<1> QED BY <1>2, <1>3

\* Counting a try (it saturates at TriesMax) and waiting for the answer.
LEMMA TriedFacts ==
  ASSUME NEW d \in Client
  PROVE  Tried(d) \in Client /\ Tried(d).state = d.state /\ Same(Tried(d), d)
<1> DEFINE n == IF d.tries < TriesMax THEN d.tries + 1 ELSE d.tries
           e == [d EXCEPT !.tries = n, !.request_timeout = 1]
<1>1. n \in 0 .. TriesMax
  BY WidthAssumption DEF Client
<1>2. Tried(d) = e
  BY DEF Tried
<1>3. ASSUME NEW m \in 0 .. TriesMax, NEW r \in {0, 1}, 
             NEW f, f = [d EXCEPT !.tries = m, !.request_timeout = r]
      PROVE  f \in Client /\ f.state = d.state /\ Same(f, d)
  BY <1>3 DEF Client, Same
<1> HIDE DEF n
<1> QED BY <1>1, <1>2, <1>3

\* A message changes the identifiers and what is on the network.
LEMMA CreateMsgFacts ==
  ASSUME NEW d \in Client, NEW type \in {"DISCOVER", "REQUEST", "DECLINE", "RELEASE"},
         NEW ok \in BOOLEAN, d.ip # Static
  PROVE  /\ CreateMsg(d, type, ok) \in Client
         /\ CreateMsg(d, type, ok).state = d.state
         /\ Same(CreateMsg(d, type, ok), d)
<1> DEFINE x == IF d.tries = 0 THEN d.next_xid + 1 ELSE d.next_xid
           e == IF type = "REQUEST" THEN d ELSE [d EXCEPT !.next_xid = x, !.xid = x]
           f == [e EXCEPT !.sent = @ \cup Sent(e, type)]
<1>1. x \in Nat
  BY DEF Client
<1>2. e \in Client /\ e.state = d.state /\ Same(e, d)
  <2>1. ASSUME NEW y \in Nat, NEW g, g = [d EXCEPT !.next_xid = y, !.xid = y]
        PROVE  g \in Client /\ g.state = d.state /\ Same(g, d)
    BY <2>1 DEF Client, Same
  <2> HIDE DEF x
  <2>2. Same(d, d)
    BY DEF Same
  <2> QED BY <1>1, <2>1, <2>2
<1>3. e.ip # Static
  BY <1>2 DEF Same
<1> HIDE DEF e
<1>4. Sent(e, type) \subseteq Msg
  <2>1. e.xid \in Nat /\ e.ip \in Addrs \cup {NoAddr} /\ e.offered_ip_addr \in Addrs \cup {NoAddr}
    BY <1>2, <1>3 DEF Client
  <2> QED BY <2>1 DEF Sent, Msg
<1>5. f \in Client /\ f.state = e.state /\ Same(f, e)
  <2>1. ASSUME NEW S \in SUBSET Msg, NEW g, g = [e EXCEPT !.sent = S]
        PROVE  g \in Client /\ g.state = e.state /\ Same(g, e)
    BY <1>2, <2>1 DEF Client, Same
  <2>2. e.sent \cup Sent(e, type) \in SUBSET Msg
    BY <1>2, <1>4 DEF Client
  <2> QED BY <2>1, <2>2
<1>6. CreateMsg(d, type, ok) = IF ok THEN f ELSE d
  BY DEF CreateMsg, e
<1>7. CASE ok
  <2>1. CreateMsg(d, type, ok) = f
    BY <1>6, <1>7
  <2> HIDE DEF f
  <2> QED BY <2>1, <1>5, <1>2 DEF Same
<1>8. CASE ~ok
  BY <1>6, <1>8 DEF Same
<1> QED BY <1>7, <1>8

----------------------------------------------------------------------------
(* What every function of the client preserves.                            *)

LeaseOK(d) == d.t0_timeout # 0 => d.lease_used < d.t0_timeout

Good(d) ==
  /\ d \in Client
  /\ d.ip \in Addrs => Supplied(d) /\ d.ip = d.offered_ip_addr
  /\ d.ip = Static => d.state = "OFF"
  /\ d.state = "OFF" => d.pcb_allocated = 0
  /\ LeaseOK(d)

\* Without a lease a running client has no address.
LEMMA NoLease ==
  ASSUME NEW d, Good(d), d.state # "OFF", ~Supplied(d)
  PROVE  d \in Client /\ d.ip = NoAddr /\ LeaseOK(d)
BY DEF Good, Client

\* Setting the state, sending a message and counting the try, as dhcp_discover(),
\* dhcp_select(), dhcp_renew(), dhcp_rebind() and dhcp_decline() do.
LEMMA SendFacts ==
  ASSUME NEW d \in Client, NEW s \in State, NEW ok \in BOOLEAN, d.ip # Static,
         NEW type \in {"DISCOVER", "REQUEST", "DECLINE", "RELEASE"},
         NEW e, e = Tried(CreateMsg(SetState(d, s), type, ok))
  PROVE  e \in Client /\ e.state = s /\ Same(e, d)
<1> DEFINE f == SetState(d, s)
           g == CreateMsg(f, type, ok)
<1>1. f \in Client /\ f.state = s /\ Same(f, d)
  BY SetStateFacts
<1>2. f.ip # Static
  BY <1>1 DEF Same
<1> HIDE DEF f
<1>3. g \in Client /\ g.state = f.state /\ Same(g, f)
  BY <1>1, <1>2, CreateMsgFacts
<1>4. e = Tried(g)
  BY DEF f
<1> HIDE DEF g
<1>5. e \in Client /\ e.state = g.state /\ Same(e, g)
  BY <1>3, <1>4, TriedFacts
<1> QED BY <1>1, <1>3, <1>5 DEF Same

\* A running client whose address, offer and lease are those of d.
LEMMA GoodCopy ==
  ASSUME NEW d \in Client, NEW e \in Client, Same(e, d), e.state # "OFF",
         d.ip # Static, LeaseOK(d),
         d.ip \in Addrs => Supplied(e) /\ d.ip = d.offered_ip_addr
  PROVE  Good(e)
BY DEF Good, Same, LeaseOK

\* dhcp_discover() is called without an address.
LEMMA DiscoverGood ==
  ASSUME NEW d \in Client, NEW ok \in BOOLEAN, d.ip = NoAddr, LeaseOK(d)
  PROVE  Good(Discover(d, ok)) /\ Discover(d, ok).state # "OFF"
<1> DEFINE f == [d EXCEPT !.offered_ip_addr = NoAddr]
           e == Discover(d, ok)
<1>1. f \in Client /\ f.ip = NoAddr /\ LeaseOK(f)
  BY DEF Client, LeaseOK
<1>2. e = Tried(CreateMsg(SetState(f, "SELECTING"), "DISCOVER", ok))
  BY DEF Discover
<1>3. "SELECTING" \in State /\ NoAddr # Static /\ NoAddr \notin Addrs
  BY AddrAssumption DEF State
<1> HIDE DEF e, f
<1>4. e \in Client /\ e.state = "SELECTING" /\ Same(e, f)
  BY <1>1, <1>2, <1>3, SendFacts
<1>5. Good(e)
  BY <1>1, <1>3, <1>4, GoodCopy
<1> QED BY <1>4, <1>5 DEF e

\* dhcp_select() too.
LEMMA SelectGood ==
  ASSUME NEW d \in Client, NEW ok \in BOOLEAN, d.ip = NoAddr, LeaseOK(d)
  PROVE  Good(Select(d, ok)) /\ Select(d, ok).state # "OFF"
<1> DEFINE e == Select(d, ok)
<1>1. e = Tried(CreateMsg(SetState(d, "REQUESTING"), "REQUEST", ok))
  BY DEF Select
<1>2. "REQUESTING" \in State /\ NoAddr # Static /\ NoAddr \notin Addrs
  BY AddrAssumption DEF State
<1> HIDE DEF e
<1>3. e \in Client /\ e.state = "REQUESTING" /\ Same(e, d)
  BY <1>1, <1>2, SendFacts
<1>4. Good(e)
  BY <1>2, <1>3, GoodCopy
<1> QED BY <1>3, <1>4 DEF e

\* A request for a longer use of the address, in one of the two states for it.
LEMMA ExtendGood ==
  ASSUME NEW d, Good(d), d.state # "OFF", NEW ok \in BOOLEAN,
         NEW s \in {"RENEWING", "REBINDING"},
         NEW e, e = Tried(CreateMsg(SetState(d, s), "REQUEST", ok))
  PROVE  Good(e) /\ e.state = s
<1>1. d \in Client /\ s \in State /\ d.ip # Static
  BY DEF Good, State
<1>2. e \in Client /\ e.state = s /\ Same(e, d)
  BY <1>1, SendFacts
<1>3. Good(e)
  BY <1>1, <1>2, GoodCopy DEF Good, Supplied
<1> QED BY <1>2, <1>3

\* dhcp_check(): there is no address yet.
LEMMA CheckGood ==
  ASSUME NEW d \in Client, d.ip = NoAddr, LeaseOK(d)
  PROVE  Good(Check(d)) /\ Check(d).state # "OFF"
<1> DEFINE f == SetState(d, "CHECKING")
           e == Tried(f)
<1>1. f \in Client /\ f.state = "CHECKING" /\ Same(f, d)
  BY SetStateFacts DEF State
<1> HIDE DEF f
<1>2. e \in Client /\ e.state = f.state /\ Same(e, f)
  BY <1>1, TriedFacts
<1>3. Check(d) = e
  BY DEF Check, f
<1> HIDE DEF e
<1>4. NoAddr # Static /\ NoAddr \notin Addrs
  BY AddrAssumption
<1>5. Same(e, d)
  BY <1>1, <1>2 DEF Same
<1>6. Good(e)
  BY <1>1, <1>2, <1>4, <1>5, GoodCopy
<1> QED BY <1>1, <1>2, <1>3, <1>6

----------------------------------------------------------------------------
(* Answers to the client, and the address they bring.                      *)

\* The end of a transaction is remembered; nothing the invariants use changes.
LEMMA CloseFacts ==
  ASSUME NEW d \in Client, NEW s \in State, NEW x \in Nat,
         NEW e, e = [SetState(d, s) EXCEPT !.closed = @ \cup {x}]
  PROVE  e \in Client /\ e.state = s /\ Same(e, d)
<1> DEFINE f == SetState(d, s)
<1>1. f \in Client /\ f.state = s /\ Same(f, d)
  BY SetStateFacts
<1>2. e = [f EXCEPT !.closed = f.closed \cup {x}]
  OBVIOUS
<1> HIDE DEF f
<1>3. f.closed \cup {x} \in SUBSET Nat
  BY <1>1 DEF Client
<1>4. ASSUME NEW S \in SUBSET Nat, NEW g, g = [f EXCEPT !.closed = S]
      PROVE  g \in Client /\ g.state = f.state /\ Same(g, f)
  BY <1>1, <1>4 DEF Client, Same
<1>5. e \in Client /\ e.state = f.state /\ Same(e, f)
  BY <1>2, <1>3, <1>4
<1> QED BY <1>1, <1>5 DEF Same

\* dhcp_decline(): the address being checked was not on the interface yet.
LEMMA DeclineGood ==
  ASSUME NEW d, Good(d), d.state = "CHECKING", NEW ok \in BOOLEAN
  PROVE  Good(Decline(d, ok)) /\ Decline(d, ok).state # "OFF"
<1>1. d \in Client /\ d.ip = NoAddr /\ LeaseOK(d)
  BY NoLease DEF Supplied
<1>2. d.xid \in Nat /\ "BACKING_OFF" \in State
  BY <1>1 DEF Client, State
<1>3. NoAddr # Static /\ NoAddr \notin Addrs
  BY AddrAssumption
<1> DEFINE f == [SetState(d, "BACKING_OFF") EXCEPT !.closed = @ \cup {d.xid}]
           g == CreateMsg(f, "DECLINE", ok)
           e == Tried(g)
<1>4. f \in Client /\ f.state = "BACKING_OFF" /\ Same(f, d)
  BY <1>1, <1>2, CloseFacts
<1>5. Decline(d, ok) = e
  BY DEF Decline
<1> HIDE DEF f
<1>6. f.ip # Static
  BY <1>1, <1>3, <1>4 DEF Same
<1>7. g \in Client /\ g.state = f.state /\ Same(g, f)
  BY <1>4, <1>6, CreateMsgFacts
<1> HIDE DEF g
<1>8. e \in Client /\ e.state = g.state /\ Same(e, g)
  BY <1>7, TriedFacts
<1> HIDE DEF e
<1>9. e.state = "BACKING_OFF" /\ Same(e, d)
  BY <1>4, <1>7, <1>8 DEF Same
<1>10. Good(e)
  BY <1>1, <1>3, <1>8, <1>9, GoodCopy
<1> QED BY <1>5, <1>9, <1>10

\* dhcp_handle_nak() takes the address away before it looks for another one.
LEMMA HandleNakGood ==
  ASSUME NEW d, Good(d), NEW ok \in BOOLEAN
  PROVE  Good(HandleNak(d, ok)) /\ HandleNak(d, ok).state # "OFF"
<1> DEFINE g == [SetState(d, "BACKING_OFF") EXCEPT !.ip = NoAddr, !.closed = @ \cup {d.xid}]
           h == SetState(d, "BACKING_OFF")
<1>1. d \in Client /\ d.xid \in Nat /\ "BACKING_OFF" \in State /\ LeaseOK(d)
  BY DEF Good, Client, State
<1>2. h \in Client /\ Same(h, d)
  BY <1>1, SetStateFacts
<1> HIDE DEF h
<1>3. g = [h EXCEPT !.ip = NoAddr, !.closed = h.closed \cup {d.xid}]
  BY DEF h
<1>4. h.closed \cup {d.xid} \in SUBSET Nat
  BY <1>1, <1>2 DEF Client
<1>5. ASSUME NEW S \in SUBSET Nat, NEW k, k = [h EXCEPT !.ip = NoAddr, !.closed = S]
      PROVE  /\ k \in Client /\ k.ip = NoAddr
             /\ k.lease_used = h.lease_used /\ k.t0_timeout = h.t0_timeout
  BY <1>2, <1>5 DEF Client
<1>6. /\ g \in Client /\ g.ip = NoAddr
      /\ g.lease_used = h.lease_used /\ g.t0_timeout = h.t0_timeout
  BY <1>3, <1>4, <1>5
<1>7. HandleNak(d, ok) = Discover(g, ok)
  BY DEF HandleNak
<1> HIDE DEF g
<1>8. LeaseOK(g)
  BY <1>1, <1>2, <1>6 DEF LeaseOK, Same
<1> QED BY <1>6, <1>7, <1>8, DiscoverGood

\* dhcp_handle_offer() records the offered address; the interface has none yet.
LEMMA HandleOfferGood ==
  ASSUME NEW d, Good(d), d.state = "SELECTING", NEW a \in Addrs, NEW ok \in BOOLEAN
  PROVE  Good(HandleOffer(d, a, ok)) /\ HandleOffer(d, a, ok).state # "OFF"
<1>1. d \in Client /\ d.ip = NoAddr /\ LeaseOK(d)
  BY NoLease DEF Supplied
<1> DEFINE f == [d EXCEPT !.request_timeout = 0, !.offered_ip_addr = a]
<1>2. ASSUME NEW r \in {0, 1}, NEW g, g = [d EXCEPT !.request_timeout = r, !.offered_ip_addr = a]
      PROVE  g \in Client /\ g.ip = d.ip /\ g.lease_used = d.lease_used
             /\ g.t0_timeout = d.t0_timeout
  BY <1>1, <1>2 DEF Client
<1>3. 0 \in {0, 1}
  OBVIOUS
<1>4. f \in Client /\ f.ip = d.ip /\ f.lease_used = d.lease_used /\ f.t0_timeout = d.t0_timeout
  BY <1>2, <1>3
<1>5. HandleOffer(d, a, ok) = Select(f, ok)
  BY DEF HandleOffer
<1> HIDE DEF f
<1>6. LeaseOK(f)
  BY <1>1, <1>4 DEF LeaseOK
<1> QED BY <1>1, <1>4, <1>5, <1>6, SelectGood

\* Quotients and remainders of natural numbers are natural numbers.
LEMMA DivNat ==
  ASSUME NEW a \in Nat, NEW n \in Nat \ {0}
  PROVE  a \div n \in Nat /\ a % n \in Nat
BY SMT

\* The times of an ACK are natural numbers.
LEMMA HandleAckFacts ==
  ASSUME NEW d \in Client, NEW a \in Addrs, NEW o \in Opts, NEW e, e = HandleAck(d, a, o)
  PROVE  /\ e \in Client /\ e.state = d.state /\ e.ip = d.ip /\ e.offered_ip_addr = a
         /\ e.pcb_allocated = d.pcb_allocated
         /\ e.lease_used = d.lease_used /\ e.t0_timeout = d.t0_timeout
<1> DEFINE lease == IF o.lease = NotGiven THEN d.offered_t0_lease ELSE o.lease
           t1 == IF o.t1 = NotGiven THEN lease \div 2 ELSE o.t1
           t2 == IF o.t2 = NotGiven THEN ((lease * 7) % (U32Max + 1)) \div 8 ELSE o.t2
<1>1. o \in [lease : 0 .. U32Max \cup {NotGiven}, t1 : 0 .. U32Max \cup {NotGiven},
             t2 : 0 .. U32Max \cup {NotGiven}]
  BY OptsAssumption
<1>2. d.offered_t0_lease \in Nat /\ U32Max \in Nat
  BY WidthAssumption DEF Client
<1>3. lease \in Nat
  BY <1>1, <1>2
<1> HIDE DEF lease
<1>4. t1 \in Nat
  BY <1>1, <1>2, <1>3, DivNat
<1>5. t2 \in Nat
  <2>1. lease * 7 \in Nat /\ U32Max + 1 \in Nat \ {0}
    BY <1>2, <1>3
  <2>2. (lease * 7) % (U32Max + 1) \in Nat
    BY <2>1, DivNat
  <2>3. ((lease * 7) % (U32Max + 1)) \div 8 \in Nat
    BY <2>2, DivNat
  <2> QED BY <1>1, <1>2, <2>3
<1>6. e = [d EXCEPT !.offered_t0_lease = lease, !.offered_t1_renew = t1,
                    !.offered_t2_rebind = t2, !.offered_ip_addr = a]
  BY DEF HandleAck, lease
<1> HIDE DEF t1, t2
<1> QED BY <1>3, <1>4, <1>5, <1>6 DEF Client

\* A finite period is at least one tick and fits 16 bits.
LEMMA TicksFacts ==
  ASSUME NEW n \in Nat
  PROVE  Ticks(n) \in 1 .. U16Max
<1> DEFINE t == ((n + CoarseSecs \div 2) % (U32Max + 1)) \div CoarseSecs
<1>1. CoarseSecs \in Nat \ {0} /\ U32Max + 1 \in Nat \ {0} /\ U16Max \in Nat \ {0}
  BY WidthAssumption
<1>2. CoarseSecs \div 2 \in Nat
  BY <1>1, DivNat
<1>3. (n + CoarseSecs \div 2) % (U32Max + 1) \in Nat
  <2> DEFINE k == CoarseSecs \div 2
  <2>1. n + k \in Nat
    BY <1>2
  <2> HIDE DEF k
  <2>2. (n + k) % (U32Max + 1) \in Nat
    BY <1>1, <2>1, DivNat
  <2> QED BY <2>2 DEF k
<1>4. t \in Nat
  BY <1>1, <1>3, DivNat
<1>5. Ticks(n) = IF t = 0 THEN 1 ELSE IF t > U16Max THEN U16Max ELSE t
  BY DEF Ticks
<1> HIDE DEF t
<1> QED BY <1>1, <1>4, <1>5

\* dhcp_bind() puts the offered address on the interface and starts its lease.
LEMMA BindGood ==
  ASSUME NEW d \in Client
  PROVE  Good(Bind(d)) /\ Bind(d).state # "OFF"
<1>0. PICK zero \in 0 .. U16Max : zero = 0
  BY WidthAssumption
<1> DEFINE t0 == IF d.offered_t0_lease = Infinite THEN d.t0_timeout ELSE Ticks(d.offered_t0_lease)
           t2 == IF d.offered_t2_rebind = Infinite THEN d.t2_timeout ELSE Ticks(d.offered_t2_rebind)
           f == SetState(d, "BOUND")
           r1 == IF d.offered_t1_renew = Infinite THEN f.t1_renew_time ELSE Ticks(d.offered_t1_renew)
           r2 == IF d.offered_t2_rebind = Infinite THEN f.t2_rebind_time ELSE t2
           e == [f EXCEPT !.lease_used = zero, !.t0_timeout = t0, !.t2_timeout = t2,
                          !.t1_renew_time = r1, !.t2_rebind_time = r2,
                          !.ip = d.offered_ip_addr]
<1>1. f \in Client /\ f.state = "BOUND" /\ Same(f, d)
  BY SetStateFacts DEF State
<1>2. Bind(d) = e
  BY <1>0 DEF Bind
<1> HIDE DEF f
<1>3. /\ d.offered_t0_lease \in Nat /\ d.offered_t1_renew \in Nat /\ d.offered_t2_rebind \in Nat
      /\ d.t0_timeout \in 0 .. U16Max /\ d.t2_timeout \in 0 .. U16Max
      /\ f.t1_renew_time \in 0 .. U16Max /\ f.t2_rebind_time \in 0 .. U16Max
      /\ d.offered_ip_addr \in Addrs \cup {NoAddr} /\ f.offered_ip_addr = d.offered_ip_addr
  BY <1>1 DEF Client, Same
<1>4. 1 .. U16Max \subseteq 0 .. U16Max /\ 0 \in 0 .. U16Max
  BY WidthAssumption
<1>5. t0 \in 0 .. U16Max /\ t2 \in 0 .. U16Max
  BY <1>3, <1>4, TicksFacts
<1> HIDE DEF t0, t2
<1>6. r1 \in 0 .. U16Max /\ r2 \in 0 .. U16Max
  BY <1>3, <1>4, <1>5, TicksFacts
<1> HIDE DEF r1, r2
<1>7. /\ e \in Client /\ e.state = f.state /\ e.ip = d.offered_ip_addr
      /\ e.offered_ip_addr = f.offered_ip_addr
      /\ e.lease_used = zero /\ e.t0_timeout = t0
  <2>1. d.offered_ip_addr \in Addrs \cup {NoAddr, Static}
    BY <1>3
  <2> QED BY <1>1, <1>5, <1>6, <2>1 DEF Client
<1>8. /\ e \in Client /\ e.state = "BOUND" /\ e.ip = e.offered_ip_addr
      /\ e.ip \in Addrs \cup {NoAddr} /\ e.lease_used = 0 /\ e.t0_timeout = t0
  <2> HIDE DEF e
  <2> QED BY <1>0, <1>1, <1>3, <1>7
<1> HIDE DEF e
<1>9. LeaseOK(e)
  BY <1>5, <1>8, WidthAssumption DEF LeaseOK
<1>10. e.ip # Static
  BY <1>8, AddrAssumption
<1> QED BY <1>2, <1>8, <1>9, <1>10 DEF Good, Supplied

----------------------------------------------------------------------------
(* Stopping and starting.                                                  *)

\* dhcp_release_and_stop() leaves a client that is off and has no address.
LEMMA StopFacts ==
  ASSUME NEW d, Good(d), NEW ok \in BOOLEAN, NEW e, e = ReleaseAndStop(d, ok)
  PROVE  /\ Good(e) /\ e.state = "OFF" /\ e.pcb_allocated = 0
         /\ d.state # "OFF" => e.ip = NoAddr
<1>1. CASE d.state = "OFF"
  BY <1>1 DEF ReleaseAndStop, Good
<1>2. CASE d.state # "OFF"
  <2> DEFINE f == [d EXCEPT !.offered_ip_addr = NoAddr,
                            !.offered_t0_lease = 0, !.offered_t1_renew = 0,
                            !.offered_t2_rebind = 0, !.t1_renew_time = 0,
                            !.t2_rebind_time = 0, !.lease_used = 0, !.t0_timeout = 0,
                            !.closed = @ \cup {d.xid}]
             g == IF Supplied(d) THEN CreateMsg(f, "RELEASE", ok) ELSE f
             h == [g EXCEPT !.ip = NoAddr]
             k == SetState(h, "OFF")
  <2>1. d \in Client /\ d.ip # Static /\ d.closed \cup {d.xid} \in SUBSET Nat
    BY <1>2 DEF Good, Client
  <2>2. f \in Client /\ f.ip = d.ip /\ f.t0_timeout = 0
    <3>1. PICK z \in 0 .. U16Max : z = 0
      BY WidthAssumption
    <3>2. PICK n \in Nat : n = 0
      OBVIOUS
    <3>3. PICK S \in SUBSET Nat : S = d.closed \cup {d.xid}
      BY <2>1
    <3> DEFINE j == [d EXCEPT !.offered_ip_addr = NoAddr,
                              !.offered_t0_lease = n, !.offered_t1_renew = n,
                              !.offered_t2_rebind = n, !.t1_renew_time = z,
                              !.t2_rebind_time = z, !.lease_used = z, !.t0_timeout = z,
                              !.closed = S]
    <3>4. j \in Client /\ j.ip = d.ip /\ j.t0_timeout = z
      BY <2>1 DEF Client
    <3>5. f = j
      BY <3>1, <3>2, <3>3
    <3> HIDE DEF f, j
    <3> QED BY <3>1, <3>4, <3>5
  <2> HIDE DEF f
  <2>3. g \in Client /\ g.t0_timeout = 0
    <3>1. CASE Supplied(d)
      <4>1. CreateMsg(f, "RELEASE", ok) \in Client /\ Same(CreateMsg(f, "RELEASE", ok), f)
        BY <2>1, <2>2, CreateMsgFacts
      <4> QED BY <2>2, <3>1, <4>1 DEF Same
    <3>2. CASE ~Supplied(d)
      BY <2>2, <3>2
    <3> QED BY <3>1, <3>2
  <2>4. ReleaseAndStop(d, ok) = [SetState([g EXCEPT !.ip = NoAddr], "OFF") EXCEPT !.pcb_allocated = 0]
    BY <1>2 DEF ReleaseAndStop, f
  <2> HIDE DEF g
  <2>5. h \in Client /\ h.ip = NoAddr /\ h.t0_timeout = 0
    BY <2>3 DEF Client
  <2> HIDE DEF h
  <2>6. k \in Client /\ k.state = "OFF" /\ Same(k, h)
    BY <2>5, SetStateFacts DEF State
  <2>7. e = [k EXCEPT !.pcb_allocated = 0]
    BY <2>4 DEF h
  <2> HIDE DEF k
  <2>8. ASSUME NEW r \in {0, 1}, NEW j, j = [k EXCEPT !.pcb_allocated = r]
        PROVE  /\ j \in Client /\ j.state = k.state /\ j.ip = k.ip
               /\ j.t0_timeout = k.t0_timeout /\ j.pcb_allocated = r
    BY <2>6, <2>8 DEF Client
  <2>9. 0 \in {0, 1}
    OBVIOUS
  <2>10. /\ e \in Client /\ e.state = k.state /\ e.ip = k.ip
         /\ e.t0_timeout = k.t0_timeout /\ e.pcb_allocated = 0
    BY <2>7, <2>8, <2>9
  <2>11. e.state = "OFF" /\ e.ip = NoAddr /\ e.t0_timeout = 0
    BY <2>5, <2>6, <2>10 DEF Same
  <2> QED BY <2>10, <2>11, AddrAssumption DEF Good, LeaseOK
<1> QED BY <1>1, <1>2

\* dhcp_start() begins from a cleared structure.
LEMMA StartGood ==
  ASSUME NEW d \in Client, d.ip = NoAddr, NEW ok \in BOOLEAN
  PROVE  Good(Start(d, ok)) /\ Start(d, ok).state # "OFF"
<1> DEFINE f == [Cleared(d) EXCEPT !.pcb_allocated = 1]
           g == Cleared(d)
<1>1. g \in Client /\ g.ip = NoAddr /\ g.t0_timeout = 0
  <2>1. PICK z \in 0 .. U16Max : z = 0
    BY WidthAssumption
  <2>2. PICK n \in Nat : n = 0
    OBVIOUS
  <2>3. PICK r \in {0, 1} : r = 0
    OBVIOUS
  <2>4. PICK t \in 0 .. TriesMax : t = 0
    BY WidthAssumption
  <2> DEFINE j == [d EXCEPT !.state = "OFF", !.tries = t, !.request_timeout = r,
                            !.pcb_allocated = r, !.xid = n, !.offered_ip_addr = NoAddr,
                            !.offered_t0_lease = n, !.offered_t1_renew = n,
                            !.offered_t2_rebind = n, !.lease_used = z, !.t0_timeout = z,
                            !.t2_timeout = z, !.t1_renew_time = z, !.t2_rebind_time = z]
  <2>5. j \in Client /\ j.ip = d.ip /\ j.t0_timeout = z
    BY DEF Client, State
  <2>6. g = j
    BY <2>1, <2>2, <2>3, <2>4 DEF Cleared
  <2> HIDE DEF g, j
  <2> QED BY <2>1, <2>5, <2>6
<1> HIDE DEF g
<1>2. ASSUME NEW r \in {0, 1}, NEW j, j = [g EXCEPT !.pcb_allocated = r]
      PROVE  j \in Client /\ j.ip = g.ip /\ j.t0_timeout = g.t0_timeout
  BY <1>1, <1>2 DEF Client
<1>3. 1 \in {0, 1} /\ f = [g EXCEPT !.pcb_allocated = 1]
  BY DEF g
<1>4. f \in Client /\ f.ip = NoAddr /\ f.t0_timeout = 0
  BY <1>1, <1>2, <1>3
<1>5. Start(d, ok) = Discover(f, ok)
  BY DEF Start
<1> HIDE DEF f
<1> QED BY <1>4, <1>5, DiscoverGood DEF LeaseOK

\* dhcp_release_and_stop() and dhcp_start(), as a lease that ends or a REQUEST
\* without an answer calls them.
LEMMA RestartGood ==
  ASSUME NEW d, Good(d), d.state # "OFF", NEW okRelease \in BOOLEAN, NEW ok \in BOOLEAN
  PROVE  Good(Restart(d, okRelease, ok)) /\ Restart(d, okRelease, ok).state # "OFF"
<1> DEFINE e == ReleaseAndStop(d, okRelease)
<1>1. e \in Client /\ e.ip = NoAddr
  BY StopFacts DEF Good
<1>2. Restart(d, okRelease, ok) = Start(e, ok)
  BY DEF Restart
<1> HIDE DEF e
<1> QED BY <1>1, <1>2, StartGood

----------------------------------------------------------------------------
(* The timers.                                                             *)

\* request_timeout has no part in the invariant.
LEMMA WaitGood ==
  ASSUME NEW d, Good(d), NEW e, e = [d EXCEPT !.request_timeout = 0]
  PROVE  Good(e) /\ e.state = d.state /\ Same(e, d)
<1>1. PICK r \in {0, 1} : r = 0
  OBVIOUS
<1>2. e = [d EXCEPT !.request_timeout = r]
  BY <1>1
<1>3. d \in Client
  BY DEF Good
<1>4. e \in Client /\ e.state = d.state /\ Same(e, d)
  BY <1>2, <1>3 DEF Client, Same
<1> QED BY <1>4 DEF Good, Same, LeaseOK, Supplied

\* dhcp_timeout() in every state; a client that is off stays as it is.
LEMMA TimeoutGood ==
  ASSUME NEW d, Good(d), NEW okRelease \in BOOLEAN, NEW ok \in BOOLEAN,
         NEW e, e = Timeout(d, okRelease, ok)
  PROVE  /\ Good(e)
         /\ d.state = "OFF" => e = d
         /\ d.state # "OFF" => e.state # "OFF"
<1>0. d \in Client /\ d.tries \in Nat
  BY WidthAssumption DEF Good, Client
<1>1. CASE d.state \in {"BACKING_OFF", "SELECTING"}
  <2>1. d.ip = NoAddr /\ LeaseOK(d)
    BY <1>1, NoLease DEF Supplied
  <2>2. e = Discover(d, ok)
    BY <1>1 DEF Timeout
  <2> QED BY <1>0, <1>1, <2>1, <2>2, DiscoverGood
<1>2. CASE d.state = "REQUESTING" /\ d.tries <= 5
  <2>1. d.ip = NoAddr /\ LeaseOK(d)
    BY <1>2, NoLease DEF Supplied
  <2>2. e = Select(d, ok)
    BY <1>2, <1>0 DEF Timeout
  <2> QED BY <1>0, <1>2, <2>1, <2>2, SelectGood
<1>3. CASE d.state = "REQUESTING" /\ d.tries > 5
  <2>1. e = Restart(d, okRelease, ok)
    BY <1>3, <1>0 DEF Timeout
  <2> QED BY <1>3, <2>1, RestartGood
<1>4. CASE d.state = "CHECKING" /\ d.tries <= 1
  <2>1. d.ip = NoAddr /\ LeaseOK(d)
    BY <1>4, NoLease DEF Supplied
  <2>2. e = Check(d)
    BY <1>4, <1>0 DEF Timeout
  <2> QED BY <1>0, <1>4, <2>1, <2>2, CheckGood
<1>5. CASE d.state = "CHECKING" /\ d.tries > 1
  <2>1. e = Bind(d)
    BY <1>5, <1>0 DEF Timeout
  <2> QED BY <1>0, <1>5, <2>1, BindGood
<1>6. CASE d.state \notin {"BACKING_OFF", "SELECTING", "REQUESTING", "CHECKING"}
  <2>1. e = d
    BY <1>6 DEF Timeout
  <2> QED BY <2>1
<1>7. d.tries <= 5 \/ d.tries > 5
  BY <1>0
<1>8. d.tries <= 1 \/ d.tries > 1
  BY <1>0
<1> QED BY <1>1, <1>2, <1>3, <1>4, <1>5, <1>6, <1>7, <1>8

\* Half of what is left of a period fits 16 bits.
LEMMA HalvedType ==
  ASSUME NEW end \in 0 .. U16Max, NEW used \in 0 .. U16Max, NEW old \in 0 .. U16Max
  PROVE  Halved(end, used, old) \in 0 .. U16Max
<1>1. U16Max \in Nat
  BY WidthAssumption
<1>2. (end - used) \div 2 <= U16Max /\ (end - used) \div 2 \in Int
  BY <1>1
<1> QED BY <1>1, <1>2 DEF Halved

\* dhcp_t1_timeout() and dhcp_t2_timeout() ask for a longer use.
LEMMA T1Good ==
  ASSUME NEW d, Good(d), d.state # "OFF", NEW ok \in BOOLEAN, NEW e, e = T1Timeout(d, ok)
  PROVE  Good(e) /\ e.state # "OFF"
<1>1. CASE d.state \notin {"REQUESTING", "BOUND", "RENEWING"}
  BY <1>1 DEF T1Timeout
<1>2. CASE d.state \in {"REQUESTING", "BOUND", "RENEWING"}
  <2> DEFINE f == Renew(d, ok)
             n == Halved(d.t2_timeout, d.lease_used, f.t1_renew_time)
  <2>1. Good(f) /\ f.state = "RENEWING"
    BY ExtendGood DEF Renew
  <2>2. e = [f EXCEPT !.t1_renew_time = n]
    BY <1>2 DEF T1Timeout
  <2> HIDE DEF f
  <2>3. n \in 0 .. U16Max
    BY <2>1, HalvedType DEF Good, Client
  <2> HIDE DEF n
  <2>4. f \in Client
    BY <2>1 DEF Good
  <2>5. e \in Client /\ e.state = f.state /\ Same(e, f)
    BY <2>2, <2>3, <2>4 DEF Client, Same
  <2> QED BY <2>1, <2>4, <2>5, GoodCopy DEF Good, Supplied
<1> QED BY <1>1, <1>2

\* The same for rebinding.
LEMMA T2Good ==
  ASSUME NEW d, Good(d), d.state # "OFF", NEW ok \in BOOLEAN, NEW e, e = T2Timeout(d, ok)
  PROVE  Good(e) /\ e.state # "OFF"
<1>1. CASE d.state \notin {"REQUESTING", "BOUND", "RENEWING", "REBINDING"}
  BY <1>1 DEF T2Timeout
<1>2. CASE d.state \in {"REQUESTING", "BOUND", "RENEWING", "REBINDING"}
  <2> DEFINE f == Rebind(d, ok)
             n == Halved(d.t0_timeout, d.lease_used, f.t2_rebind_time)
  <2>1. Good(f) /\ f.state = "REBINDING"
    BY ExtendGood DEF Rebind
  <2>2. e = [f EXCEPT !.t2_rebind_time = n]
    BY <1>2 DEF T2Timeout
  <2> HIDE DEF f
  <2>3. n \in 0 .. U16Max
    BY <2>1, HalvedType DEF Good, Client
  <2> HIDE DEF n
  <2>4. f \in Client
    BY <2>1 DEF Good
  <2>5. e \in Client /\ e.state = f.state /\ Same(e, f)
    BY <2>2, <2>3, <2>4 DEF Client, Same
  <2> QED BY <2>1, <2>4, <2>5, GoodCopy DEF Good, Supplied
<1> QED BY <1>1, <1>2

\* A tick in which the lease does not end brings lease_used closer to t0_timeout,
\* and not past it.
LEMMA TickLease ==
  ASSUME NEW d, Good(d), ~LeaseEnds(d),
         NEW n, n = IF d.t0_timeout = 0 THEN d.lease_used ELSE Inc16(d.lease_used)
  PROVE  n \in 0 .. U16Max /\ (d.t0_timeout # 0 => n < d.t0_timeout)
<1>1. d.lease_used \in 0 .. U16Max /\ d.t0_timeout \in 0 .. U16Max /\ U16Max \in Nat
  BY WidthAssumption DEF Good, Client
<1> QED BY <1>1 DEF Good, LeaseOK, LeaseEnds, Inc16

\* Counting a timer down to zero keeps its range.
LEMMA TimerDown ==
  ASSUME NEW n \in 0 .. U16Max
  PROVE  (IF n = 0 THEN 0 ELSE n - 1) \in 0 .. U16Max
BY WidthAssumption

\* dhcp_coarse_tmr() with its three timers.
LEMMA CoarseTmrGood ==
  ASSUME NEW c0, Good(c0), NEW okRelease \in BOOLEAN, NEW ok \in BOOLEAN,
         NEW r, r = CoarseTmr(c0, okRelease, ok)
  PROVE  /\ Good(r)
         /\ c0.state = "OFF" => r = c0
         /\ c0.state # "OFF" => r.state # "OFF"
<1>1. CASE c0.state = "OFF"
  BY <1>1 DEF CoarseTmr
<1>2. CASE c0.state # "OFF" /\ LeaseEnds(c0)
  BY <1>2, RestartGood DEF CoarseTmr
<1>3. CASE c0.state # "OFF" /\ ~LeaseEnds(c0)
  <2> DEFINE n == IF c0.t0_timeout = 0 THEN c0.lease_used ELSE Inc16(c0.lease_used)
             d == [c0 EXCEPT !.lease_used = n]
             t2 == IF d.t2_rebind_time = 0 THEN 0 ELSE d.t2_rebind_time - 1
             e == [d EXCEPT !.t2_rebind_time = t2]
             t1 == IF e.t1_renew_time = 0 THEN 0 ELSE e.t1_renew_time - 1
             f == [e EXCEPT !.t1_renew_time = t1]
  <2>1. /\ n \in 0 .. U16Max
        /\ c0.t0_timeout # 0 => n < c0.t0_timeout
    BY <1>3, TickLease
  <2>2. r = CASE c0.t2_rebind_time = 1                            -> T2Timeout(e, ok)
              [] c0.t2_rebind_time # 1 /\ c0.t1_renew_time = 1   -> T1Timeout(f, ok)
              [] c0.t2_rebind_time # 1 /\ c0.t1_renew_time # 1   -> f
    BY <1>3 DEF CoarseTmr
  <2> HIDE DEF n
  <2>3. c0 \in Client /\ d \in Client
    BY <2>1 DEF Good, Client
  <2>4. d.state = c0.state /\ d.ip = c0.ip /\ d.offered_ip_addr = c0.offered_ip_addr
        /\ d.lease_used = n /\ d.t0_timeout = c0.t0_timeout
    BY <2>3 DEF Client
  <2> HIDE DEF d
  <2>5. Good(d) /\ d.state # "OFF"
    BY <1>3, <2>1, <2>3, <2>4 DEF Good, LeaseOK, Supplied
  <2>6. t2 \in 0 .. U16Max
    BY <2>3, TimerDown DEF Client
  <2> HIDE DEF t2
  <2>7. e \in Client /\ e.state = d.state /\ Same(e, d)
    BY <2>3, <2>6 DEF Client, Same
  <2> HIDE DEF e
  <2>8. Good(e)
    BY <2>3, <2>5, <2>7, GoodCopy DEF Good, Supplied
  <2>9. t1 \in 0 .. U16Max
    BY <2>7, TimerDown DEF Client
  <2> HIDE DEF t1
  <2>10. f \in Client /\ f.state = e.state /\ Same(f, e)
    BY <2>7, <2>9 DEF Client, Same
  <2> HIDE DEF f
  <2>11. Good(f) /\ e.state # "OFF" /\ f.state # "OFF"
    BY <2>5, <2>7, <2>8, <2>10, GoodCopy DEF Good, Supplied
  <2>12. CASE c0.t2_rebind_time = 1
    BY <2>2, <2>8, <2>11, <2>12, T2Good, <1>3
  <2>13. CASE c0.t2_rebind_time # 1 /\ c0.t1_renew_time = 1
    BY <2>2, <2>11, <2>13, T1Good, <1>3
  <2>14. CASE c0.t2_rebind_time # 1 /\ c0.t1_renew_time # 1
    BY <2>2, <2>11, <2>14, <1>3
  <2> QED BY <2>12, <2>13, <2>14
<1> QED BY <1>1, <1>2, <1>3

----------------------------------------------------------------------------
(* Input.                                                                  *)

\* What the network sends carries addresses of Addrs and times of Opts.
LEMMA RepliesFacts ==
  ASSUME c \in Client, NEW m \in Replies
  PROVE  /\ m.type \in {"OFFER", "ACK", "NAK"}
         /\ m.type \in {"OFFER", "ACK"} => m.addr \in Addrs
         /\ m.type = "ACK" => m.opts \in Opts
<1>1. c.sent \subseteq Msg
  BY DEF Client
<1>2. \A k \in c.sent : k.type = "REQUEST" => k.addr \in Addrs
  BY <1>1 DEF Msg
<1> QED BY <1>2 DEF Replies

\* dhcp_recv(): a client that is off does not listen.
LEMMA RecvGood ==
  ASSUME Good(c), NEW m \in Replies, NEW ok \in BOOLEAN, NEW e, e = Recv(c, m, ok)
  PROVE  Good(e) /\ (c.state = "OFF" => e = c)
<1>0. /\ c \in Client /\ LeaseOK(c)
      /\ m.type \in {"OFFER", "ACK", "NAK"}
      /\ m.type \in {"OFFER", "ACK"} => m.addr \in Addrs
      /\ m.type = "ACK" => m.opts \in Opts
  BY RepliesFacts DEF Good
<1>1. c.pcb_allocated \in {0, 1}
  BY <1>0 DEF Client
<1>2. CASE c.pcb_allocated = 0 \/ m.xid # c.xid
  BY <1>2 DEF Recv
<1>3. CASE c.pcb_allocated = 1 /\ m.xid = c.xid
  <2> DEFINE h == HandleAck(c, m.addr, m.opts)
  <2>1. e = CASE m.type = "ACK" /\ c.state = "REQUESTING" -> Check(h)
              [] m.type = "ACK" /\ c.state \in {"REBINDING", "RENEWING"} -> Bind(h)
              [] m.type = "NAK" /\ c.state \in {"REQUESTING", "REBINDING", "RENEWING"}
                                                                    -> HandleNak(c, ok)
              [] m.type = "OFFER" /\ c.state = "SELECTING" -> HandleOffer(c, m.addr, ok)
              [] OTHER -> c
    BY <1>3 DEF Recv
  <2>2. m.type = "ACK" => /\ h \in Client /\ h.ip = c.ip
                          /\ h.lease_used = c.lease_used /\ h.t0_timeout = c.t0_timeout
    BY <1>0, HandleAckFacts
  <2> HIDE DEF h
  <2>3. c.state # "OFF"
    BY <1>3 DEF Good
  <2>4. CASE m.type = "ACK" /\ c.state = "REQUESTING"
    <3>1. c.ip = NoAddr
      BY <2>4, NoLease DEF Supplied
    <3>2. h \in Client /\ h.ip = NoAddr /\ LeaseOK(h)
      BY <1>0, <2>2, <2>4, <3>1 DEF LeaseOK
    <3>3. e = Check(h)
      BY <2>1, <2>4
    <3> QED BY <2>3, <3>2, <3>3, CheckGood
  <2>5. CASE m.type = "ACK" /\ c.state \in {"REBINDING", "RENEWING"}
    <3>1. e = Bind(h)
      BY <2>1, <2>5
    <3> QED BY <2>2, <2>3, <2>5, <3>1, BindGood
  <2>6. CASE m.type = "NAK" /\ c.state \in {"REQUESTING", "REBINDING", "RENEWING"}
    <3>1. e = HandleNak(c, ok)
      BY <2>1, <2>6
    <3> QED BY <2>3, <3>1, HandleNakGood
  <2>7. CASE m.type = "OFFER" /\ c.state = "SELECTING"
    <3>1. e = HandleOffer(c, m.addr, ok)
      BY <2>1, <2>7
    <3> QED BY <1>0, <2>3, <2>7, <3>1, HandleOfferGood
  <2>8. CASE ~ \/ m.type = "ACK" /\ c.state = "REQUESTING"
               \/ m.type = "ACK" /\ c.state \in {"REBINDING", "RENEWING"}
               \/ m.type = "NAK" /\ c.state \in {"REQUESTING", "REBINDING", "RENEWING"}
               \/ m.type = "OFFER" /\ c.state = "SELECTING"
    <3>1. e = c
      BY <2>1, <2>8
    <3> QED BY <3>1
  <2> QED BY <2>4, <2>5, <2>6, <2>7, <2>8
<1> QED BY <1>1, <1>2, <1>3

\* dhcp_arp_reply(): only a client that is CHECKING declines.
LEMMA ArpReplyGood ==
  ASSUME Good(c), NEW a \in Addrs, NEW ok \in BOOLEAN, NEW e, e = ArpReply(c, a, ok)
  PROVE  Good(e) /\ (c.state = "OFF" => e = c)
BY DeclineGood DEF ArpReply

----------------------------------------------------------------------------
(* The main loop.                                                          *)

\* The inductive invariant: a client that keeps its lease and its address
\* together, and agrees with the start-up state machine.
Inv ==
  /\ TypeOK
  /\ Good(c)
  /\ ~attached => c.state = "OFF"
  /\ DHCP_state = "START" => ~attached /\ c.ip = NoAddr
  /\ StaticIsFinal

\* Allocation failures stay within their bound.
LEMMA CallFacts ==
  ASSUME NEW d, NEW okRelease \in BOOLEAN, NEW ok \in BOOLEAN, Call(d, okRelease, ok),
         fails \in 0 .. MaxAllocFails
  PROVE  c' = d /\ fails' \in 0 .. MaxAllocFails
<1>1. fails \in Nat /\ MaxAllocFails \in Nat
  BY BoundsAssumption
<1> QED BY <1>1 DEF Call

\* A step that leaves DHCP_state and attached alone, and a client that is off as it is.
LEMMA ClientStep ==
  ASSUME Inv, TypeOK', Good(c'), UNCHANGED <<attached, DHCP_state>>,
         c.state = "OFF" => c'.state = "OFF" /\ c'.ip = c.ip /\ c'.pcb_allocated = c.pcb_allocated
  PROVE  Inv'
<1>1. (~attached => c.state = "OFF")'
  BY DEF Inv
<1>2. (DHCP_state = "START" => ~attached /\ c.ip = NoAddr)'
  BY DEF Inv
<1>3. StaticIsFinal'
  BY DEF Inv, StaticIsFinal
<1>4. Good(c)'
  BY DEF Good, Supplied, LeaseOK
<1> QED BY <1>1, <1>2, <1>3, <1>4 DEF Inv

\* lwip_init_task() leaves a client that is off, without an address.
LEMMA InitInv == Init => Inv
<1> SUFFICES ASSUME Init PROVE Inv
  OBVIOUS
<1>1. PICK z \in 0 .. U16Max : z = 0
  BY WidthAssumption
<1>2. PICK n \in Nat : n = 0
  OBVIOUS
<1>3. PICK r \in {0, 1} : r = 0
  OBVIOUS
<1>4. PICK t \in 0 .. TriesMax : t = 0
  BY WidthAssumption
<1> DEFINE d == [state |-> "OFF", tries |-> t, request_timeout |-> r,
                 pcb_allocated |-> r, xid |-> n, next_xid |-> n, offered_ip_addr |-> NoAddr,
                 offered_t0_lease |-> n, offered_t1_renew |-> n, offered_t2_rebind |-> n,
                 lease_used |-> z, t0_timeout |-> z, t2_timeout |-> z,
                 t1_renew_time |-> z, t2_rebind_time |-> z, ip |-> NoAddr,
                 sent |-> {}, closed |-> {}]
<1>5. d \in Client /\ d.state = "OFF" /\ d.ip = NoAddr /\ d.t0_timeout = z /\ d.pcb_allocated = r
  BY DEF Client, State
<1>6. c = d
  BY <1>1, <1>2, <1>3, <1>4 DEF Init
<1> HIDE DEF d
<1>7. Good(c)
  BY <1>1, <1>3, <1>5, <1>6, AddrAssumption DEF Good, LeaseOK
<1>8. TypeOK
  <2>1. attached \in BOOLEAN /\ up \in BOOLEAN
    BY DEF Init
  <2>2. replies \in 0 .. MaxReplies /\ conflicts \in 0 .. MaxConflicts /\ fails \in 0 .. MaxAllocFails
    BY BoundsAssumption DEF Init
  <2> QED BY <1>5, <1>6, <2>1, <2>2 DEF Init, TypeOK
<1> QED BY <1>5, <1>6, <1>7, <1>8 DEF Init, Inv, StaticIsFinal

\* Every step of the main loop, of the timers and of the network keeps Inv.
LEMMA NextInv == Inv /\ [Next]_vars => Inv'
<1> SUFFICES ASSUME Inv, [Next]_vars PROVE Inv'
  OBVIOUS
<1>0. /\ TypeOK /\ Good(c) /\ c \in Client
      /\ replies \in Nat /\ conflicts \in Nat /\ fails \in 0 .. MaxAllocFails
      /\ MaxReplies \in Nat /\ MaxConflicts \in Nat
  BY BoundsAssumption DEF Inv, TypeOK
<1>1. CASE InputNone \/ FineTick \/ TimersDone \/ MainLoop \/ HandleNothing \/ HandleWait
           \/ (\E S \in SUBSET {"fine", "coarse"} : CheckTimeouts(S)) \/ UNCHANGED vars
  <2>1. UNCHANGED <<c, attached, up, DHCP_state, replies, conflicts, fails>>
    BY <1>1 DEF InputNone, FineTick, TimersDone, MainLoop, HandleNothing, HandleWait,
                CheckTimeouts, vars, loopvars
  <2>2. /\ pc' \in {"input", "timeouts", "timers", "handle", "main"}
        /\ due' \subseteq {"fine", "coarse"} /\ main' \in {"wait", "serve"}
    BY <1>0, <1>1 DEF InputNone, FineTick, TimersDone, MainLoop, HandleNothing, HandleWait,
                CheckTimeouts, TypeOK, vars, loopvars
  <2>3. (attached \in BOOLEAN /\ up \in BOOLEAN)'
    BY <1>0, <2>1 DEF TypeOK
  <2>4. TypeOK'
    BY <1>0, <2>1, <2>2, <2>3 DEF TypeOK
  <2> QED BY <1>0, <2>1, <2>4, ClientStep
<1>2. ASSUME NEW m \in Replies, NEW ok \in BOOLEAN, InputReply(m, ok)
      PROVE  Inv'
  <2>1. c' = Recv(c, m, ok) /\ fails' \in 0 .. MaxAllocFails
    BY <1>0, <1>2, CallFacts DEF InputReply
  <2>2. Good(c') /\ (c.state = "OFF" => c' = c)
    BY <1>0, <2>1, RecvGood
  <2>3. (attached \in BOOLEAN /\ up \in BOOLEAN)'
    BY <1>0, <1>2 DEF InputReply, TypeOK
  <2>4. (replies \in 0 .. MaxReplies /\ conflicts \in 0 .. MaxConflicts)'
    BY <1>0, <1>2 DEF InputReply, TypeOK
  <2>5. TypeOK'
    BY <1>0, <1>2, <2>1, <2>2, <2>3, <2>4 DEF InputReply, TypeOK, Good
  <2> QED BY <1>2, <2>2, <2>5, ClientStep DEF InputReply
<1>3. ASSUME NEW a \in Addrs, NEW ok \in BOOLEAN, InputArpReply(a, ok)
      PROVE  Inv'
  <2>1. c' = ArpReply(c, a, ok) /\ fails' \in 0 .. MaxAllocFails
    BY <1>0, <1>3, CallFacts DEF InputArpReply
  <2>2. Good(c') /\ (c.state = "OFF" => c' = c)
    BY <1>0, <2>1, ArpReplyGood
  <2>3. (attached \in BOOLEAN /\ up \in BOOLEAN)'
    BY <1>0, <1>3 DEF InputArpReply, TypeOK
  <2>4. (replies \in 0 .. MaxReplies /\ conflicts \in 0 .. MaxConflicts)'
    BY <1>0, <1>3 DEF InputArpReply, TypeOK
  <2>5. TypeOK'
    BY <1>0, <1>3, <2>1, <2>2, <2>3, <2>4 DEF InputArpReply, TypeOK, Good
  <2> QED BY <1>3, <2>2, <2>5, ClientStep DEF InputArpReply
<1>4. ASSUME NEW okRelease \in BOOLEAN, NEW ok \in BOOLEAN, FineTimeout(okRelease, ok)
      PROVE  Inv'
  <2> DEFINE d == [c EXCEPT !.request_timeout = 0]
  <2>1. c' = FineTmr(c, okRelease, ok) /\ fails' \in 0 .. MaxAllocFails
    BY <1>0, <1>4, CallFacts DEF FineTimeout
  <2>2. Good(d) /\ d.state = c.state /\ Same(d, c)
    BY <1>0, WaitGood
  <2>3. c' = Timeout(d, okRelease, ok)
    BY <2>1 DEF FineTmr
  <2> HIDE DEF d
  <2>4. Good(c') /\ (c.state = "OFF" => c' = d)
    BY <2>2, <2>3, TimeoutGood
  <2>5. (attached \in BOOLEAN /\ up \in BOOLEAN)'
    BY <1>0, <1>4 DEF FineTimeout, TypeOK
  <2>6. TypeOK'
    BY <1>0, <1>4, <2>1, <2>4, <2>5 DEF FineTimeout, TypeOK, Good
  <2>7. c.state = "OFF" => c'.state = "OFF" /\ c'.ip = c.ip /\ c'.pcb_allocated = c.pcb_allocated
    BY <2>2, <2>4 DEF Same
  <2> QED BY <1>4, <2>4, <2>6, <2>7, ClientStep DEF FineTimeout
<1>5. ASSUME NEW okRelease \in BOOLEAN, NEW ok \in BOOLEAN, CoarseTick(okRelease, ok)
      PROVE  Inv'
  <2>1. /\ c' = IF attached THEN CoarseTmr(c, okRelease, ok) ELSE c
        /\ fails' \in 0 .. MaxAllocFails
    BY <1>0, <1>5, CallFacts DEF CoarseTick
  <2>2. Good(c') /\ (c.state = "OFF" => c' = c)
    BY <1>0, <2>1, CoarseTmrGood
  <2>3. (attached \in BOOLEAN /\ up \in BOOLEAN)'
    BY <1>0, <1>5 DEF CoarseTick, TypeOK
  <2>4. TypeOK'
    BY <1>0, <1>5, <2>1, <2>2, <2>3 DEF CoarseTick, TypeOK, Good
  <2> QED BY <1>5, <2>2, <2>4, ClientStep DEF CoarseTick
<1>6. ASSUME NEW ok \in BOOLEAN, HandleStart(ok)
      PROVE  Inv'
  <2>1. c.ip = NoAddr /\ ~attached /\ c.state = "OFF"
    BY <1>6 DEF Inv, HandleStart
  <2>2. CASE up
    <3>1. c' = Start(c, ok) /\ fails' \in 0 .. MaxAllocFails
      BY <1>0, <1>6, <2>2, CallFacts DEF HandleStart
    <3>2. Good(c')
      BY <1>0, <2>1, <3>1, StartGood
    <3>3. attached' = TRUE /\ up' \in BOOLEAN
      BY <1>0, <1>6, <2>2 DEF HandleStart, TypeOK
    <3>4. TypeOK'
      BY <1>0, <1>6, <3>1, <3>2, <3>3 DEF HandleStart, TypeOK, Good
    <3>5. DHCP_state' = "WAIT_ADDRESS"
      BY <1>6 DEF HandleStart
    <3>6. Good(c)'
      BY <3>2 DEF Good, Supplied, LeaseOK
    <3> QED BY <3>3, <3>4, <3>5, <3>6 DEF Inv, StaticIsFinal
  <2>3. CASE ~up
    <3>1. UNCHANGED <<c, attached, up, fails>> /\ DHCP_state' = "WAIT_ADDRESS"
      BY <1>6, <2>3 DEF HandleStart
    <3>2. (attached \in BOOLEAN /\ up \in BOOLEAN)'
      BY <1>0, <3>1 DEF TypeOK
    <3>3. TypeOK'
      BY <1>0, <1>6, <3>1, <3>2 DEF HandleStart, TypeOK
    <3>4. Good(c)'
      BY <1>0, <3>1 DEF Good, Supplied, LeaseOK
    <3> QED BY <2>1, <3>1, <3>3, <3>4 DEF Inv, StaticIsFinal
  <2> QED BY <2>2, <2>3
<1>7. CASE HandleAssigned
  <2>1. UNCHANGED <<c, attached, up, fails>> /\ DHCP_state' = "ADDRESS_ASSIGNED"
    BY <1>7 DEF HandleAssigned
  <2>2. (attached \in BOOLEAN /\ up \in BOOLEAN)'
    BY <1>0, <2>1 DEF TypeOK
  <2>3. TypeOK'
    BY <1>0, <1>7, <2>1, <2>2 DEF HandleAssigned, TypeOK
  <2>4. Good(c)'
    BY <1>0, <2>1 DEF Good, Supplied, LeaseOK
  <2> QED BY <2>1, <2>3, <2>4 DEF Inv, StaticIsFinal
<1>8. CASE HandleTimeout
  <2> DEFINE d == ReleaseAndStop(c, TRUE)
  <2>1. Good(d) /\ d.state = "OFF" /\ d.pcb_allocated = 0
    BY <1>0, StopFacts
  <2>2. c' = [d EXCEPT !.ip = Static]
    BY <1>8 DEF HandleTimeout
  <2> HIDE DEF d
  <2>3. d \in Client
    BY <2>1 DEF Good
  <2>4. /\ c' \in Client /\ c'.state = d.state /\ c'.ip = Static
        /\ c'.pcb_allocated = d.pcb_allocated
        /\ c'.lease_used = d.lease_used /\ c'.t0_timeout = d.t0_timeout
    BY <2>2, <2>3 DEF Client
  <2>5. Good(c)'
    BY <2>1, <2>4, AddrAssumption DEF Good, LeaseOK
  <2>6. (attached \in BOOLEAN /\ up \in BOOLEAN)'
    BY <1>0, <1>8 DEF HandleTimeout, TypeOK
  <2>7. TypeOK'
    BY <1>0, <1>8, <2>4, <2>6 DEF HandleTimeout, TypeOK
  <2>8. DHCP_state' = "TIMEOUT"
    BY <1>8 DEF HandleTimeout
  <2> QED BY <2>1, <2>4, <2>5, <2>7, <2>8 DEF Inv, StaticIsFinal
<1> QED BY <1>1, <1>2, <1>3, <1>4, <1>5, <1>6, <1>7, <1>8 DEF Next, Input, Timers, Handle

----------------------------------------------------------------------------
\* The invariant holds from lwip_init_task() on, for every number of replies,
\* conflicts and allocation failures and every width of the counters.
THEOREM Invariance == Spec => []Inv
BY InitInv, NextInv, PTL DEF Spec

\* The variables of the start-up code and of the DHCP client keep to their types.
THEOREM TypeCorrect == Spec => []TypeOK
<1>1. Inv => TypeOK
  BY DEF Inv
<1> QED BY <1>1, Invariance, PTL

\* lwip_dhcp_process_handle() stops the client before it sets the static address:
\* nothing that arrives or expires later takes that address away.
THEOREM StaticStays == Spec => []StaticIsFinal
<1>1. Inv => StaticIsFinal
  BY DEF Inv
<1> QED BY <1>1, Invariance, PTL

\* Whatever replies, conflicts, refusals and timeouts come, in any number and
\* order, an address of a server is on the interface only under its lease.
THEOREM Leased == Spec => []AddressIsLeased
<1>1. Inv => AddressIsLeased
  BY DEF Inv, Good, Client, AddressIsLeased
<1> QED BY <1>1, Invariance, PTL

\* lease_used stays below t0_timeout, so that the test for equality in
\* dhcp_coarse_tmr() meets the end of every lease.
THEOREM LeaseMeetsItsEnd == Spec => []LeaseCountsDown
<1>1. Inv => LeaseCountsDown
  BY DEF Inv, Good, LeaseOK, LeaseCountsDown
<1> QED BY <1>1, Invariance, PTL

----------------------------------------------------------------------------
(* Transaction identifiers.  While there was memory for every message, the *)
(* identifiers that were used up are not above the counter they come from, *)
(* and a running client uses the latest one.                               *)

Below(d) == \A y \in d.closed : y <= d.next_xid

FreshId(d) ==
  Below(d) /\ (d.state # "OFF" => d.xid = d.next_xid /\ d.xid \notin d.closed)

\* Two clients with the same identifiers.
SameIds(e, d) == e.xid = d.xid /\ e.next_xid = d.next_xid /\ e.closed = d.closed

\* A client that has the identifiers of a running one.
LEMMA FreshCopy ==
  ASSUME NEW d, NEW e, FreshId(d), d.state # "OFF", SameIds(e, d)
  PROVE  FreshId(e)
BY DEF FreshId, Below, SameIds

\* dhcp_set_state() keeps the identifiers, and starts the tries of a new state.
LEMMA SetStateIds ==
  ASSUME NEW d \in Client, NEW s \in State
  PROVE  SameIds(SetState(d, s), d) /\ (d.state # s => SetState(d, s).tries = 0)
<1>1. 0 \in 0 .. TriesMax /\ 0 \in {0, 1}
  BY WidthAssumption
<1>2. CASE d.state = s
  BY <1>2 DEF SetState, SameIds
<1>3. CASE d.state # s
  <2>1. ASSUME NEW n \in 0 .. TriesMax, NEW r \in {0, 1},
               NEW e, e = [d EXCEPT !.state = s, !.tries = n, !.request_timeout = r]
        PROVE  SameIds(e, d) /\ e.tries = n
    BY <2>1 DEF Client, SameIds
  <2>2. SetState(d, s) = [d EXCEPT !.state = s, !.tries = 0, !.request_timeout = 0]
    BY <1>3 DEF SetState
  <2> QED BY <1>1, <2>1, <2>2
<1> QED BY <1>2, <1>3

\* So does counting a try.
LEMMA TriedIds ==
  ASSUME NEW d \in Client
  PROVE  SameIds(Tried(d), d)
<1> DEFINE n == IF d.tries < TriesMax THEN d.tries + 1 ELSE d.tries
<1>1. Tried(d) = [d EXCEPT !.tries = n, !.request_timeout = 1]
  BY DEF Tried
<1>2. ASSUME NEW m, NEW r, NEW f, f = [d EXCEPT !.tries = m, !.request_timeout = r]
      PROVE  SameIds(f, d)
  BY <1>2 DEF Client, SameIds
<1> HIDE DEF n
<1> QED BY <1>1, <1>2

\* A REQUEST keeps the identifier of the offer.
LEMMA RequestIds ==
  ASSUME NEW d \in Client
  PROVE  SameIds(CreateMsg(d, "REQUEST", TRUE), d)
<1>1. ASSUME NEW S, NEW g, g = [d EXCEPT !.sent = S]
      PROVE  SameIds(g, d)
  BY <1>1 DEF Client, SameIds
<1>2. CreateMsg(d, "REQUEST", TRUE) = [d EXCEPT !.sent = d.sent \cup Sent(d, "REQUEST")]
  BY DEF CreateMsg
<1> QED BY <1>1, <1>2

\* The other messages take a new one unless they are retransmissions.
LEMMA OtherIds ==
  ASSUME NEW d \in Client, NEW type \in {"DISCOVER", "DECLINE", "RELEASE"},
         NEW e, e = CreateMsg(d, type, TRUE)
  PROVE  /\ e.closed = d.closed /\ e.xid = e.next_xid
         /\ e.next_xid = IF d.tries = 0 THEN d.next_xid + 1 ELSE d.next_xid
<1> DEFINE x == IF d.tries = 0 THEN d.next_xid + 1 ELSE d.next_xid
           f == [d EXCEPT !.next_xid = x, !.xid = x]
           S == f.sent \cup Sent(f, type)
<1>1. e = [f EXCEPT !.sent = S]
  BY DEF CreateMsg
<1> HIDE DEF S
<1>2. e = [[d EXCEPT !.next_xid = x, !.xid = x] EXCEPT !.sent = S]
  BY <1>1
<1> HIDE DEF f, x
<1>3. e.next_xid = x /\ e.xid = x /\ e.closed = d.closed
  BY <1>2 DEF Client
<1> QED BY <1>3 DEF x

\* A new identifier is not one that was used up.
LEMMA NewFresh ==
  ASSUME NEW d \in Client, Below(d), NEW type \in {"DISCOVER", "DECLINE", "RELEASE"},
         d.tries = 0 \/ d.next_xid \notin d.closed,
         NEW e, e = Tried(CreateMsg(d, type, TRUE)), CreateMsg(d, type, TRUE) \in Client
  PROVE  FreshId(e)
<1> DEFINE g == CreateMsg(d, type, TRUE)
<1>1. /\ g.closed = d.closed /\ g.xid = g.next_xid
      /\ g.next_xid = IF d.tries = 0 THEN d.next_xid + 1 ELSE d.next_xid
  BY OtherIds
<1> HIDE DEF g
<1>2. SameIds(e, g)
  BY TriedIds DEF g
<1>3. d.next_xid \in Nat /\ d.closed \subseteq Nat
  BY DEF Client
<1>4. /\ e.closed = d.closed /\ e.xid = e.next_xid
      /\ e.next_xid = IF d.tries = 0 THEN d.next_xid + 1 ELSE d.next_xid
  BY <1>1, <1>2 DEF SameIds
<1>5. \A y \in d.closed : y \in Nat /\ y <= d.next_xid
  BY <1>3 DEF Below
<1>6. CASE d.tries = 0
  <2>1. e.next_xid = d.next_xid + 1
    BY <1>4, <1>6
  <2>2. ASSUME NEW y \in d.closed
        PROVE  y <= e.next_xid /\ y # e.next_xid
    <3>1. y \in Nat /\ y <= d.next_xid /\ d.next_xid \in Nat
      BY <1>3, <1>5
    <3>2. y <= d.next_xid + 1 /\ y # d.next_xid + 1
      BY <3>1
    <3> QED BY <2>1, <3>2
  <2> QED BY <1>4, <2>2 DEF FreshId, Below
<1>7. CASE d.tries # 0
  BY <1>4, <1>5, <1>7 DEF FreshId, Below
<1> QED BY <1>6, <1>7

\* dhcp_discover() begins a transaction, or repeats the DISCOVER of the present one.
LEMMA DiscoverFresh ==
  ASSUME NEW d \in Client, d.ip = NoAddr, Below(d), d.state = "SELECTING" => FreshId(d)
  PROVE  FreshId(Discover(d, TRUE))
<1> DEFINE f == [d EXCEPT !.offered_ip_addr = NoAddr]
           g == SetState(f, "SELECTING")
<1>1. f \in Client /\ f.state = d.state /\ f.ip = NoAddr /\ SameIds(f, d)
  BY DEF Client, SameIds
<1>2. Discover(d, TRUE) = Tried(CreateMsg(g, "DISCOVER", TRUE))
  BY DEF Discover
<1>3. "SELECTING" \in State /\ NoAddr # Static
  BY AddrAssumption DEF State
<1> HIDE DEF f
<1>4. g \in Client /\ Same(g, f) /\ SameIds(g, f) /\ (f.state # "SELECTING" => g.tries = 0)
  BY <1>1, <1>3, SetStateFacts, SetStateIds
<1> HIDE DEF g
<1>5. Below(g) /\ (g.tries = 0 \/ g.next_xid \notin g.closed)
  BY <1>1, <1>4 DEF Below, SameIds, FreshId
<1>6. CreateMsg(g, "DISCOVER", TRUE) \in Client
  BY <1>1, <1>3, <1>4, CreateMsgFacts DEF Same
<1> QED BY <1>2, <1>4, <1>5, <1>6, NewFresh

\* Messages that keep the transaction: dhcp_select(), dhcp_renew(), dhcp_rebind().
LEMMA SendIds ==
  ASSUME NEW d \in Client, NEW s \in State, d.ip # Static,
         NEW e, e = Tried(CreateMsg(SetState(d, s), "REQUEST", TRUE))
  PROVE  SameIds(e, d)
<1> DEFINE f == SetState(d, s)
           g == CreateMsg(f, "REQUEST", TRUE)
<1>1. f \in Client /\ Same(f, d) /\ SameIds(f, d)
  BY SetStateFacts, SetStateIds
<1>2. e = Tried(g)
  OBVIOUS
<1> HIDE DEF f
<1>3. g \in Client /\ SameIds(g, f)
  BY <1>1, CreateMsgFacts, RequestIds DEF Same
<1> HIDE DEF g
<1>4. SameIds(e, g)
  BY <1>2, <1>3, TriedIds
<1> QED BY <1>1, <1>3, <1>4 DEF SameIds

\* dhcp_check() sends no DHCP message.
LEMMA CheckIds ==
  ASSUME NEW d \in Client
  PROVE  SameIds(Check(d), d)
<1> DEFINE f == SetState(d, "CHECKING")
<1>1. f \in Client /\ SameIds(f, d)
  BY SetStateFacts, SetStateIds DEF State
<1>2. Check(d) = Tried(f)
  BY DEF Check
<1> HIDE DEF f
<1>3. SameIds(Tried(f), f)
  BY <1>1, TriedIds
<1> QED BY <1>1, <1>2, <1>3 DEF SameIds

\* The transaction is used up, and the next message takes another identifier.
LEMMA CloseIds ==
  ASSUME NEW d \in Client, FreshId(d), d.state \notin {"OFF", "BACKING_OFF"},
         NEW h, h = SetState(d, "BACKING_OFF")
  PROVE  /\ h \in Client /\ h.tries = 0 /\ h.next_xid = d.next_xid
         /\ h.closed \cup {d.xid} \subseteq Nat
         /\ \A y \in h.closed \cup {d.xid} : y <= h.next_xid
<1>1. h \in Client /\ h.tries = 0 /\ SameIds(h, d)
  BY SetStateFacts, SetStateIds DEF State
<1>2. d.xid \in Nat /\ d.xid = d.next_xid /\ d.closed \subseteq Nat /\ Below(d)
  BY DEF FreshId, Client
<1>3. d.xid <= d.next_xid
  BY <1>2
<1> QED BY <1>1, <1>2, <1>3 DEF SameIds, Below

\* dhcp_decline()
LEMMA DeclineFresh ==
  ASSUME NEW d, Good(d), FreshId(d), d.state = "CHECKING"
  PROVE  FreshId(Decline(d, TRUE))
<1>1. d \in Client /\ d.ip = NoAddr
  BY NoLease DEF Supplied
<1> DEFINE h == SetState(d, "BACKING_OFF")
           f == [h EXCEPT !.closed = h.closed \cup {d.xid}]
<1>2. /\ h \in Client /\ h.tries = 0 /\ h.next_xid = d.next_xid
      /\ h.closed \cup {d.xid} \subseteq Nat
      /\ \A y \in h.closed \cup {d.xid} : y <= h.next_xid
  BY <1>1, CloseIds
<1>3. Decline(d, TRUE) = Tried(CreateMsg(f, "DECLINE", TRUE))
  BY DEF Decline
<1>4. h.ip = NoAddr
  BY <1>1, SetStateFacts DEF State, Same
<1> HIDE DEF h
<1>5. ASSUME NEW S \in SUBSET Nat, NEW g, g = [h EXCEPT !.closed = S]
      PROVE  g \in Client /\ g.tries = h.tries /\ g.next_xid = h.next_xid /\ g.closed = S
             /\ g.ip = h.ip
  BY <1>2, <1>5 DEF Client
<1>6. f \in Client /\ f.tries = 0 /\ f.next_xid = h.next_xid /\ f.closed = h.closed \cup {d.xid}
      /\ f.ip = NoAddr
  BY <1>2, <1>4, <1>5
<1> HIDE DEF f
<1>7. Below(f)
  BY <1>2, <1>6 DEF Below
<1>8. CreateMsg(f, "DECLINE", TRUE) \in Client
  BY <1>6, AddrAssumption, CreateMsgFacts
<1> QED BY <1>3, <1>6, <1>7, <1>8, NewFresh

\* dhcp_handle_nak()
LEMMA HandleNakFresh ==
  ASSUME NEW d, Good(d), FreshId(d), d.state \in {"REQUESTING", "REBINDING", "RENEWING"}
  PROVE  FreshId(HandleNak(d, TRUE))
<1>1. d \in Client
  BY DEF Good
<1> DEFINE h == SetState(d, "BACKING_OFF")
           f == [h EXCEPT !.ip = NoAddr, !.closed = h.closed \cup {d.xid}]
<1>2. /\ h \in Client /\ h.tries = 0 /\ h.next_xid = d.next_xid
      /\ h.closed \cup {d.xid} \subseteq Nat
      /\ \A y \in h.closed \cup {d.xid} : y <= h.next_xid
  BY <1>1, CloseIds
<1>3. HandleNak(d, TRUE) = Discover(f, TRUE)
  BY DEF HandleNak
<1>4. h.state = "BACKING_OFF"
  BY <1>1, SetStateFacts DEF State
<1> HIDE DEF h
<1>5. ASSUME NEW S \in SUBSET Nat, NEW g, g = [h EXCEPT !.ip = NoAddr, !.closed = S]
      PROVE  g \in Client /\ g.state = h.state /\ g.next_xid = h.next_xid /\ g.closed = S
             /\ g.ip = NoAddr
  BY <1>2, <1>5 DEF Client
<1>6. f \in Client /\ f.state = "BACKING_OFF" /\ f.next_xid = h.next_xid
      /\ f.closed = h.closed \cup {d.xid} /\ f.ip = NoAddr
  BY <1>2, <1>4, <1>5
<1> HIDE DEF f
<1>7. Below(f)
  BY <1>2, <1>6 DEF Below
<1> QED BY <1>3, <1>6, <1>7, DiscoverFresh

\* dhcp_handle_offer()
LEMMA HandleOfferFresh ==
  ASSUME NEW d, Good(d), FreshId(d), d.state = "SELECTING", NEW a \in Addrs
  PROVE  FreshId(HandleOffer(d, a, TRUE))
<1>1. d \in Client /\ d.ip = NoAddr
  BY NoLease DEF Supplied
<1> DEFINE f == [d EXCEPT !.request_timeout = 0, !.offered_ip_addr = a]
<1>2. ASSUME NEW r \in {0, 1}, NEW g, g = [d EXCEPT !.request_timeout = r, !.offered_ip_addr = a]
      PROVE  g \in Client /\ g.ip = d.ip /\ SameIds(g, d)
  BY <1>1, <1>2 DEF Client, SameIds
<1>3. 0 \in {0, 1}
  OBVIOUS
<1>4. f \in Client /\ f.ip = NoAddr /\ SameIds(f, d)
  BY <1>1, <1>2, <1>3
<1>5. HandleOffer(d, a, TRUE) = Tried(CreateMsg(SetState(f, "REQUESTING"), "REQUEST", TRUE))
  BY DEF HandleOffer, Select
<1> HIDE DEF f
<1>6. SameIds(HandleOffer(d, a, TRUE), f)
  BY <1>4, <1>5, AddrAssumption, SendIds DEF State
<1>7. SameIds(HandleOffer(d, a, TRUE), d)
  BY <1>4, <1>6 DEF SameIds
<1> QED BY <1>7, FreshCopy

\* dhcp_handle_ack() keeps the transaction.
LEMMA HandleAckIds ==
  ASSUME NEW d \in Client, NEW a, NEW o
  PROVE  SameIds(HandleAck(d, a, o), d)
<1> DEFINE lease == IF o.lease = NotGiven THEN d.offered_t0_lease ELSE o.lease
           t1 == IF o.t1 = NotGiven THEN lease \div 2 ELSE o.t1
           t2 == IF o.t2 = NotGiven THEN ((lease * 7) % (U32Max + 1)) \div 8 ELSE o.t2
<1>1. HandleAck(d, a, o) = [d EXCEPT !.offered_t0_lease = lease, !.offered_t1_renew = t1,
                                     !.offered_t2_rebind = t2, !.offered_ip_addr = a]
  BY DEF HandleAck
<1>2. ASSUME NEW l, NEW u, NEW v, NEW e,
             e = [d EXCEPT !.offered_t0_lease = l, !.offered_t1_renew = u,
                           !.offered_t2_rebind = v, !.offered_ip_addr = a]
      PROVE  SameIds(e, d)
  BY <1>2 DEF Client, SameIds
<1> HIDE DEF lease, t1, t2
<1> QED BY <1>1, <1>2

\* So does dhcp_bind().
LEMMA BindIds ==
  ASSUME NEW d \in Client
  PROVE  SameIds(Bind(d), d)
<1> DEFINE t0 == IF d.offered_t0_lease = Infinite THEN d.t0_timeout ELSE Ticks(d.offered_t0_lease)
           t2 == IF d.offered_t2_rebind = Infinite THEN d.t2_timeout ELSE Ticks(d.offered_t2_rebind)
           f == SetState(d, "BOUND")
           r1 == IF d.offered_t1_renew = Infinite THEN f.t1_renew_time ELSE Ticks(d.offered_t1_renew)
           r2 == IF d.offered_t2_rebind = Infinite THEN f.t2_rebind_time ELSE t2
           zero == 0
<1>1. f \in Client /\ SameIds(f, d)
  BY SetStateFacts, SetStateIds DEF State
<1>2. Bind(d) = [f EXCEPT !.lease_used = zero, !.t0_timeout = t0, !.t2_timeout = t2,
                          !.t1_renew_time = r1, !.t2_rebind_time = r2, !.ip = d.offered_ip_addr]
  BY DEF Bind
<1> HIDE DEF t0, t2, f, r1, r2, zero
<1>3. SameIds(Bind(d), f)
  BY <1>1, <1>2 DEF Client, SameIds
<1> QED BY <1>1, <1>3 DEF SameIds

\* dhcp_release_and_stop(): the RELEASE may take one more identifier.
LEMMA StopBelow ==
  ASSUME NEW d, Good(d), FreshId(d), NEW e, e = ReleaseAndStop(d, TRUE)
  PROVE  Below(e)
<1>1. CASE d.state = "OFF"
  BY <1>1 DEF ReleaseAndStop, FreshId
<1>2. CASE d.state # "OFF"
  <2> DEFINE S == d.closed \cup {d.xid}
             f == [d EXCEPT !.offered_ip_addr = NoAddr,
                            !.offered_t0_lease = 0, !.offered_t1_renew = 0,
                            !.offered_t2_rebind = 0, !.t1_renew_time = 0,
                            !.t2_rebind_time = 0, !.lease_used = 0, !.t0_timeout = 0,
                            !.closed = S]
             g == IF Supplied(d) THEN CreateMsg(f, "RELEASE", TRUE) ELSE f
             h == [g EXCEPT !.ip = NoAddr]
             k == SetState(h, "OFF")
  <2>1. d \in Client /\ d.ip # Static /\ S \in SUBSET Nat /\ d.next_xid \in Nat
    BY <1>2 DEF Good, Client
  <2>2. \A y \in S : y \in Nat /\ y <= d.next_xid
    <3>1. d.xid = d.next_xid /\ Below(d)
      BY <1>2 DEF FreshId
    <3>2. d.xid <= d.next_xid
      BY <2>1, <3>1
    <3> QED BY <2>1, <3>1, <3>2 DEF Below
  <2>3. e = [SetState([g EXCEPT !.ip = NoAddr], "OFF") EXCEPT !.pcb_allocated = 0]
    BY <1>2 DEF ReleaseAndStop
  <2> HIDE DEF S
  <2>4. f \in Client /\ f.ip = d.ip /\ f.next_xid = d.next_xid /\ f.closed = S
    <3>1. PICK z \in 0 .. U16Max : z = 0
      BY WidthAssumption
    <3>2. PICK n \in Nat : n = 0
      OBVIOUS
    <3> DEFINE j == [d EXCEPT !.offered_ip_addr = NoAddr,
                              !.offered_t0_lease = n, !.offered_t1_renew = n,
                              !.offered_t2_rebind = n, !.t1_renew_time = z,
                              !.t2_rebind_time = z, !.lease_used = z, !.t0_timeout = z,
                              !.closed = S]
    <3>3. j \in Client /\ j.ip = d.ip /\ j.next_xid = d.next_xid /\ j.closed = S
      BY <2>1 DEF Client
    <3>4. f = j
      BY <3>1, <3>2
    <3> HIDE DEF f, j
    <3> QED BY <3>3, <3>4
  <2> HIDE DEF f
  <2>5. g \in Client /\ g.closed = S /\ \A y \in S : y <= g.next_xid
    <3>1. CASE Supplied(d)
      <4> DEFINE r == CreateMsg(f, "RELEASE", TRUE)
      <4>1. r \in Client
        BY <2>1, <2>4, CreateMsgFacts
      <4>2. r.closed = f.closed /\ r.next_xid = IF f.tries = 0 THEN f.next_xid + 1 ELSE f.next_xid
        BY <2>4, OtherIds
      <4>3. g = r
        BY <3>1
      <4> HIDE DEF r, g
      <4>4. \A y \in S : y <= r.next_xid
        <5>1. r.next_xid = d.next_xid + 1 \/ r.next_xid = d.next_xid
          BY <2>4, <4>2
        <5> QED BY <2>1, <2>2, <5>1
      <4> QED BY <2>4, <4>1, <4>2, <4>3, <4>4
    <3>2. CASE ~Supplied(d)
      BY <2>2, <2>4, <3>2
    <3> QED BY <3>1, <3>2
  <2> HIDE DEF g
  <2>6. h \in Client /\ h.closed = g.closed /\ h.next_xid = g.next_xid
    BY <2>5 DEF Client
  <2>7. e = [k EXCEPT !.pcb_allocated = 0]
    BY <2>3
  <2> HIDE DEF h
  <2>8. k \in Client /\ SameIds(k, h)
    BY <2>6, SetStateFacts, SetStateIds DEF State
  <2> HIDE DEF k
  <2>9. e.closed = k.closed /\ e.next_xid = k.next_xid
    <3>1. ASSUME NEW r, NEW j, j = [k EXCEPT !.pcb_allocated = r]
          PROVE  j.closed = k.closed /\ j.next_xid = k.next_xid
      BY <2>8, <3>1 DEF Client
    <3> QED BY <2>7, <3>1
  <2> QED BY <2>5, <2>6, <2>8, <2>9 DEF Below, SameIds
<1> QED BY <1>1, <1>2

\* dhcp_start() clears the structure, but not the counter of dhcp_create_msg().
LEMMA StartFresh ==
  ASSUME NEW d \in Client, d.ip = NoAddr, Below(d)
  PROVE  FreshId(Start(d, TRUE))
<1> DEFINE g == Cleared(d)
           f == [g EXCEPT !.pcb_allocated = 1]
<1>1. g \in Client /\ g.ip = NoAddr /\ g.state = "OFF" /\ g.next_xid = d.next_xid /\ g.closed = d.closed
  <2>1. PICK z \in 0 .. U16Max : z = 0
    BY WidthAssumption
  <2>2. PICK n \in Nat : n = 0
    OBVIOUS
  <2>3. PICK r \in {0, 1} : r = 0
    OBVIOUS
  <2>4. PICK t \in 0 .. TriesMax : t = 0
    BY WidthAssumption
  <2> DEFINE j == [d EXCEPT !.state = "OFF", !.tries = t, !.request_timeout = r,
                            !.pcb_allocated = r, !.xid = n, !.offered_ip_addr = NoAddr,
                            !.offered_t0_lease = n, !.offered_t1_renew = n,
                            !.offered_t2_rebind = n, !.lease_used = z, !.t0_timeout = z,
                            !.t2_timeout = z, !.t1_renew_time = z, !.t2_rebind_time = z]
  <2>5. j \in Client /\ j.ip = d.ip /\ j.state = "OFF" /\ j.next_xid = d.next_xid /\ j.closed = d.closed
    BY DEF Client, State
  <2>6. g = j
    BY <2>1, <2>2, <2>3, <2>4 DEF Cleared
  <2> HIDE DEF g, j
  <2> QED BY <2>5, <2>6
<1>2. Start(d, TRUE) = Discover(f, TRUE)
  BY DEF Start
<1> HIDE DEF g
<1>3. ASSUME NEW r \in {0, 1}, NEW j, j = [g EXCEPT !.pcb_allocated = r]
      PROVE  j \in Client /\ j.ip = g.ip /\ j.state = g.state /\ j.next_xid = g.next_xid
             /\ j.closed = g.closed
  BY <1>1, <1>3 DEF Client
<1>4. f \in Client /\ f.ip = NoAddr /\ f.state = "OFF" /\ f.next_xid = d.next_xid /\ f.closed = d.closed
  BY <1>1, <1>3
<1> HIDE DEF f
<1>5. Below(f)
  BY <1>4 DEF Below
<1> QED BY <1>2, <1>4, <1>5, DiscoverFresh

\* Both, one after the other
LEMMA RestartFresh ==
  ASSUME NEW d, Good(d), FreshId(d), d.state # "OFF"
  PROVE  FreshId(Restart(d, TRUE, TRUE))
<1> DEFINE e == ReleaseAndStop(d, TRUE)
<1>1. e \in Client /\ e.ip = NoAddr /\ Below(e)
  BY StopFacts, StopBelow DEF Good
<1>2. Restart(d, TRUE, TRUE) = Start(e, TRUE)
  BY DEF Restart
<1> HIDE DEF e
<1> QED BY <1>1, <1>2, StartFresh

\* What dhcp_timeout() does while a request is outstanding.
LEMMA TimeoutRequesting ==
  ASSUME NEW d, d.tries \in Nat, d.state = "REQUESTING",
         NEW okRelease \in BOOLEAN, NEW ok \in BOOLEAN,
         NEW e, e = Timeout(d, okRelease, ok)
  PROVE  /\ d.tries <= 5 => e = Select(d, ok)
         /\ d.tries > 5 => e = Restart(d, okRelease, ok)
<1>1. CASE d.tries <= 5
  BY <1>1 DEF Timeout
<1>2. CASE d.tries > 5
  BY <1>2 DEF Timeout
<1>3. d.tries <= 5 \/ d.tries > 5
  OBVIOUS
<1> QED BY <1>1, <1>2, <1>3

\* dhcp_timeout()
LEMMA TimeoutFresh ==
  ASSUME NEW d, Good(d), FreshId(d)
  PROVE  FreshId(Timeout(d, TRUE, TRUE))
<1> DEFINE e == Timeout(d, TRUE, TRUE)
<1>0. d \in Client /\ d.tries \in Nat /\ Below(d)
  BY WidthAssumption DEF Good, Client, FreshId
<1>1. CASE d.state \in {"BACKING_OFF", "SELECTING"}
  <2>1. d.ip = NoAddr
    BY <1>1, NoLease DEF Supplied
  <2>2. e = Discover(d, TRUE)
    BY <1>1 DEF Timeout
  <2> QED BY <1>0, <1>1, <2>1, <2>2, DiscoverFresh
<1>2. CASE d.state = "REQUESTING" /\ d.tries <= 5
  <2>1. d.ip = NoAddr
    BY <1>2, NoLease DEF Supplied
  <2>2. e = Tried(CreateMsg(SetState(d, "REQUESTING"), "REQUEST", TRUE))
    BY <1>2, <1>0, TimeoutRequesting DEF Select
  <2>3. SameIds(e, d)
    BY <1>0, <2>1, <2>2, AddrAssumption, SendIds DEF State
  <2> QED BY <1>2, <2>3, FreshCopy
<1>3. CASE d.state = "REQUESTING" /\ d.tries > 5
  <2>1. e = Restart(d, TRUE, TRUE)
    BY <1>3, <1>0, TimeoutRequesting
  <2> QED BY <1>3, <2>1, RestartFresh
<1>4. CASE d.state = "CHECKING" /\ d.tries <= 1
  <2>1. e = Check(d)
    BY <1>4, <1>0 DEF Timeout
  <2> QED BY <1>0, <1>4, <2>1, CheckIds, FreshCopy
<1>5. CASE d.state = "CHECKING" /\ d.tries > 1
  <2>1. e = Bind(d)
    BY <1>5, <1>0 DEF Timeout
  <2> QED BY <1>0, <1>5, <2>1, BindIds, FreshCopy
<1>6. CASE d.state \notin {"BACKING_OFF", "SELECTING", "REQUESTING", "CHECKING"}
  <2>1. e = d
    BY <1>6 DEF Timeout
  <2> QED BY <2>1
<1>7. d.tries <= 5 \/ d.tries > 5
  BY <1>0
<1>8. d.tries <= 1 \/ d.tries > 1
  BY <1>0
<1> QED BY <1>1, <1>2, <1>3, <1>4, <1>5, <1>6, <1>7, <1>8

\* dhcp_t1_timeout()
LEMMA T1Ids ==
  ASSUME NEW d, Good(d), d.state # "OFF"
  PROVE  SameIds(T1Timeout(d, TRUE), d)
<1>1. CASE d.state \notin {"REQUESTING", "BOUND", "RENEWING"}
  BY <1>1 DEF T1Timeout, SameIds
<1>2. CASE d.state \in {"REQUESTING", "BOUND", "RENEWING"}
  <2> DEFINE f == Renew(d, TRUE)
             n == Halved(d.t2_timeout, d.lease_used, f.t1_renew_time)
  <2>1. f \in Client
    BY ExtendGood DEF Renew, Good
  <2>2. SameIds(f, d)
    BY SendIds DEF Renew, Good, State
  <2>3. T1Timeout(d, TRUE) = [f EXCEPT !.t1_renew_time = n]
    BY <1>2 DEF T1Timeout
  <2> HIDE DEF f, n
  <2> QED BY <2>1, <2>2, <2>3 DEF Client, SameIds
<1> QED BY <1>1, <1>2

\* dhcp_t2_timeout()
LEMMA T2Ids ==
  ASSUME NEW d, Good(d), d.state # "OFF"
  PROVE  SameIds(T2Timeout(d, TRUE), d)
<1>1. CASE d.state \notin {"REQUESTING", "BOUND", "RENEWING", "REBINDING"}
  BY <1>1 DEF T2Timeout, SameIds
<1>2. CASE d.state \in {"REQUESTING", "BOUND", "RENEWING", "REBINDING"}
  <2> DEFINE f == Rebind(d, TRUE)
             n == Halved(d.t0_timeout, d.lease_used, f.t2_rebind_time)
  <2>1. f \in Client
    BY ExtendGood DEF Rebind, Good
  <2>2. SameIds(f, d)
    BY SendIds DEF Rebind, Good, State
  <2>3. T2Timeout(d, TRUE) = [f EXCEPT !.t2_rebind_time = n]
    BY <1>2 DEF T2Timeout
  <2> HIDE DEF f, n
  <2> QED BY <2>1, <2>2, <2>3 DEF Client, SameIds
<1> QED BY <1>1, <1>2

\* dhcp_coarse_tmr() changes the transaction only when the lease ends.
LEMMA CoarseTmrFresh ==
  ASSUME NEW c0, Good(c0), FreshId(c0)
  PROVE  FreshId(CoarseTmr(c0, TRUE, TRUE))
<1> DEFINE r == CoarseTmr(c0, TRUE, TRUE)
<1>1. CASE c0.state = "OFF"
  BY <1>1 DEF CoarseTmr
<1>2. CASE c0.state # "OFF" /\ LeaseEnds(c0)
  BY <1>2, RestartFresh DEF CoarseTmr
<1>3. CASE c0.state # "OFF" /\ ~LeaseEnds(c0)
  <2> DEFINE n == IF c0.t0_timeout = 0 THEN c0.lease_used ELSE Inc16(c0.lease_used)
             d == [c0 EXCEPT !.lease_used = n]
             t2 == IF d.t2_rebind_time = 0 THEN 0 ELSE d.t2_rebind_time - 1
             e == [d EXCEPT !.t2_rebind_time = t2]
             t1 == IF e.t1_renew_time = 0 THEN 0 ELSE e.t1_renew_time - 1
             f == [e EXCEPT !.t1_renew_time = t1]
  <2>1. /\ n \in 0 .. U16Max
        /\ c0.t0_timeout # 0 => n < c0.t0_timeout
    BY <1>3, TickLease
  <2>2. r = CASE c0.t2_rebind_time = 1                            -> T2Timeout(e, TRUE)
              [] c0.t2_rebind_time # 1 /\ c0.t1_renew_time = 1   -> T1Timeout(f, TRUE)
              [] c0.t2_rebind_time # 1 /\ c0.t1_renew_time # 1   -> f
    BY <1>3 DEF CoarseTmr
  <2> HIDE DEF n, r
  <2>3. c0 \in Client /\ d \in Client
    BY <2>1 DEF Good, Client
  <2>4. d.state = c0.state /\ d.ip = c0.ip /\ d.offered_ip_addr = c0.offered_ip_addr
        /\ d.lease_used = n /\ d.t0_timeout = c0.t0_timeout /\ SameIds(d, c0)
    BY <2>3 DEF Client, SameIds
  <2> HIDE DEF d
  <2>5. Good(d) /\ d.state # "OFF"
    BY <1>3, <2>1, <2>3, <2>4 DEF Good, LeaseOK, Supplied
  <2>6. t2 \in 0 .. U16Max
    BY <2>3, TimerDown DEF Client
  <2> HIDE DEF t2
  <2>7. e \in Client /\ e.state = d.state /\ Same(e, d) /\ SameIds(e, d)
    BY <2>3, <2>6 DEF Client, Same, SameIds
  <2> HIDE DEF e
  <2>8. Good(e)
    BY <2>3, <2>5, <2>7, GoodCopy DEF Good, Supplied
  <2>9. t1 \in 0 .. U16Max
    BY <2>7, TimerDown DEF Client
  <2> HIDE DEF t1
  <2>10. f \in Client /\ f.state = e.state /\ Same(f, e) /\ SameIds(f, e)
    BY <2>7, <2>9 DEF Client, Same, SameIds
  <2> HIDE DEF f
  <2>11. Good(f) /\ e.state # "OFF" /\ f.state # "OFF"
    BY <2>5, <2>7, <2>8, <2>10, GoodCopy DEF Good, Supplied
  <2>12. SameIds(e, c0) /\ SameIds(f, c0)
    BY <2>4, <2>7, <2>10 DEF SameIds
  <2>13. SameIds(T2Timeout(e, TRUE), e) /\ SameIds(T1Timeout(f, TRUE), f)
    BY <2>8, <2>11, T1Ids, T2Ids
  <2>14. r = T2Timeout(e, TRUE) \/ r = T1Timeout(f, TRUE) \/ r = f
    BY <2>2
  <2>15. SameIds(r, c0)
    BY <2>12, <2>13, <2>14 DEF SameIds
  <2> QED BY <1>3, <2>15, FreshCopy DEF r
<1> QED BY <1>1, <1>2, <1>3

\* dhcp_recv() leaves alone a message for another transaction.
LEMMA RecvIgnored ==
  ASSUME NEW m, NEW ok \in BOOLEAN, NEW e, e = Recv(c, m, ok),
         c.pcb_allocated = 0 \/ m.xid # c.xid
  PROVE  e = c
BY DEF Recv

\* dhcp_recv()
LEMMA RecvFresh ==
  ASSUME Good(c), FreshId(c), NEW m \in Replies
  PROVE  FreshId(Recv(c, m, TRUE))
<1> DEFINE e == Recv(c, m, TRUE)
<1>0. /\ c \in Client
      /\ m.type \in {"OFFER", "ACK", "NAK"}
      /\ m.type \in {"OFFER", "ACK"} => m.addr \in Addrs
      /\ m.type = "ACK" => m.opts \in Opts
  BY RepliesFacts DEF Good
<1>1. c.pcb_allocated \in {0, 1}
  BY <1>0 DEF Client
<1>2. CASE c.pcb_allocated = 0 \/ m.xid # c.xid
  <2>1. e = c
    BY <1>2, RecvIgnored
  <2> HIDE DEF e
  <2> QED BY <2>1 DEF e
<1>3. CASE c.pcb_allocated = 1 /\ m.xid = c.xid
  <2> DEFINE h == HandleAck(c, m.addr, m.opts)
  <2>1. e = CASE m.type = "ACK" /\ c.state = "REQUESTING" -> Check(h)
              [] m.type = "ACK" /\ c.state \in {"REBINDING", "RENEWING"} -> Bind(h)
              [] m.type = "NAK" /\ c.state \in {"REQUESTING", "REBINDING", "RENEWING"}
                                                                    -> HandleNak(c, TRUE)
              [] m.type = "OFFER" /\ c.state = "SELECTING" -> HandleOffer(c, m.addr, TRUE)
              [] OTHER -> c
    BY <1>3 DEF Recv
  <2>2. m.type = "ACK" => h \in Client /\ SameIds(h, c)
    BY <1>0, HandleAckFacts, HandleAckIds
  <2> HIDE DEF h, e
  <2>3. CASE m.type = "ACK" /\ c.state = "REQUESTING"
    <3>1. e = Check(h)
      BY <2>1, <2>3
    <3>2. SameIds(e, c)
      BY <2>2, <2>3, <3>1, CheckIds DEF SameIds
    <3> QED BY <2>3, <3>2, FreshCopy DEF e
  <2>4. CASE m.type = "ACK" /\ c.state \in {"REBINDING", "RENEWING"}
    <3>1. e = Bind(h)
      BY <2>1, <2>4
    <3>2. SameIds(e, c)
      BY <2>2, <2>4, <3>1, BindIds DEF SameIds
    <3> QED BY <2>4, <3>2, FreshCopy DEF e
  <2>5. CASE m.type = "NAK" /\ c.state \in {"REQUESTING", "REBINDING", "RENEWING"}
    <3>1. e = HandleNak(c, TRUE)
      BY <2>1, <2>5
    <3> QED BY <2>5, <3>1, HandleNakFresh DEF e
  <2>6. CASE m.type = "OFFER" /\ c.state = "SELECTING"
    <3>1. e = HandleOffer(c, m.addr, TRUE)
      BY <2>1, <2>6
    <3> QED BY <1>0, <2>6, <3>1, HandleOfferFresh DEF e
  <2>7. CASE ~ \/ m.type = "ACK" /\ c.state = "REQUESTING"
               \/ m.type = "ACK" /\ c.state \in {"REBINDING", "RENEWING"}
               \/ m.type = "NAK" /\ c.state \in {"REQUESTING", "REBINDING", "RENEWING"}
               \/ m.type = "OFFER" /\ c.state = "SELECTING"
    <3>1. e = c
      BY <2>1, <2>7
    <3> QED BY <3>1 DEF e
  <2> QED BY <2>3, <2>4, <2>5, <2>6, <2>7
<1> QED BY <1>1, <1>2, <1>3

\* The identifiers, as long as no message failed for want of memory.
FreshInv == fails = 0 => FreshId(c)

\* A call in which nothing failed, after others in which nothing failed
LEMMA CallFresh ==
  ASSUME NEW d, NEW okRelease \in BOOLEAN, NEW ok \in BOOLEAN, Call(d, okRelease, ok),
         fails \in 0 .. MaxAllocFails, fails' = 0
  PROVE  c' = d /\ fails = 0 /\ okRelease = TRUE /\ ok = TRUE
<1>1. fails \in Nat
  BY BoundsAssumption
<1> QED BY <1>1 DEF Call

\* Every step keeps them.
LEMMA NextFresh == Inv /\ FreshInv /\ [Next]_vars => FreshInv'
<1> SUFFICES ASSUME Inv, FreshInv, [Next]_vars, fails' = 0 PROVE FreshId(c')
  BY DEF FreshInv, FreshId, Below
<1>0. Good(c) /\ c \in Client /\ fails \in 0 .. MaxAllocFails
  BY DEF Inv, TypeOK
<1>1. CASE InputNone \/ FineTick \/ TimersDone \/ MainLoop \/ HandleNothing \/ HandleWait
           \/ (\E S \in SUBSET {"fine", "coarse"} : CheckTimeouts(S)) \/ UNCHANGED vars
           \/ HandleAssigned
  <2>1. UNCHANGED <<c, fails>>
    BY <1>1 DEF InputNone, FineTick, TimersDone, MainLoop, HandleNothing, HandleWait,
                CheckTimeouts, HandleAssigned, vars
  <2> QED BY <2>1 DEF FreshInv
<1>2. ASSUME NEW m \in Replies, NEW ok \in BOOLEAN, InputReply(m, ok)
      PROVE  FreshId(c')
  <2>1. c' = Recv(c, m, TRUE) /\ fails = 0
    BY <1>0, <1>2, CallFresh DEF InputReply
  <2> QED BY <1>0, <2>1, RecvFresh DEF FreshInv
<1>3. ASSUME NEW a \in Addrs, NEW ok \in BOOLEAN, InputArpReply(a, ok)
      PROVE  FreshId(c')
  <2>1. c' = ArpReply(c, a, TRUE) /\ fails = 0
    BY <1>0, <1>3, CallFresh DEF InputArpReply
  <2>2. CASE c.state = "CHECKING" /\ a = c.offered_ip_addr
    <3>1. c' = Decline(c, TRUE)
      BY <2>1, <2>2 DEF ArpReply
    <3> QED BY <1>0, <2>1, <2>2, <3>1, DeclineFresh DEF FreshInv
  <2>3. CASE ~(c.state = "CHECKING" /\ a = c.offered_ip_addr)
    <3>1. c' = c
      BY <2>1, <2>3 DEF ArpReply
    <3> QED BY <2>1, <3>1 DEF FreshInv
  <2> QED BY <2>2, <2>3
<1>4. ASSUME NEW okRelease \in BOOLEAN, NEW ok \in BOOLEAN, FineTimeout(okRelease, ok)
      PROVE  FreshId(c')
  <2> DEFINE d == [c EXCEPT !.request_timeout = 0]
  <2>1. c' = FineTmr(c, TRUE, TRUE) /\ fails = 0
    BY <1>0, <1>4, CallFresh DEF FineTimeout
  <2>2. Good(d) /\ d.state = c.state
    BY <1>0, WaitGood
  <2>3. SameIds(d, c)
    <3>1. ASSUME NEW r, NEW g, g = [c EXCEPT !.request_timeout = r]
          PROVE  SameIds(g, c)
      BY <1>0, <3>1 DEF Client, SameIds
    <3> QED BY <3>1
  <2>4. c' = Timeout(d, TRUE, TRUE)
    BY <2>1 DEF FineTmr
  <2> HIDE DEF d
  <2>5. FreshId(d)
    BY <2>1, <2>2, <2>3 DEF FreshInv, FreshId, Below, SameIds
  <2> QED BY <2>2, <2>4, <2>5, TimeoutFresh
<1>5. ASSUME NEW okRelease \in BOOLEAN, NEW ok \in BOOLEAN, CoarseTick(okRelease, ok)
      PROVE  FreshId(c')
  <2>1. /\ c' = IF attached THEN CoarseTmr(c, TRUE, TRUE) ELSE c
        /\ fails = 0
    BY <1>0, <1>5, CallFresh DEF CoarseTick
  <2> QED BY <1>0, <2>1, CoarseTmrFresh DEF FreshInv
<1>6. ASSUME NEW ok \in BOOLEAN, HandleStart(ok)
      PROVE  FreshId(c')
  <2>1. c.ip = NoAddr
    BY <1>6 DEF Inv, HandleStart
  <2>2. CASE up
    <3>1. c' = Start(c, TRUE) /\ fails = 0
      BY <1>0, <1>6, <2>2, CallFresh DEF HandleStart
    <3> QED BY <1>0, <2>1, <3>1, StartFresh DEF FreshInv, FreshId
  <2>3. CASE ~up
    BY <1>6, <2>3 DEF HandleStart, FreshInv
  <2> QED BY <2>2, <2>3
<1>7. CASE HandleTimeout
  <2> DEFINE d == ReleaseAndStop(c, TRUE)
  <2>1. c' = [d EXCEPT !.ip = Static] /\ fails = 0
    BY <1>7 DEF HandleTimeout
  <2>2. Good(d) /\ d.state = "OFF" /\ Below(d)
    BY <1>0, <2>1, StopFacts, StopBelow DEF FreshInv
  <2> HIDE DEF d
  <2>3. d \in Client
    BY <2>2 DEF Good
  <2>4. c'.state = d.state /\ c'.next_xid = d.next_xid /\ c'.closed = d.closed
    BY <2>1, <2>3 DEF Client
  <2> QED BY <2>2, <2>4 DEF FreshId, Below
<1> QED BY <1>1, <1>2, <1>3, <1>4, <1>5, <1>6, <1>7 DEF Next, Input, Timers, Handle

\* As long as there is memory for its messages, the client never listens to the
\* replies of a transaction that it ended, however many it has begun since.
THEOREM TransactionsAreFresh == Spec => []FreshTransaction
<1>1. Init => FreshInv
  BY DEF Init, FreshInv, FreshId, Below
<1>2. Inv /\ FreshInv /\ [Next]_vars => FreshInv'
  BY NextFresh
<1>3. FreshInv => FreshTransaction
  BY DEF FreshInv, FreshId, FreshTransaction
<1> QED BY <1>1, <1>2, <1>3, Invariance, PTL DEF Spec

----------------------------------------------------------------------------
(* Initialisation of MAC and PHY, for every width of the tick counter and  *)
(* all time limits that leave room for one access to the PHY that fails.   *)

\* The loop that waits for the end of the negotiation: a status that was not
\* read just now comes with a timeout that has expired.
LoopInv ==
  /\ stage \in {"autoneg", "result"} => fresh
  /\ stage = "autoneg" => Elapsed <= ETH_TIMEOUT_AUTONEGO_COMPLETED + MaxLag + 1
  /\ stage = "autonegTest" /\ ~fresh => Expired(ETH_TIMEOUT_AUTONEGO_COMPLETED)

\* The mode that was negotiated lasts as long as the link, and HAL_OK is only
\* returned with that mode.
ModeInv ==
  /\ complete => link
  /\ steady => complete
  /\ status = "HAL_OK" /\ steady => mac = mode
  /\ link_up => status = "HAL_OK"
  /\ stage \notin {"returned", "running"} => status # "HAL_OK"

MacIInv == MacTypeOK /\ LoopInv /\ ModeInv

----------------------------------------------------------------------------
(* Time modulo Wrap.                                                       *)

\* The limits are natural numbers and an access that fails does not make the
\* elapsed time wrap.
LEMMA Limits ==
  /\ Wrap \in Nat \ {0} /\ PHY_READ_TO \in Nat /\ PHY_RESET_DELAY \in Nat /\ MaxLag \in Nat
  /\ ETH_TIMEOUT_AUTONEGO_COMPLETED \in Nat /\ ETH_TIMEOUT_AUTONEGO_COMPLETED < PHY_READ_TO
  /\ ETH_TIMEOUT_AUTONEGO_COMPLETED + MaxLag + PHY_READ_TO + 2 < Wrap
BY InitAssumption DEF Timeouts

\* The tick counter keeps its width.
LEMMA AfterType ==
  ASSUME NEW t \in 0..(Wrap - 1), NEW n \in Nat
  PROVE  After(t, n) \in 0..(Wrap - 1)
BY Limits DEF After

\* n ticks later n more ticks have elapsed, unless that is a whole turn.
LEMMA ElapsedAfter ==
  ASSUME NEW t \in 0..(Wrap - 1), NEW s \in 0..(Wrap - 1), NEW n \in Nat,
         ((t - s) % Wrap) + n < Wrap
  PROVE  (After(t, n) - s) % Wrap = ((t - s) % Wrap) + n
<1>1. Wrap \in Nat \ {0} /\ n < Wrap
  BY Limits
<1>2. (t - s) % Wrap = IF t >= s THEN t - s ELSE t - s + Wrap
  BY <1>1
<1>3. After(t, n) = IF t + n < Wrap THEN t + n ELSE t + n - Wrap
  BY <1>1 DEF After
<1>4. CASE t + n < Wrap
  <2>1. After(t, n) - s = t - s + n
    BY <1>3, <1>4
  <2> QED BY <1>1, <1>2, <2>1
<1>5. CASE t + n >= Wrap
  <2>1. t >= s => t - s + n < Wrap
    BY <1>2
  <2>2. After(t, n) - s = t - s + n - Wrap
    BY <1>1, <1>3, <1>5
  <2> QED BY <1>1, <1>2, <2>1, <2>2
<1> QED BY <1>1, <1>4, <1>5

----------------------------------------------------------------------------
(* The actions.                                                            *)

\* Before low_level_init() nothing is known of the PHY.
LEMMA MacInitInv == MacInit => MacIInv
<1> SUFFICES ASSUME MacInit PROVE MacIInv
  OBVIOUS
<1>1. MacTypeOK
  <2>1. tick \in 0..(Wrap - 1) /\ tickstart \in 0..(Wrap - 1)
    BY Limits DEF MacInit
  <2>2. phyreg \in [link : BOOLEAN, complete : BOOLEAN]
    BY DEF MacInit
  <2>3. {link_up, link, complete, dropped, fresh, steady} \subseteq BOOLEAN
    BY DEF MacInit
  <2>4. mac \in Modes \cup {"reset"} /\ mode \in Modes
    BY DEF MacInit, Modes
  <2> QED BY <2>1, <2>2, <2>3, <2>4 DEF MacInit, MacTypeOK
<1>2. LoopInv
  BY DEF MacInit, LoopInv
<1>3. ModeInv
  BY DEF MacInit, ModeInv
<1> QED BY <1>1, <1>2, <1>3 DEF MacIInv

\* Types of the tick and of what the actions assign.
LEMMA MacNextType == MacTypeOK /\ [MacNext]_macvars => MacTypeOK'
<1> SUFFICES ASSUME MacTypeOK, [MacNext]_macvars PROVE MacTypeOK'
  OBVIOUS
<1>1. PHY_READ_TO + 1 \in Nat /\ 1 \in Nat /\ PHY_RESET_DELAY \in Nat
  BY Limits
<1>2. /\ After(tick, PHY_READ_TO + 1) \in 0..(Wrap - 1)
      /\ After(tick, 1) \in 0..(Wrap - 1)
      /\ After(tick, PHY_RESET_DELAY) \in 0..(Wrap - 1)
  BY <1>1, AfterType DEF MacTypeOK
<1>3. CASE StartReset \/ ResetTimeout \/ FinishInit \/ TestNegotiated
  BY <1>3 DEF MacTypeOK, StartReset, ResetTimeout, FinishInit, TestNegotiated, Continue, Return,
              Fail, phy, Modes
<1>4. CASE ResetPhy
  BY <1>2, <1>4 DEF MacTypeOK, ResetPhy, AccessFails, Continue, Return, Fail, phy, Modes
<1>5. CASE ReadStatus
  <2>1. [link |-> link /\ ~dropped, complete |-> complete] \in [link : BOOLEAN, complete : BOOLEAN]
    BY DEF MacTypeOK
  <2>2. phyreg' \in [link : BOOLEAN, complete : BOOLEAN]
    BY <1>5, <2>1 DEF MacTypeOK, ReadStatus
  <2>3. tick' \in 0..(Wrap - 1)
    BY <1>2, <1>5 DEF MacTypeOK, ReadStatus, AccessFails, AccessWorks
  <2>4. {link_up, link, complete, dropped, fresh, steady}' \subseteq BOOLEAN
    BY <1>5 DEF MacTypeOK, ReadStatus, AccessFails, AccessWorks, phy
  <2> QED BY <1>5, <2>2, <2>3, <2>4 DEF MacTypeOK, ReadStatus, phy
<1>6. CASE TestLinked
  BY <1>2, <1>6 DEF MacTypeOK, TestLinked, AccessFails, AccessWorks, Continue, Return, Fail, phy, Modes
<1>7. CASE ReadResult
  BY <1>2, <1>7 DEF MacTypeOK, ReadResult, AccessFails, AccessWorks, Return, Fail, phy, Modes
<1>8. CASE Tick \/ Plug \/ Negotiate \/ Unplug
  BY <1>2, <1>8 DEF MacTypeOK, Tick, Plug, Negotiate, Unplug, driver, phy, Modes
<1>9. CASE UNCHANGED macvars
  BY <1>9 DEF MacTypeOK, macvars, driver, phy
<1> QED BY <1>3, <1>4, <1>5, <1>6, <1>7, <1>8, <1>9 DEF MacNext, Driver

\* The loops of HAL_ETH_Init(): a test after a read that failed always finds the
\* timeout expired.
LEMMA MacNextLoop == MacTypeOK /\ LoopInv /\ [MacNext]_macvars => LoopInv'
<1> SUFFICES ASSUME MacTypeOK, LoopInv, [MacNext]_macvars PROVE LoopInv'
  OBVIOUS
<1> DEFINE T == ETH_TIMEOUT_AUTONEGO_COMPLETED
<1>1. /\ Wrap \in Nat \ {0} /\ PHY_READ_TO \in Nat /\ MaxLag \in Nat /\ T \in Nat
      /\ T < PHY_READ_TO /\ T + MaxLag + PHY_READ_TO + 2 < Wrap
      /\ tick \in 0..(Wrap - 1) /\ tickstart \in 0..(Wrap - 1)
      /\ Elapsed \in Nat
  BY Limits DEF MacTypeOK, Elapsed
<1> HIDE DEF T
<1>2. ASSUME NEW n \in Nat, tick' = After(tick, n), tickstart' = tickstart, Elapsed + n < Wrap
      PROVE  Elapsed' = Elapsed + n
  BY <1>1, <1>2, ElapsedAfter DEF Elapsed
<1>3. CASE StartReset \/ ResetTimeout \/ FinishInit \/ ResetPhy \/ ReadResult
  BY <1>3 DEF LoopInv, StartReset, ResetTimeout, FinishInit, ResetPhy, ReadResult,
              Continue, Return, Fail
<1>4. CASE ReadStatus /\ stage = "autoneg"
  <2>1. stage' = "autonegTest" /\ tickstart' = tickstart
    BY <1>4 DEF ReadStatus
  <2>2. CASE AccessFails
    <3>1. Elapsed <= T + MaxLag + 1
      BY <1>4 DEF LoopInv, T
    <3>2. Elapsed' = Elapsed + (PHY_READ_TO + 1)
      BY <1>1, <1>2, <2>1, <2>2, <3>1 DEF AccessFails
    <3>3. Elapsed' > T
      BY <1>1, <3>2
    <3> QED BY <2>1, <3>3 DEF LoopInv, Expired, T
  <2>3. CASE AccessWorks
    BY <2>1, <2>3 DEF LoopInv, AccessWorks
  <2> QED BY <1>4, <2>2, <2>3 DEF ReadStatus
<1>5. CASE ReadStatus /\ stage # "autoneg"
  BY <1>5 DEF ReadStatus, LoopInv
<1>6. CASE TestLinked
  <2>1. CASE stage' = "autoneg"
    <3>1. fresh' /\ tickstart' = tick /\ tick' = tick
      BY <1>6, <2>1 DEF TestLinked, Fail, Return, Continue, AccessWorks
    <3>2. Elapsed' = 0
      BY <1>1, <3>1 DEF Elapsed
    <3> QED BY <1>1, <2>1, <3>1, <3>2 DEF LoopInv, T
  <2>2. CASE stage' # "autoneg"
    BY <1>6, <2>2 DEF TestLinked, Fail, Return, Continue, LoopInv
  <2> QED BY <2>1, <2>2
<1>7. CASE TestNegotiated
  <2>1. CASE Expired(T)
    BY <1>7, <2>1 DEF TestNegotiated, Fail, Return, LoopInv, T
  <2>2. CASE ~Expired(T)
    <3>1. fresh
      BY <1>7, <2>2 DEF LoopInv, TestNegotiated, T
    <3>2. Elapsed' = Elapsed /\ fresh' = fresh /\ stage' \in {"result", "autoneg"}
      BY <1>7, <2>2 DEF TestNegotiated, Continue, Elapsed, T
    <3>3. Elapsed <= T + MaxLag + 1
      BY <1>1, <2>2 DEF Expired
    <3> QED BY <3>1, <3>2, <3>3 DEF LoopInv, T
  <2> QED BY <2>1, <2>2
<1>8. CASE Tick
  <2>1. stage' = stage /\ fresh' = fresh /\ tickstart' = tickstart /\ tick' = After(tick, 1)
    BY <1>8 DEF Tick, driver
  <2>2. CASE stage \in {"autoneg", "autonegTest"}
    <3>1. Elapsed <= T + MaxLag
      BY <1>8, <2>2 DEF Tick, T
    <3>2. Elapsed' = Elapsed + 1
      BY <1>1, <1>2, <2>1, <3>1
    <3> QED BY <1>1, <2>1, <3>1, <3>2 DEF LoopInv, Expired, T
  <2>3. CASE stage \notin {"autoneg", "autonegTest"}
    BY <2>1, <2>3 DEF LoopInv
  <2> QED BY <2>2, <2>3
<1>9. CASE Plug \/ Negotiate \/ Unplug \/ UNCHANGED macvars
  BY <1>9 DEF Plug, Negotiate, Unplug, LoopInv, Expired, Elapsed, driver, macvars
<1> QED BY <1>3, <1>4, <1>5, <1>6, <1>7, <1>8, <1>9 DEF MacNext, Driver

\* What HAL_ETH_Init() programs, and what the PHY does meanwhile.
LEMMA MacNextMode == MacTypeOK /\ ModeInv /\ [MacNext]_macvars => ModeInv'
<1> SUFFICES ASSUME MacTypeOK, ModeInv, [MacNext]_macvars PROVE ModeInv'
  OBVIOUS
<1>1. CASE StartReset \/ ResetTimeout \/ ResetPhy
  BY <1>1 DEF ModeInv, MacTypeOK, StartReset, ResetTimeout, ResetPhy, Continue, Return, Fail, phy
<1>2. CASE ReadStatus
  BY <1>2 DEF ModeInv, MacTypeOK, ReadStatus, phy
<1>3. CASE TestLinked \/ TestNegotiated
  BY <1>3 DEF ModeInv, MacTypeOK, TestLinked, TestNegotiated, Continue, Return, Fail, phy
<1>4. CASE ReadResult
  BY <1>4 DEF ModeInv, MacTypeOK, ReadResult, Return, Fail, phy
<1>5. CASE FinishInit
  BY <1>5 DEF ModeInv, MacTypeOK, FinishInit, phy
<1>6. CASE Tick \/ Plug \/ Negotiate \/ Unplug \/ UNCHANGED macvars
  BY <1>6 DEF ModeInv, MacTypeOK, Tick, Plug, Negotiate, Unplug, driver, phy, macvars
<1> QED BY <1>1, <1>2, <1>3, <1>4, <1>5, <1>6 DEF MacNext, Driver

----------------------------------------------------------------------------
\* The invariant holds for every cable, every PHY and every lateness up to MaxLag.
THEOREM MacInvariance == MacSpec => []MacIInv
<1>1. MacIInv /\ [MacNext]_macvars => MacIInv'
  BY MacNextType, MacNextLoop, MacNextMode DEF MacIInv
<1> QED BY <1>1, MacInitInv, PTL DEF MacSpec

\* HAL_ETH_Init() ignores that HAL_ETH_ReadPHYRegister() failed, but never goes
\* on with what an earlier read has left.
THEOREM StatusIsFresh == MacSpec => []FreshStatus
<1>1. MacIInv => FreshStatus
  BY DEF MacIInv, LoopInv, FreshStatus
<1> QED BY <1>1, MacInvariance, PTL

\* The MAC is in the mode the PHY has negotiated whenever low_level_init()
\* reports a link, unless the link was lost in between.
THEOREM ModeIsNegotiated == MacSpec => []ModeNegotiated
<1>1. MacIInv => ModeNegotiated
  BY DEF MacIInv, ModeInv, ModeNegotiated
<1> QED BY <1>1, MacInvariance, PTL
=============================================================================
