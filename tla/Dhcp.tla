------------------------------- MODULE Dhcp --------------------------------
(***************************************************************************)
(* The DHCP client of the stack (lwip-2.1.2/src/core/ipv4/dhcp.c) as       *)
(* functions on the client's state.  A client is a record of the fields of *)
(* struct dhcp, of the interface's address and of the counter the          *)
(* transaction identifiers come from; every function of dhcp.c maps it to  *)
(* the client after the call.  The module Startup calls them from the main *)
(* loop.                                                                   *)
(*                                                                         *)
(* Abstractions: request_timeout is only running (1) or not (0), the       *)
(* length of the back-off is left out; netmask and gateway follow the      *)
(* address; the state REBOOTING is absent, since only                      *)
(* dhcp_network_changed() enters it and nothing in this build calls        *)
(* netif_set_link_up().                                                    *)
(***************************************************************************)
EXTENDS Integers

CONSTANTS Addrs,      \* addresses a server may offer
          NoAddr,     \* IP4_ADDR_ANY
          Static,     \* IP_ADDR0 .. IP_ADDR3, the static address
          Opts,       \* time options of an ACK: records of lease, t1 and t2
          NotGiven,   \* the option is absent
          U32Max,     \* 2^32 - 1, also the infinite lease
          U16Max,     \* 2^16 - 1
          CoarseSecs, \* DHCP_COARSE_TIMER_SECS
          TriesMax    \* 255, where the counter of tries saturates

ASSUME AddrAssumption == NoAddr \notin Addrs /\ Static \notin Addrs /\ Static # NoAddr
ASSUME WidthAssumption == /\ U32Max \in Nat \ {0} /\ U16Max \in Nat \ {0}
                          /\ CoarseSecs \in Nat \ {0} /\ TriesMax \in Nat \ {0}
ASSUME OptsAssumption ==
  /\ NotGiven \notin 0 .. U32Max
  /\ Opts \subseteq [lease : 0 .. U32Max \cup {NotGiven},
                     t1    : 0 .. U32Max \cup {NotGiven},
                     t2    : 0 .. U32Max \cup {NotGiven}]

State == {"OFF", "REQUESTING", "REBINDING", "RENEWING", "SELECTING", "CHECKING",
          "BOUND", "BACKING_OFF"}

Infinite == U32Max

Msg == [type : {"DISCOVER"}, xid : Nat]
         \cup [type : {"REQUEST"}, xid : Nat, addr : Addrs]

Client == [state : State, tries : 0 .. TriesMax, request_timeout : {0, 1},
           pcb_allocated : {0, 1},
           xid : Nat,                     \* dhcp->xid
           next_xid : Nat,                \* the static xid of dhcp_create_msg()
           offered_ip_addr : Addrs \cup {NoAddr},
           offered_t0_lease : Nat, offered_t1_renew : Nat, offered_t2_rebind : Nat,
           lease_used : 0 .. U16Max, t0_timeout : 0 .. U16Max, t2_timeout : 0 .. U16Max,
           t1_renew_time : 0 .. U16Max, t2_rebind_time : 0 .. U16Max,
           ip : Addrs \cup {NoAddr, Static},  \* netif->ip_addr
           sent : SUBSET Msg,             \* DISCOVERs and REQUESTs on the network
           closed : SUBSET Nat]           \* history: xids of finished transactions

\* A struct dhcp that memset() has cleared, on an interface with address ip.
Cleared(c) ==
  [c EXCEPT !.state = "OFF", !.tries = 0, !.request_timeout = 0,
            !.pcb_allocated = 0, !.xid = 0, !.offered_ip_addr = NoAddr,
            !.offered_t0_lease = 0, !.offered_t1_renew = 0, !.offered_t2_rebind = 0,
            !.lease_used = 0, !.t0_timeout = 0, !.t2_timeout = 0,
            !.t1_renew_time = 0, !.t2_rebind_time = 0]

----------------------------------------------------------------------------
\* Mutant: a change of state keeps the counter of tries.
SetStateKeepsTries(c, s) ==
  IF c.state = s THEN c ELSE [c EXCEPT !.state = s, !.request_timeout = 0]

SetState(c, s) ==
  IF c.state = s THEN c
  ELSE [c EXCEPT !.state = s, !.tries = 0, !.request_timeout = 0]

\* A REQUEST asks for the offered address, or for a longer use of the present one.
\* Servers answer no other message than DISCOVERs and REQUESTs for an address.
Sent(c, type) ==
  LET addr == IF c.state = "REQUESTING" THEN c.offered_ip_addr ELSE c.ip
  IN  IF type = "DISCOVER" THEN {[type |-> type, xid |-> c.xid]}
      ELSE IF type = "REQUEST" /\ addr # NoAddr
        THEN {[type |-> type, xid |-> c.xid, addr |-> addr]}
      ELSE {}

\* Build and send a message.  A REQUEST keeps the transaction identifier of the
\* offer, the others take a new one unless they are retransmissions.  With
\* ok = FALSE there is no memory for the message and nothing happens.
CreateMsg(c, type, ok) ==
  LET x == IF c.tries = 0 THEN c.next_xid + 1 ELSE c.next_xid
      d == IF type = "REQUEST" THEN c ELSE [c EXCEPT !.next_xid = x, !.xid = x]
  IN  IF ok THEN [d EXCEPT !.sent = @ \cup Sent(d, type)] ELSE c

\* End of every function that sends: one more try, and wait for the answer.
Tried(c) == [c EXCEPT !.tries = IF @ < TriesMax THEN @ + 1 ELSE @,
                      !.request_timeout = 1]

Discover(c, ok) ==
  Tried(CreateMsg(SetState([c EXCEPT !.offered_ip_addr = NoAddr], "SELECTING"),
                  "DISCOVER", ok))

\* Mutant: a repeated REQUEST is not counted.
SelectUncounted(c, ok) ==
  [CreateMsg(SetState(c, "REQUESTING"), "REQUEST", ok) EXCEPT !.request_timeout = 1]

Select(c, ok) == Tried(CreateMsg(SetState(c, "REQUESTING"), "REQUEST", ok))

Renew(c, ok)  == Tried(CreateMsg(SetState(c, "RENEWING"), "REQUEST", ok))

Rebind(c, ok) == Tried(CreateMsg(SetState(c, "REBINDING"), "REQUEST", ok))

\* ARP query for the offered address.
Check(c) == Tried(SetState(c, "CHECKING"))

Decline(c, ok) ==
  Tried(CreateMsg([SetState(c, "BACKING_OFF") EXCEPT !.closed = @ \cup {c.xid}],
                  "DECLINE", ok))

\* Mutant: the refused address stays on the interface.
HandleNakKeepsAddress(c, ok) ==
  Discover([SetState(c, "BACKING_OFF") EXCEPT !.closed = @ \cup {c.xid}], ok)

\* The lease timers are not touched.
HandleNak(c, ok) ==
  Discover([SetState(c, "BACKING_OFF") EXCEPT !.ip = NoAddr, !.closed = @ \cup {c.xid}], ok)

HandleOffer(c, a, ok) ==
  Select([c EXCEPT !.request_timeout = 0, !.offered_ip_addr = a], ok)

HandleAck(c, a, o) ==
  LET lease == IF o.lease = NotGiven THEN c.offered_t0_lease ELSE o.lease
  IN  [c EXCEPT
        !.offered_t0_lease = lease,
        !.offered_t1_renew = IF o.t1 = NotGiven THEN lease \div 2 ELSE o.t1,
        !.offered_t2_rebind = IF o.t2 = NotGiven
                                THEN ((lease * 7) % (U32Max + 1)) \div 8 ELSE o.t2,
        !.offered_ip_addr = a]

\* Seconds to ticks of the coarse timer, rounded, at least one, at most 16 bits.
Ticks(secs) ==
  LET t == ((secs + CoarseSecs \div 2) % (U32Max + 1)) \div CoarseSecs
  IN  IF t = 0 THEN 1 ELSE IF t > U16Max THEN U16Max ELSE t

\* Mutant: the time used of the previous lease goes on counting.
BindKeepsLeaseUsed(c) ==
  LET t0 == IF c.offered_t0_lease = Infinite THEN c.t0_timeout ELSE Ticks(c.offered_t0_lease)
      t2 == IF c.offered_t2_rebind = Infinite THEN c.t2_timeout ELSE Ticks(c.offered_t2_rebind)
  IN  [SetState(c, "BOUND") EXCEPT
        !.t0_timeout = t0, !.t2_timeout = t2,
        !.t1_renew_time = IF c.offered_t1_renew = Infinite THEN @ ELSE Ticks(c.offered_t1_renew),
        !.t2_rebind_time = IF c.offered_t2_rebind = Infinite THEN @ ELSE t2,
        !.ip = c.offered_ip_addr]

\* An infinite period leaves the timer of the previous lease as it is.
Bind(c) ==
  LET t0 == IF c.offered_t0_lease = Infinite THEN c.t0_timeout ELSE Ticks(c.offered_t0_lease)
      t2 == IF c.offered_t2_rebind = Infinite THEN c.t2_timeout ELSE Ticks(c.offered_t2_rebind)
  IN  [SetState(c, "BOUND") EXCEPT
        !.lease_used = 0, !.t0_timeout = t0, !.t2_timeout = t2,
        !.t1_renew_time = IF c.offered_t1_renew = Infinite THEN @ ELSE Ticks(c.offered_t1_renew),
        !.t2_rebind_time = IF c.offered_t2_rebind = Infinite THEN @ ELSE t2,
        !.ip = c.offered_ip_addr]

----------------------------------------------------------------------------
\* dhcp_supplied_address()
Supplied(c) == c.state \in {"BOUND", "RENEWING", "REBINDING"}

\* The RELEASE is only sent for an address that DHCP supplied.
ReleaseAndStop(c, ok) ==
  IF c.state = "OFF" THEN c
  ELSE LET d == [c EXCEPT !.offered_ip_addr = NoAddr,
                          !.offered_t0_lease = 0, !.offered_t1_renew = 0,
                          !.offered_t2_rebind = 0, !.t1_renew_time = 0,
                          !.t2_rebind_time = 0, !.lease_used = 0, !.t0_timeout = 0,
                          !.closed = @ \cup {c.xid}]
           e == IF Supplied(c) THEN CreateMsg(d, "RELEASE", ok) ELSE d
       IN  [SetState([e EXCEPT !.ip = NoAddr], "OFF") EXCEPT !.pcb_allocated = 0]

\* dhcp_start() on an interface that is up.
Start(c, ok) == Discover([Cleared(c) EXCEPT !.pcb_allocated = 1], ok)

Restart(c, okRelease, ok) == Start(ReleaseAndStop(c, okRelease), ok)

----------------------------------------------------------------------------
\* dhcp_timeout(): no answer came in time.
Timeout(c, okRelease, ok) ==
  CASE c.state \in {"BACKING_OFF", "SELECTING"}   -> Discover(c, ok)
    [] c.state = "REQUESTING" /\ c.tries <= 5     -> Select(c, ok)
    [] c.state = "REQUESTING" /\ c.tries > 5      -> Restart(c, okRelease, ok)
    [] c.state = "CHECKING" /\ c.tries <= 1       -> Check(c)
    [] c.state = "CHECKING" /\ c.tries > 1        -> Bind(c)
    [] OTHER                                      -> c

\* dhcp_fine_tmr(), in the tick in which request_timeout runs out.
FineTmr(c, okRelease, ok) ==
  Timeout([c EXCEPT !.request_timeout = 0], okRelease, ok)

\* Half of the time left until the end of a period, if that is a tick at least.
Halved(end, used, old) == IF (end - used) \div 2 >= 1 THEN (end - used) \div 2 ELSE old

T1Timeout(c, ok) ==
  IF c.state \notin {"REQUESTING", "BOUND", "RENEWING"} THEN c
  ELSE [Renew(c, ok) EXCEPT !.t1_renew_time = Halved(c.t2_timeout, c.lease_used, @)]

T2Timeout(c, ok) ==
  IF c.state \notin {"REQUESTING", "BOUND", "RENEWING", "REBINDING"} THEN c
  ELSE [Rebind(c, ok) EXCEPT !.t2_rebind_time = Halved(c.t0_timeout, c.lease_used, @)]

\* Increment of an u16_t.
Inc16(n) == IF n = U16Max THEN 0 ELSE n + 1

\* The tick in which the lease ends.
LeaseEnds(c) == c.t0_timeout # 0 /\ Inc16(c.lease_used) = c.t0_timeout

\* Mutant: the lease is only counted while the client is BOUND.
CoarseTmrBoundOnly(c, okRelease, ok) ==
  IF c.state = "OFF" THEN c
  ELSE IF c.state = "BOUND" /\ LeaseEnds(c) THEN Restart(c, okRelease, ok)
  ELSE LET d  == [c EXCEPT !.lease_used = IF c.state = "BOUND" /\ c.t0_timeout # 0
                                            THEN Inc16(@) ELSE @]
           e  == [d EXCEPT !.t2_rebind_time = IF @ = 0 THEN 0 ELSE @ - 1]
           f  == [e EXCEPT !.t1_renew_time = IF @ = 0 THEN 0 ELSE @ - 1]
       IN  CASE c.t2_rebind_time = 1                          -> T2Timeout(e, ok)
             [] c.t2_rebind_time # 1 /\ c.t1_renew_time = 1   -> T1Timeout(f, ok)
             [] c.t2_rebind_time # 1 /\ c.t1_renew_time # 1   -> f

\* dhcp_coarse_tmr(): at most one of the three timers runs out in a tick, and t1
\* is not counted in the tick in which t2 runs out.
CoarseTmr(c, okRelease, ok) ==
  IF c.state = "OFF" THEN c
  ELSE IF LeaseEnds(c) THEN Restart(c, okRelease, ok)
  ELSE LET d  == [c EXCEPT !.lease_used = IF c.t0_timeout = 0 THEN @ ELSE Inc16(@)]
           e  == [d EXCEPT !.t2_rebind_time = IF @ = 0 THEN 0 ELSE @ - 1]
           f  == [e EXCEPT !.t1_renew_time = IF @ = 0 THEN 0 ELSE @ - 1]
       IN  CASE c.t2_rebind_time = 1                          -> T2Timeout(e, ok)
             [] c.t2_rebind_time # 1 /\ c.t1_renew_time = 1   -> T1Timeout(f, ok)
             [] c.t2_rebind_time # 1 /\ c.t1_renew_time # 1   -> f

----------------------------------------------------------------------------
\* dhcp_recv(): m has passed the checks of the header; o are its options.
Recv(c, m, ok) ==
  CASE c.pcb_allocated = 0 \/ m.xid # c.xid -> c
    [] c.pcb_allocated = 1 /\ m.xid = c.xid ->
       CASE m.type = "ACK" /\ c.state = "REQUESTING"    -> Check(HandleAck(c, m.addr, m.opts))
         [] m.type = "ACK" /\ c.state \in {"REBINDING", "RENEWING"}
                                                        -> Bind(HandleAck(c, m.addr, m.opts))
         [] m.type = "NAK" /\ c.state \in {"REQUESTING", "REBINDING", "RENEWING"}
                                                        -> HandleNak(c, ok)
         [] m.type = "OFFER" /\ c.state = "SELECTING"   -> HandleOffer(c, m.addr, ok)
         [] OTHER                                       -> c

\* dhcp_arp_reply(): another host answers for address a.
ArpReply(c, a, ok) ==
  IF c.state = "CHECKING" /\ a = c.offered_ip_addr THEN Decline(c, ok) ELSE c
============================================================================
