------------------------------ MODULE NetStack ------------------------------
(***************************************************************************)
(* What a received frame sets going on the running board: ethernetif_input *)
(* takes buffers of the pool for it, ARP packets go to etharp.c, fragments *)
(* to ip4_frag.c, and datagrams, whole or reassembled, to the UDP echo     *)
(* server (src/USER/udp_server.c), whose answer goes out through etharp.c  *)
(* and may wait there, in the buffers of the request, for an ARP reply.    *)
(* All of this is one call from the main loop (NO_SYS, one thread), so it  *)
(* is one action; the timers of ARP and reassembly run between frames.     *)
(*                                                                         *)
(* The board has its address.  All hosts are on its network; a gateway is  *)
(* one of them.  A frame that finds no buffers is dropped by the driver    *)
(* and changes nothing.                                                    *)
(***************************************************************************)
EXTENDS Etharp, IpReass

CONSTANTS
  PBUF_POOL_SIZE,
  Datagrams,   \* unfragmented UDP datagrams to the server: src, len and n
  Src,         \* the sender of each fragmented datagram
  Mtu,         \* longest data of an unfragmented packet
  RecvOk,      \* outcomes of mem_malloc() in udp_server_recv()
  HeapOk       \* outcomes of other allocations from the heap

ASSUME NetAssumption ==
  /\ PBUF_POOL_SIZE \in Nat /\ Mtu \in Nat /\ IP_REASS_MAX_PBUFS <= MaxPacket
  /\ Datagrams \subseteq [src : Hosts, len : 0..Mtu, n : 1..MaxPacket]
  /\ Src \in [Ids -> Hosts]
  /\ HeapOk \subseteq BOOLEAN /\ RecvOk \subseteq BOOLEAN /\ TRUE \in HeapOk \cap RecvOk

VARIABLES
  arp_table, etharp_cached_entry,
  reassdatagrams, ip_reass_pbufcount,
  free,        \* free buffers of the pool PBUF_POOL
  server,      \* udp_server_recv() is registered
  announced,   \* history: the address in the last ARP packet of each host
  sent,        \* history: IP packets the last step gave to the link
  delivered    \* history: fragments of the datagram it reassembled

arpVars == <<arp_table, etharp_cached_entry>>
reassVars == <<reassdatagrams, ip_reass_pbufcount>>
vars == <<arp_table, etharp_cached_entry, reassdatagrams, ip_reass_pbufcount, free,
          server, announced, sent, delivered>>

Arp == [table |-> arp_table, cached |-> etharp_cached_entry, freed |-> 0, sent |-> {}]
Reass == [list |-> reassdatagrams, count |-> ip_reass_pbufcount, freed |-> 0,
          exceeded |-> << >>, up |-> {}]

\* The state after the calls that led to a and r
SetArp(a) ==
  /\ arp_table' = a.table
  /\ etharp_cached_entry' = a.cached
  /\ sent' = a.sent
SetReass(r) ==
  /\ reassdatagrams' = r.list
  /\ ip_reass_pbufcount' = r.count

Init ==
  /\ arp_table = [i \in Index |-> Empty] /\ etharp_cached_entry = 1
  /\ reassdatagrams = << >> /\ ip_reass_pbufcount = 0
  /\ free = PBUF_POOL_SIZE
  /\ server = FALSE
  /\ announced = [h \in Hosts |-> NoMac]
  /\ sent = {} /\ delivered = {}
-----------------------------------------------------------------------------
\* icmp_send_response() to the host: a message in the heap, none without memory
icmp_send_response(a, host, m) ==
  IF m = "no_memory" THEN a
  ELSE etharp_output(a, host, [n |-> 0, volatile |-> FALSE], m = "sent")
Outcomes == {"sent"} \cup IF FALSE \in HeapOk THEN {"no_memory", "no_request"} ELSE {}

\* The time-exceeded messages to the senders of ds, with outcome ms[k] each
icmp_time_exceeded(a, ds, ms) ==
  LET b[k \in 0..Len(ds)] == IF k = 0 THEN a
                             ELSE icmp_send_response(b[k - 1], Src[ds[k].id], ms[k])
  IN b[Len(ds)]

\* udp_server_recv(): a copy for printing is allocated first (mem_malloc() of
\* no bytes gives none), and without it the request is not freed.  A longer
\* answer than Mtu is cut up by ip4_frag() into packets that refer to it.
udp_server_recv(a, src, len, n, mem, ok) ==
  IF len = 0 \/ ~mem THEN a
  ELSE LET answered == etharp_output(a, src, [n |-> n, volatile |-> len > Mtu], ok)
       IN [answered EXCEPT !.freed = @ + n]

\* udp_input() of a datagram to the server's port
udp_input(a, src, len, n, mem, ok, m) ==
  IF server THEN udp_server_recv(a, src, len, n, mem, ok)
  ELSE LET told == icmp_send_response(a, src, m)
       IN [told EXCEPT !.freed = @ + n]
-----------------------------------------------------------------------------
\* udp_server_init(): udp_recv() only when udp_new() and udp_bind() succeeded
udp_server_init ==
  /\ ~server
  /\ server' \in BOOLEAN
  /\ sent' = {} /\ delivered' = {}
  /\ UNCHANGED <<arpVars, reassVars, free, announced>>

\* An ARP request or reply of a host; for_us when it is addressed to the board
InputArp(ip, mac, for_us) ==
  /\ free >= 1
  /\ \E a \in {etharp_input(Arp, ip, mac, for_us)} : SetArp(a) /\ free' = free + a.freed
  /\ announced' = [announced EXCEPT ![ip] = mac]
  /\ delivered' = {}
  /\ UNCHANGED <<reassVars, server>>

InputDatagram(d) ==
  /\ free >= d.n
  /\ \E mem \in RecvOk, ok \in HeapOk, m \in Outcomes :
       \E a \in {udp_input(Arp, d.src, d.len, d.n, mem, ok, m)} :
         SetArp(a) /\ free' = free - d.n + a.freed
  /\ delivered' = {}
  /\ UNCHANGED <<reassVars, server, announced>>

\* Length of a reassembled datagram
LengthOf(frags) == Max({f.end : f \in frags})

InputFragment(f) ==
  /\ free >= f.n
  /\ \E r \in {ip4_reass(Reass, f)} :
       /\ SetReass(r) /\ delivered' = r.up
       /\ \E ms \in [DOMAIN r.exceeded -> Outcomes],
             mem \in RecvOk, ok \in HeapOk, m \in Outcomes :
            \E a \in {icmp_time_exceeded(Arp, r.exceeded, ms)} :
            \E b \in {IF r.up = {} THEN a
                      ELSE udp_input(a, Src[f.id], LengthOf(r.up), PbufsOf(r.up), mem, ok, m)} :
              SetArp(b) /\ free' = free - f.n + r.freed + b.freed
  /\ UNCHANGED <<server, announced>>

\* etharp_tmr() and ip_reass_tmr(), called by lwip_cyclic_timer()
ArpTimer ==
  /\ \E a \in {Tmr(Arp)} : SetArp(a) /\ free' = free + a.freed
  /\ delivered' = {}
  /\ UNCHANGED <<reassVars, server, announced>>

ReassTimer ==
  /\ \E r \in {ip_reass_tmr(Reass)} :
       /\ SetReass(r)
       /\ \E ms \in [DOMAIN r.exceeded -> Outcomes] :
            \E a \in {icmp_time_exceeded(Arp, r.exceeded, ms)} :
              SetArp(a) /\ free' = free + r.freed + a.freed
  /\ delivered' = {}
  /\ UNCHANGED <<server, announced>>

\* dhcp_check() asks whether an offered address is in use
DhcpCheck(ip) ==
  /\ \E a \in {etharp_query_null(Arp, ip)} : SetArp(a) /\ free' = free + a.freed
  /\ delivered' = {}
  /\ UNCHANGED <<reassVars, server, announced>>

Input ==
  \/ \E ip \in Hosts, mac \in Macs, for_us \in BOOLEAN : InputArp(ip, mac, for_us)
  \/ \E d \in Datagrams : InputDatagram(d)
  \/ \E f \in Fragments : InputFragment(f)

Next ==
  \/ udp_server_init
  \/ Input
  \/ ArpTimer \/ ReassTimer
  \/ \E ip \in Hosts : DhcpCheck(ip)

Spec == Init /\ [][Next]_vars

\* The timers run (Timeouts!TimersRun); nothing is promised of the network.
FairSpec == Spec /\ WF_vars(ArpTimer) /\ WF_vars(ReassTimer)
-----------------------------------------------------------------------------
TypeOK ==
  /\ arp_table \in [Index -> ArpEntry] /\ etharp_cached_entry \in Index
  /\ reassdatagrams \in Seq(Datagram)
  /\ Len(reassdatagrams) <= MEMP_NUM_REASSDATA
  /\ ip_reass_pbufcount \in 0..IP_REASS_MAX_PBUFS
  /\ free \in 0..PBUF_POOL_SIZE
  /\ server \in BOOLEAN
  /\ announced \in [Hosts -> Macs \cup {NoMac}]
  /\ sent \subseteq [ip : Hosts, mac : Macs]
  /\ delivered \subseteq Fragments

(***************************************************************************)
(* ip_reass_pbufcount is what the queued datagrams hold, so that the limit *)
(* means what it says and the assertions "ip_reass_pbufcount >= clen" are  *)
(* never at fault; and each datagram is in the list once.                  *)
(***************************************************************************)
CountIsTrue ==
  /\ ip_reass_pbufcount = PbufsIn(reassdatagrams)
  /\ \A i, j \in DOMAIN reassdatagrams : i # j => reassdatagrams[i].id # reassdatagrams[j].id

(***************************************************************************)
(* No buffer of the pool is lost: each is free, waits with a packet for an *)
(* ARP reply, or belongs to a datagram in reassembly, where it is counted  *)
(* (udp_server_recv(), etharp_query() and ip4_reass() free what they do    *)
(* not keep).                                                              *)
(***************************************************************************)
NoLeak ==
  /\ free + KeptIn(arp_table) + PbufsIn(reassdatagrams) = PBUF_POOL_SIZE
  /\ CountIsTrue

(***************************************************************************)
(* An address has one entry of the ARP table at most, whatever             *)
(* etharp_find_entry() recycles; with two the packets queued on one of     *)
(* them would wait for a reply that updates the other.                     *)
(***************************************************************************)
OneEntryPerAddress ==
  \A i, j \in Index :
    i # j /\ arp_table[i].state # "EMPTY" /\ arp_table[j].state # "EMPTY"
      => arp_table[i].ip # arp_table[j].ip

(***************************************************************************)
(* Packets queue on pending entries only, as etharp_find_entry() asserts   *)
(* where it recycles a stable entry ("arp_table[i].q == NULL").            *)
(***************************************************************************)
OnlyPendingQueue == \A i \in Index : arp_table[i].q # << >> => arp_table[i].state = "PENDING"

(***************************************************************************)
(* The ARP table is consistent, whatever etharp_find_entry() recycles.     *)
(***************************************************************************)
TableConsistent == TypeOK /\ OneEntryPerAddress /\ OnlyPendingQueue

(***************************************************************************)
(* Every packet leaves for the hardware address its destination announced  *)
(* last, also when etharp_cached_entry names an entry that was recycled    *)
(* for another host or when a host has changed its hardware.               *)
(***************************************************************************)
RightHost ==
  /\ \A p \in sent : p.mac = announced[p.ip]
  /\ \A i \in Index : arp_table[i].state \in StableState
                        => arp_table[i].mac = announced[arp_table[i].ip]

(***************************************************************************)
(* A datagram goes up only when its fragments cover it exactly: each byte  *)
(* up to the end of the last fragment is in one fragment.                  *)
(***************************************************************************)
DeliveredWhole ==
  delivered # {} =>
    \A b \in 0..(LengthOf(delivered) - 1) :
      Cardinality({f \in delivered : f.start <= b /\ b < f.end}) = 1

(***************************************************************************)
(* Making room for a fragment never costs the datagram it belongs to: a    *)
(* datagram that is in the list before and after a step has lost nothing.  *)
(***************************************************************************)
FragsOf(list, id) == UNION {list[i].frags : i \in {j \in DOMAIN list : list[j].id = id}}
KeepsOwnDatagram ==
  [][\A id \in Ids : FragsOf(reassdatagrams, id)' # {} =>
        FragsOf(reassdatagrams, id) \subseteq FragsOf(reassdatagrams, id)']_vars

(***************************************************************************)
(* Packets that wait for an ARP reply give their buffers back, however the *)
(* network goes on: the entry is answered or expires (etharp_tmr()), and   *)
(* sending more packets to the host does not keep it waiting.              *)
(***************************************************************************)
PendingEnds ==
  \A ip \in Hosts :
    LET Pending == \E i \in Index : arp_table[i].ip = ip /\ arp_table[i].q # << >>
    IN Pending ~> ~Pending

(***************************************************************************)
(* A datagram in reassembly gives its buffers back: it is completed, is    *)
(* removed to make room or expires (ip_reass_tmr()), although a fragment   *)
(* may arrive again and again.                                             *)
(***************************************************************************)
ReassemblyEnds ==
  \A id \in Ids : FragsOf(reassdatagrams, id) # {} ~> FragsOf(reassdatagrams, id) = {}
=============================================================================
