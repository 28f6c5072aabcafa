------------------------------- MODULE Etharp -------------------------------
(***************************************************************************)
(* Address resolution (lwip-2.1.2/src/core/ipv4/etharp.c, ARP_QUEUEING 0,  *)
(* no static entries) as functions on the ARP table.  The module NetStack  *)
(* calls them for frames, timers and packets to be sent.                   *)
(*                                                                         *)
(* An Arp record is arp_table and etharp_cached_entry, with two results of *)
(* the calls made so far: the buffers of the receive pool they freed, and  *)
(* the IP packets they gave to the link, each with the address it is for   *)
(* and the hardware address it was sent to.  The queue of an entry holds   *)
(* at most one packet, represented by the number of pool buffers it keeps: *)
(* none if it is a copy in the heap.                                       *)
(*                                                                         *)
(* ARP requests and replies that are sent have no state and are left out;  *)
(* whether memory for one was found matters to the states that follow.     *)
(***************************************************************************)
EXTENDS Integers, Sequences, FiniteSets, FiniteSetsExt, Functions

CONSTANTS
  Hosts,                            \* IP addresses on the local network
  Macs,                             \* hardware addresses
  NoHost, NoMac,                    \* the zero addresses of a cleared entry
  ARP_TABLE_SIZE,
  ARP_MAXAGE, ARP_MAXPENDING,       \* in calls of etharp_tmr()
  ARP_AGE_REREQUEST_USED_UNICAST,
  MaxPacket                         \* bound: pool buffers of a packet

ASSUME ArpAssumption ==
  /\ ARP_TABLE_SIZE \in Nat \ {0} /\ MaxPacket \in Nat \ {0}
  /\ ARP_MAXPENDING \in Nat \ {0} /\ ARP_MAXAGE \in Nat \ {0}
  /\ ARP_MAXPENDING <= ARP_MAXAGE
  /\ ARP_AGE_REREQUEST_USED_UNICAST \in 0..ARP_MAXAGE
  /\ NoHost \notin Hosts /\ NoMac \notin Macs

Index == 1..ARP_TABLE_SIZE
StableState == {"STABLE", "REREQUESTING_1", "REREQUESTING_2"}

ArpEntry == [state : StableState \cup {"EMPTY", "PENDING"},
             ip : Hosts \cup {NoHost}, mac : Macs \cup {NoMac},
             ctime : 0..(ARP_MAXAGE - 1),
             q : {<< >>} \cup {<<n>> : n \in 0..MaxPacket}]

\* The pool buffers a queue keeps
Kept(q) == IF q = << >> THEN 0 ELSE q[1]
KeptIn(table) == SumFunctionOnSet([i \in Index |-> Kept(table[i].q)], Index)

\* What etharp_free_entry() leaves (LWIP_DEBUG is defined in arch/cc.h)
Empty == [state |-> "EMPTY", ip |-> NoHost, mac |-> NoMac, ctime |-> 0, q |-> << >>]
-----------------------------------------------------------------------------
TooOld(e) ==
  \/ e.ctime + 1 >= ARP_MAXAGE
  \/ e.state = "PENDING" /\ e.ctime + 1 >= ARP_MAXPENDING

\* etharp_tmr() for one entry
Aged(e) ==
  CASE e.state = "EMPTY" -> e
    [] e.state # "EMPTY" /\ TooOld(e) -> Empty
    [] OTHER -> [e EXCEPT !.ctime = @ + 1,
                          !.state = IF @ = "REREQUESTING_1" THEN "REREQUESTING_2"
                                    ELSE IF @ = "REREQUESTING_2" THEN "STABLE" ELSE @]

Tmr(a) ==
  LET aged == [i \in Index |-> Aged(a.table[i])]
  IN [a EXCEPT !.table = aged, !.freed = @ + KeptIn(a.table) - KeptIn(aged)]
-----------------------------------------------------------------------------
\* The oldest of the entries S; of several the one that comes last
Oldest(table, S) ==
  CHOOSE i \in S : \A j \in S :
    table[j].ctime < table[i].ctime \/ (table[j].ctime = table[i].ctime /\ j <= i)

\* The entry that is recycled in a full table: the oldest stable one, or the
\* oldest pending one without a queue, or the oldest pending one.
Recycled(table) ==
  LET stable == {i \in Index : table[i].state \in StableState}
      idle == {i \in Index : table[i].state = "PENDING" /\ table[i].q = << >>}
  IN Oldest(table, IF stable # {} THEN stable ELSE IF idle # {} THEN idle ELSE Index)

\* Mutant: takes the first empty entry without looking for a match behind it
etharp_find_entry_FirstEmpty(a, ip, hard) ==
  LET empty == {i \in Index : a.table[i].state = "EMPTY"}
      match == {i \in Index : /\ a.table[i].state # "EMPTY" /\ a.table[i].ip = ip
                              /\ hard => \A j \in empty : i < j}
      new == IF empty # {} THEN Min(empty) ELSE Recycled(a.table)
  IN IF match # {} THEN [i |-> Min(match), a |-> a]
     ELSE IF ~hard THEN [i |-> 0, a |-> a]
     ELSE [i |-> new,
           a |-> [a EXCEPT !.table[new] = [Empty EXCEPT !.ip = ip],
                           !.freed = @ + Kept(a.table[new].q)]]
\* The index of the entry for ip, made anew if there is none and `hard' is set
\* (ETHARP_FLAG_TRY_HARD; otherwise ETHARP_FLAG_FIND_ONLY), 0 for ERR_MEM.
etharp_find_entry(a, ip, hard) ==
  LET match == {i \in Index : a.table[i].state # "EMPTY" /\ a.table[i].ip = ip}
      empty == {i \in Index : a.table[i].state = "EMPTY"}
      new == IF empty # {} THEN Min(empty) ELSE Recycled(a.table)
  IN IF match # {} THEN [i |-> Min(match), a |-> a]
     ELSE IF ~hard THEN [i |-> 0, a |-> a]
     ELSE [i |-> new,
           a |-> [a EXCEPT !.table[new] = [Empty EXCEPT !.ip = ip],
                           !.freed = @ + Kept(a.table[new].q)]]

\* The queued packet is sent to the new hardware address and freed.
etharp_update_arp_entry(a, ip, mac, hard) ==
  LET f == etharp_find_entry(a, ip, hard)
      e == f.a.table[f.i]
  IN IF f.i = 0 THEN f.a
     ELSE [f.a EXCEPT !.table[f.i] = [e EXCEPT !.state = "STABLE", !.mac = mac,
                                               !.ctime = 0, !.q = << >>],
                      !.freed = @ + Kept(e.q),
                      !.sent = IF e.q = << >> THEN @ ELSE @ \cup {[ip |-> ip, mac |-> mac]}]

\* An ARP request or reply of the host ip, with its address mac
etharp_input(a, ip, mac, for_us) == etharp_update_arp_entry(a, ip, mac, for_us)
-----------------------------------------------------------------------------
\* Sends a packet to the stable entry i; asks again when it is about to expire.
etharp_output_to_arp_index(a, ip, i, ok) ==
  LET e == a.table[i]
      asks == e.state = "STABLE" /\ e.ctime >= ARP_AGE_REREQUEST_USED_UNICAST /\ ok
  IN [a EXCEPT !.table[i].state = IF asks THEN "REREQUESTING_1" ELSE @,
               !.sent = @ \cup {[ip |-> ip, mac |-> e.mac]}]

\* Mutant: the packet that waited is forgotten, not freed
QueuedLeaks(a, i, p, ok) ==
  IF p.volatile /\ ~ok THEN a
  ELSE [a EXCEPT !.table[i].q = <<IF p.volatile THEN 0 ELSE p.n>>,
                 !.freed = @ - (IF p.volatile THEN 0 ELSE p.n)]
\* Mutant: a new packet starts the time of the pending entry anew
QueuedRestarts(a, i, p, ok) ==
  IF p.volatile /\ ~ok THEN a
  ELSE [a EXCEPT !.table[i].q = <<IF p.volatile THEN 0 ELSE p.n>>,
                 !.table[i].ctime = 0,
                 !.freed = @ + Kept(a.table[i].q) - (IF p.volatile THEN 0 ELSE p.n)]
\* The packet p waits at the pending entry i in place of the one before: by
\* reference, or as a copy in the heap if its memory is volatile (PBUF_REF).
Queued(a, i, p, ok) ==
  IF p.volatile /\ ~ok THEN a
  ELSE [a EXCEPT !.table[i].q = <<IF p.volatile THEN 0 ELSE p.n>>,
                 !.freed = @ + Kept(a.table[i].q) - (IF p.volatile THEN 0 ELSE p.n)]

\* The entry for ip, which is pending if it is new
Queried(a, ip) ==
  LET f == etharp_find_entry(a, ip, TRUE)
  IN [f EXCEPT !.a.table[f.i].state = IF @ = "EMPTY" THEN "PENDING" ELSE @]

\* etharp_query() of a packet, and without one as dhcp_check() calls it
etharp_query(a, ip, p, ok) ==
  LET f == Queried(a, ip)
      e == f.a.table[f.i]
  IN IF e.state \in StableState
     THEN [f.a EXCEPT !.cached = f.i, !.sent = @ \cup {[ip |-> ip, mac |-> e.mac]}]
     ELSE Queued(f.a, f.i, p, ok)
etharp_query_null(a, ip) == Queried(a, ip).a

\* Mutant: trusts the remembered entry without comparing the address
etharp_output_CacheUnchecked(a, ip, p, ok) ==
  LET usable == {i \in Index : a.table[i].state \in StableState /\ a.table[i].ip = ip}
  IN IF a.table[a.cached].state \in StableState THEN etharp_output_to_arp_index(a, ip, a.cached, ok)
     ELSE IF usable # {}
     THEN etharp_output_to_arp_index([a EXCEPT !.cached = Min(usable)], ip, Min(usable), ok)
     ELSE etharp_query(a, ip, p, ok)
\* A packet p to the host ip.  p.n is the number of its pool buffers, which
\* the caller frees afterwards: a queued reference keeps them, so that they
\* count as freed too early by n and Queued() takes them back.
etharp_output(a, ip, p, ok) ==
  LET usable == {i \in Index : a.table[i].state \in StableState /\ a.table[i].ip = ip}
      i == IF a.cached \in usable THEN a.cached ELSE Min(usable)
  IN IF usable = {} THEN etharp_query(a, ip, p, ok)
     ELSE etharp_output_to_arp_index([a EXCEPT !.cached = i], ip, i, ok)
=============================================================================
