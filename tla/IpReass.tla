------------------------------ MODULE IpReass -------------------------------
(***************************************************************************)
(* Reassembly of IP fragments (lwip-2.1.2/src/core/ipv4/ip4_frag.c) as     *)
(* functions on the list of datagrams.  The module NetStack calls them for *)
(* fragments and for the timer.                                            *)
(*                                                                         *)
(* A Reass record is the list reassdatagrams and ip_reass_pbufcount, with  *)
(* the results of the calls made so far: the pool buffers they freed, the  *)
(* datagrams whose sender is told that time was exceeded, and the          *)
(* fragments of the datagram that became complete.                         *)
(*                                                                         *)
(* A fragment has the id of its datagram (source, destination and          *)
(* identification), the range start .. end of data it carries, whether it  *)
(* is the last one, and the number n of its pool buffers.  The fragments   *)
(* of a datagram never overlap, so the chain sorted by start is a set.     *)
(***************************************************************************)
EXTENDS Integers, Sequences, FiniteSets, FiniteSetsExt, SequencesExt

CONSTANTS
  Fragments,            \* fragments the network may deliver, in any order
  IP_REASS_MAX_PBUFS, IP_REASS_MAXAGE, MEMP_NUM_REASSDATA,
  MaxOffset,            \* 0xFFFF, where offsets overflow
  IP_HLEN

Ids == {f.id : f \in Fragments}

ASSUME FragmentAssumption ==
  /\ Fragments \subseteq [id : Ids, start : Nat, end : Nat, last : BOOLEAN, n : Nat \ {0}]
  /\ \A f \in Fragments : f.start < f.end
  /\ IP_REASS_MAX_PBUFS \in Nat /\ IP_REASS_MAXAGE \in Nat
  /\ MEMP_NUM_REASSDATA \in Nat /\ MaxOffset \in Nat /\ IP_HLEN \in Nat

Datagram == [id : Ids, timer : 0..IP_REASS_MAXAGE, frags : SUBSET Fragments, last : BOOLEAN]

PbufsOf(frags) == SumFunctionOnSet([f \in frags |-> f.n], frags)
PbufsIn(list) ==
  SumFunctionOnSet([i \in DOMAIN list |-> PbufsOf(list[i].frags)], DOMAIN list)
HasFirst(frags) == \E f \in frags : f.start = 0

\* The elements of the sequence s that are in S
Those(s, S) ==
  LET t[i \in 0..Len(s)] == IF i = 0 THEN << >>
                            ELSE IF s[i] \in S THEN Append(t[i - 1], s[i]) ELSE t[i - 1]
  IN t[Len(s)]
-----------------------------------------------------------------------------
\* Mutant: the pbuf returned to the sender in the ICMP message is not counted
FreeDatagramsUncounted(r, gone) ==
  LET freed == PbufsOf(UNION {d.frags : d \in ToSet(gone)})
      first == PbufsOf({f \in UNION {d.frags : d \in ToSet(gone)} : f.start = 0})
  IN [r EXCEPT !.list = Those(@, ToSet(@) \ ToSet(gone)),
               !.count = @ - (freed - first),
               !.freed = @ + freed,
               !.exceeded = @ \o Those(gone, {d \in ToSet(gone) : HasFirst(d.frags)})]
\* ip_reass_free_complete_datagram() of the datagrams in the sequence gone
FreeDatagrams(r, gone) ==
  LET freed == PbufsOf(UNION {d.frags : d \in ToSet(gone)})
  IN [r EXCEPT !.list = Those(@, ToSet(@) \ ToSet(gone)),
               !.count = @ - freed,
               !.freed = @ + freed,
               !.exceeded = @ \o Those(gone, {d \in ToSet(gone) : HasFirst(d.frags)})]

\* Mutant: a datagram that has timed out stays in the list
ip_reass_tmr_Forgets(r) ==
  [r EXCEPT !.list = [i \in DOMAIN @ |-> [@[i] EXCEPT !.timer = IF @ > 0 THEN @ - 1 ELSE 0]]]
ip_reass_tmr(r) ==
  LET f == FreeDatagrams(r, Those(r.list, {d \in ToSet(r.list) : d.timer = 0}))
  IN [f EXCEPT !.list = [i \in DOMAIN f.list |-> [f.list[i] EXCEPT !.timer = @ - 1]]]

\* Mutant: may remove the datagram the fragment belongs to
Others_All(list, id) == DOMAIN list
\* The datagrams other than id
Others(list, id) == {i \in DOMAIN list : list[i].id # id}

\* ip_reass_remove_oldest_datagram(): one after the other the oldest of the
\* other datagrams goes, until enough pbufs were freed or none is left; of
\* two with the same timer the one later in the list goes first.
RemoveOldest(r, id, needed) ==
  LET OlderThan(i, j) == \/ r.list[i].timer < r.list[j].timer
                         \/ r.list[i].timer = r.list[j].timer /\ i > j
      others == Others(r.list, id)
      FreedBefore(i) == SumFunctionOnSet([j \in others |-> PbufsOf(r.list[j].frags)],
                                         {j \in others : OlderThan(j, i)})
      removed == {i \in others : FreedBefore(i) < needed}
      order == CHOOSE s \in [1..Cardinality(removed) -> removed] :
                 \A k, l \in DOMAIN s : k < l => OlderThan(s[k], s[l])
  IN FreeDatagrams(r, [k \in DOMAIN order |-> r.list[order[k]]])
-----------------------------------------------------------------------------
\* The new fragment is thrown away: it repeats or overlaps one that is there ...
Overlaps(frags, f) ==
  \E g \in frags : f.start = g.start \/ (f.start < g.end /\ g.start < f.end)

\* ... or it reaches past the greatest length of a datagram.
TooLong(f) == f.end > IF f.last THEN MaxOffset - IP_HLEN ELSE MaxOffset

\* Mutant: takes holes between the fragments for granted once the last is there
ContiguousUnchecked(frags) == HasFirst(frags)
\* From the first byte on, every fragment begins where another one ends.
Contiguous(frags) ==
  /\ HasFirst(frags)
  /\ \A f \in frags : f.start = 0 \/ \E g \in frags : g.end = f.start

\* The fragment joins the datagram at position i, which leaves the list when
\* it is whole.
Chained(r, i, f) ==
  LET d == r.list[i]
      whole == (f.last \/ d.last) /\ Contiguous(d.frags \cup {f})
  IN IF whole
     THEN [r EXCEPT !.list = RemoveAt(@, i), !.count = @ - PbufsOf(d.frags),
                    !.up = d.frags \cup {f}]
     ELSE [r EXCEPT !.list[i].frags = @ \cup {f}, !.list[i].last = @ \/ f.last,
                    !.count = @ + f.n]

\* ip_reass_enqueue_new_datagram(): in front of the list, if an element of the
\* pool is there or datagrams with enough pbufs could be removed for it
NewDatagram(f) == [id |-> f.id, timer |-> IP_REASS_MAXAGE, frags |-> {}, last |-> FALSE]
Enqueue(r, f) ==
  LET full == Len(r.list) = MEMP_NUM_REASSDATA
      made == IF full THEN RemoveOldest(r, f.id, f.n) ELSE r
      enough == full => made.freed - r.freed >= f.n
  IN IF enough /\ Len(made.list) < MEMP_NUM_REASSDATA
     THEN [made EXCEPT !.list = <<NewDatagram(f)>> \o @]
     ELSE made

\* The limit on the number of pbufs: other datagrams are removed for a fragment
Room(r, f) ==
  LET tight == r.count + f.n > IP_REASS_MAX_PBUFS
      made == IF tight THEN RemoveOldest(r, f.id, f.n) ELSE r
  IN [r |-> made,
      ok |-> tight => made.freed > r.freed /\ made.count + f.n <= IP_REASS_MAX_PBUFS]

Dropped(r, f) == [r EXCEPT !.freed = @ + f.n]
Where(r, id) == {i \in DOMAIN r.list : r.list[i].id = id}

\* ip4_reass() of a fragment; r.up is its datagram when that is complete now
ip4_reass(r, f) ==
  LET room == Room(r, f)
      new == Where(room.r, f.id) = {}
      made == IF new THEN Enqueue(room.r, f) ELSE room.r
      at == Where(made, f.id)
      i == CHOOSE j \in at : TRUE
  IN IF ~room.ok \/ at = {} THEN Dropped(IF room.ok THEN made ELSE room.r, f)
     ELSE IF TooLong(f) \/ Overlaps(made.list[i].frags, f)
     THEN Dropped(IF new THEN [made EXCEPT !.list = Tail(@)] ELSE made, f)
     ELSE Chained(made, i, f)
=============================================================================
