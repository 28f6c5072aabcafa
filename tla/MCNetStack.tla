----------------------------- MODULE MCNetStack -----------------------------
(* Instances of NetStack for TLC.  A unit of data is a full fragment; Mtu    *)
(* is one of them, so that every reassembled answer is cut up again.         *)
EXTENDS NetStack

Frag(id, start, end, last, n) ==
  [id |-> id, start |-> start, end |-> end, last |-> last, n |-> n]

\* Datagrams of one and of two buffers, and an empty one
Small == {[src |-> h, len |-> 1, n |-> 1] : h \in Hosts}
Mixed == Small \cup {[src |-> h, len |-> 1, n |-> 2] : h \in Hosts}
WithEmpty == Small \cup {[src |-> h, len |-> 0, n |-> 1] : h \in Hosts}

\* Three datagrams that compete: "a" in three fragments is over the limit and has
\* a fragment that overlaps its others, one fragment of "c" is too long
Competing ==
  {Frag("a", 0, 1, FALSE, 1), Frag("a", 1, 2, FALSE, 2), Frag("a", 2, 3, TRUE, 3),
   Frag("a", 0, 2, FALSE, 1),
   Frag("b", 0, 1, FALSE, 2), Frag("b", 1, 2, TRUE, 1),
   Frag("c", 0, 1, FALSE, 1), Frag("c", 2, 4, TRUE, 1), Frag("c", 1, 3, TRUE, 3)}

MCSrc == [id \in Ids |-> CHOOSE h \in Hosts : TRUE]
=============================================================================
