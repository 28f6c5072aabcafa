------------------------------ MODULE RxQueue ------------------------------
(***************************************************************************)
(* What the receive path promises to the IP stack: a bounded queue of      *)
(* frames that may lose frames but never reorders, repeats or mixes them.  *)
(* A frame that arrives is stored or lost; the driver takes the oldest     *)
(* stored frame and either drops it (no pbuf for it) or hands it up.       *)
(***************************************************************************)
EXTENDS Integers, Sequences

CONSTANTS Capacity,    \* most frames that can be waiting
          MaxChunks    \* longest frame, in receive buffers

VARIABLES seen,      \* frames that have arrived so far
          arriving,  \* the last of them is still arriving
          queue,     \* stored frames, each the sequence of its chunks
          hand,      \* frame the driver has taken (<<>>: none)
          given      \* frames handed to netif->input()

vars == <<seen, arriving, queue, hand, given>>

Init == /\ seen = 0 /\ arriving = FALSE
        /\ queue = <<>> /\ hand = <<>> /\ given = <<>>

Arrive == /\ ~arriving
          /\ seen' = seen + 1 /\ arriving' = TRUE
          /\ UNCHANGED <<queue, hand, given>>

Lose == /\ ~arriving
        /\ seen' = seen + 1
        /\ UNCHANGED <<arriving, queue, hand, given>>

\* A frame may be stored without its end.
Store == /\ arriving /\ arriving' = FALSE
         /\ Len(queue) < Capacity
         /\ \E n \in 0 .. MaxChunks :
              queue' = Append(queue, [j \in 1 .. n |-> [frame |-> seen, seg |-> j]])
         /\ UNCHANGED <<seen, hand, given>>

Take == /\ queue # <<>> /\ hand = <<>>
        /\ hand' = Head(queue) /\ queue' = Tail(queue)
        /\ UNCHANGED <<seen, arriving, given>>

Drop == /\ hand' = <<>>
        /\ UNCHANGED <<seen, arriving, queue, given>>

Deliver == /\ hand # <<>> /\ hand' = <<>>
           /\ given' = Append(given, hand)
           /\ UNCHANGED <<seen, arriving, queue>>

Next == Arrive \/ Lose \/ Store \/ Take \/ Drop \/ Deliver

Spec == Init /\ [][Next]_vars
=============================================================================
