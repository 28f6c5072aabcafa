----------------------------- MODULE TcpServer ------------------------------
(***************************************************************************)
(* The TCP echo server (src/USER/tcp_server.c): its callbacks on one       *)
(* connection after another, with the buffer pool they share.  The stack's *)
(* TCP is external and represented by when it calls which callback, what   *)
(* it does with the result, and its accounting of send buffer and receive  *)
(* window.  A callback is one action together with the part of tcp_input() *)
(* or of the timer that calls it.                                          *)
(*                                                                         *)
(* Data is counted in units of one pool buffer; the units a peer sends on  *)
(* a connection are numbered 1, 2, ...                                     *)
(*                                                                         *)
(* Branches the stack never takes are left out: data with an error, data   *)
(* after the end of the peer's data, and a poll without es (the server     *)
(* always removes both together).  A callback that uses a pcb after its    *)
(* deallocation sets stale, and the model does not follow the program any  *)
(* further.                                                                *)
(***************************************************************************)
EXTENDS Integers, Sequences, FiniteSets

CONSTANTS
  PoolSize,   \* buffers of PBUF_POOL
  SndBuf,     \* TCP_SND_BUF
  Wnd,        \* TCP_WND
  MaxUnits,   \* bound: units a peer sends on a connection
  SegLens,    \* units in a segment
  HeapOk      \* outcomes of mem_malloc() and of the allocations of tcp_write()

ASSUME ServerAssumption ==
  /\ PoolSize \in Nat \ {0} /\ SndBuf \in Nat \ {0} /\ Wnd \in Nat \ {0} /\ MaxUnits \in Nat
  /\ SegLens \subseteq 1..Wnd
  /\ HeapOk \subseteq BOOLEAN /\ TRUE \in HeapOk

VARIABLES
  listening,    \* what has become of tcp_server_init()
  pcb,          \* the connection as the stack sees it
  registered,   \* the callbacks of the pcb are set, with es as argument
  es,           \* state of struct tcp_server: "none" when it is not allocated
  p,            \* es->p: units to be echoed
  refused_data, \* units the stack keeps because tcp_server_recv() refused them
  fin,          \* they are followed by the end of the peer's data
  snd_buf, rcv_wnd,
  free,         \* free buffers of the pool
  next,         \* history: number of the next unit the peer sends
  echoed,       \* history: units given to tcp_write()
  stale         \* history: a callback used the pcb after it was deallocated

vars == <<listening, pcb, registered, es, p, refused_data, fin, snd_buf, rcv_wnd, free,
          next, echoed, stale>>
-----------------------------------------------------------------------------
Lesser(m, n) == IF m < n THEN m ELSE n
Units(m, n) == [i \in 1..(n - m + 1) |-> m + i - 1]

\* tcp_recved(): the window grows by n units up to its maximum
tcp_recved(wnd, n) == Lesser(Wnd, wnd + n)

\* A connection is over: the stack keeps nothing of it.
Gone ==
  /\ pcb' = "none" /\ registered' = FALSE /\ es' = "none" /\ p' = << >>
  /\ refused_data' = << >> /\ fin' = FALSE
  /\ snd_buf' = SndBuf /\ rcv_wnd' = Wnd /\ next' = 1 /\ echoed' = << >>

\* How many units of q the loop of tcp_server_send() writes: all that the send
\* buffer has room for, or fewer when tcp_write() has no memory
Written(q, room) ==
  LET fit == Lesser(Len(q), room)
  IN IF FALSE \in HeapOk THEN 0..fit ELSE {fit}

\* Mutant: es->p stays at the unit that was written
tcp_server_send_Repeats(q, n, pool, wnd) ==
  [p |-> IF n > 0 THEN SubSeq(q, n, Len(q)) ELSE q,
   free |-> pool + (IF n > 0 THEN n - 1 ELSE 0), wnd |-> tcp_recved(wnd, n)]
\* tcp_server_send() of the chain q when n of its units are written: each is
\* freed, and the window grows by it (for the second time, tcp_server_recv()
\* makes it grow as well).  The result is what remains of the chain, and the
\* pool and the window after it.
tcp_server_send(q, n, pool, wnd) ==
  [p |-> SubSeq(q, n + 1, Len(q)), free |-> pool + n, wnd |-> tcp_recved(wnd, n)]

\* tcp_close() resets the connection and deallocates its pcb when the
\* application has not yet taken some of the data.
Unread(wnd, refused) == refused # << >> \/ wnd # Wnd

\* Mutant: the callbacks of the pcb stay registered
tcp_server_connection_close_Registered(wnd, refused) ==
  IF Unread(wnd, refused)
  THEN Gone
  ELSE /\ pcb' = "CLOSING" /\ es' = "none" /\ p' = << >>
       /\ refused_data' = << >> /\ fin' = FALSE /\ rcv_wnd' = wnd
       /\ UNCHANGED <<registered, snd_buf, next, echoed>>
\* tcp_server_connection_close(): the callbacks are removed and es is freed
\* after tcp_close(), which sends a FIN when no data is unread.
tcp_server_connection_close(wnd, refused) ==
  IF Unread(wnd, refused)
  THEN Gone
  ELSE /\ pcb' = "CLOSING" /\ registered' = FALSE /\ es' = "none" /\ p' = << >>
       /\ refused_data' = << >> /\ fin' = FALSE /\ rcv_wnd' = wnd
       /\ UNCHANGED <<snd_buf, next, echoed>>
-----------------------------------------------------------------------------
Init ==
  /\ listening = "new"
  /\ pcb = "none" /\ registered = FALSE /\ es = "none" /\ p = << >>
  /\ refused_data = << >> /\ fin = FALSE /\ snd_buf = SndBuf /\ rcv_wnd = Wnd
  /\ free = PoolSize /\ next = 1 /\ echoed = << >> /\ stale = FALSE

\* tcp_server_init(): without a pcb or the port there is no server.
tcp_server_init ==
  /\ listening = "new"
  /\ listening' \in {"failed", "LISTEN"}
  /\ UNCHANGED <<pcb, registered, es, p, refused_data, fin, snd_buf, rcv_wnd, free, next,
                 echoed, stale>>

\* tcp_server_accept(): without memory for es the stack aborts the connection.
tcp_server_accept ==
  /\ listening = "LISTEN" /\ pcb = "none" /\ free >= 1
  /\ \E ok \in HeapOk :
       IF ok THEN pcb' = "ESTABLISHED" /\ registered' = TRUE /\ es' = "ACCEPTED"
       ELSE UNCHANGED <<pcb, registered, es>>
  /\ UNCHANGED <<listening, p, refused_data, fin, snd_buf, rcv_wnd, free, next, echoed, stale>>

\* Mutant: counts on tcp_server_send() for the window
Credited_BySend(wnd, n) == wnd
\* tcp_server_recv() calls tcp_recved() for all the n units it was given.
Credited(wnd, n) == tcp_recved(wnd, n)

\* tcp_server_recv(data) in state ACCEPTED, and tcp_server_recv(NULL) after it
\* when the peer's data ends there.  wnd and pool are what the data leaves of the
\* window and of the pool.
\*   - without memory for a copy it returns ERR_MEM and the stack keeps the data;
\*   - es->p becomes a new chain, whatever it was, and is sent;
\*   - without buffers for the chain the connection is closed.
\* The data is then freed.  The end of the data gives up what is still in es->p.
tcp_server_recv(data, end, wnd, pool) ==
  \/ /\ FALSE \in HeapOk
     /\ refused_data' = data /\ fin' = end /\ free' = pool /\ rcv_wnd' = wnd
     /\ pcb' = IF end THEN "CLOSE_WAIT" ELSE pcb
     /\ UNCHANGED <<registered, es, p, snd_buf, echoed>>
  \/ /\ pool >= Len(data)
     /\ \E n \in Written(data, snd_buf) :
          \E s \in {tcp_server_send(data, n, pool - Len(data), wnd)} :
            /\ echoed' = echoed \o SubSeq(data, 1, n)
            /\ snd_buf' = snd_buf - n
            /\ free' = s.free + Len(data)
            /\ rcv_wnd' = Credited(s.wnd, Len(data))
            /\ p' = IF end THEN << >> ELSE s.p
     /\ refused_data' = << >> /\ fin' = FALSE
     /\ es' = IF end THEN "CLOSING" ELSE es
     /\ pcb' = IF end THEN "CLOSE_WAIT" ELSE pcb
     /\ UNCHANGED registered
  \/ /\ pool < Len(data)
     /\ free' = pool + Len(data)
     /\ tcp_server_connection_close(wnd, << >>)

\* The number of the first unit of the next connection, or of the next segment
\* on this one
NextUnit(n) == IF pcb' = "none" THEN 1 ELSE next + n

\* A segment of n units within the window, the last one when end holds.  A pcb
\* that its callback closes is deallocated when tcp_input() is done with it.
Receive(n, end) ==
  /\ pcb = "ESTABLISHED" /\ refused_data = << >>
  /\ n <= rcv_wnd /\ n <= free /\ next + n - 1 <= MaxUnits
  /\ tcp_server_recv(Units(next, next + n - 1), end, rcv_wnd - n, free - n)
  /\ next' = NextUnit(n)
  /\ UNCHANGED <<listening, stale>>

\* tcp_process_refused_data(), from the fast timer or before the next segment:
\* the pcb is no longer protected, and tcp_server_recv() goes on to use it.
Redeliver ==
  /\ refused_data # << >> /\ registered
  /\ tcp_server_recv(refused_data, fin, rcv_wnd, free)
  /\ next' = NextUnit(0)
  /\ stale' = (pcb' = "none")
  /\ UNCHANGED listening

\* The end of the peer's data in a segment of its own: tcp_server_recv(NULL)
Fin ==
  /\ pcb = "ESTABLISHED" /\ refused_data = << >> /\ free >= 1
  /\ pcb' = "CLOSE_WAIT" /\ es' = "CLOSING" /\ p' = << >>
  /\ UNCHANGED <<listening, registered, refused_data, fin, snd_buf, rcv_wnd, free, next,
                 echoed, stale>>

\* es->p is sent from tcp_server_sent() or tcp_server_poll(), into a send buffer
\* with the given room.
SendWaiting(room) ==
  \E n \in Written(p, room) :
    \E s \in {tcp_server_send(p, n, free, rcv_wnd)} :
      /\ p' = s.p /\ free' = s.free /\ rcv_wnd' = s.wnd
      /\ echoed' = echoed \o SubSeq(p, 1, n)
      /\ snd_buf' = room - n

\* tcp_server_sent(), after k units were acknowledged
tcp_server_sent(k) ==
  /\ registered /\ free >= 1 /\ k <= SndBuf - snd_buf
  /\ SendWaiting(snd_buf + k)
  /\ UNCHANGED <<listening, pcb, registered, es, refused_data, fin, next, stale>>

\* tcp_server_poll(), from the slow timer
tcp_server_poll ==
  /\ registered
  /\ \/ /\ p # << >>
        /\ SendWaiting(snd_buf)
        /\ UNCHANGED <<pcb, registered, es, refused_data, fin, next, stale>>
     \/ /\ p = << >> /\ es = "CLOSING"
        /\ tcp_server_connection_close(rcv_wnd, refused_data)
        /\ free' = free + Len(refused_data)
        /\ stale' = (pcb' = "none")
  /\ UNCHANGED listening

\* tcp_server_error(): the peer or the stack resets the connection, which frees
\* the refused data.  es is freed, es->p is not.
tcp_server_error ==
  /\ registered
  /\ Gone
  /\ free' = free + Len(refused_data)
  /\ UNCHANGED <<listening, stale>>

\* External: the stack ends a connection that the server has closed.
EndConnection ==
  /\ pcb = "CLOSING"
  /\ Gone
  /\ UNCHANGED <<listening, free, stale>>

Next ==
  /\ ~stale
  /\ \/ tcp_server_init \/ tcp_server_accept
     \/ \E n \in SegLens, end \in BOOLEAN : Receive(n, end)
     \/ Redeliver \/ Fin
     \/ \E k \in 1..SndBuf : tcp_server_sent(k)
     \/ tcp_server_poll \/ tcp_server_error \/ EndConnection

Spec == Init /\ [][Next]_vars
-----------------------------------------------------------------------------
TypeOK ==
  /\ listening \in {"new", "failed", "LISTEN"}
  /\ registered \in BOOLEAN /\ fin \in BOOLEAN /\ stale \in BOOLEAN
  /\ pcb \in {"none", "ESTABLISHED", "CLOSE_WAIT", "CLOSING"}
  /\ es \in {"none", "ACCEPTED", "CLOSING"}
  /\ p \in Seq(1..MaxUnits) /\ refused_data \in Seq(1..MaxUnits) /\ echoed \in Seq(1..MaxUnits)
  /\ snd_buf \in 0..SndBuf /\ rcv_wnd \in 0..Wnd /\ free \in 0..PoolSize
  /\ next \in 1..(MaxUnits + 1)

\* The callbacks dereference their argument without a test: they are registered
\* exactly while es is allocated, on a connection that is not closed.
CallbackHasEs ==
  /\ registered <=> es # "none"
  /\ registered => pcb \in {"ESTABLISHED", "CLOSE_WAIT"}

\* What the peer gets back is what it sent, in order and without repetition:
\* the units echoed and those waiting to be, although segments may be missing.
EchoInOrder ==
  LET q == echoed \o p \o refused_data
  IN \A i \in 1..Len(q) : q[i] < next /\ \A j \in 1..(i - 1) : q[j] < q[i]

\* No buffer is freed twice: what the pool, es and the stack hold is never more
\* than the pool has.
NoDoubleFree == free + Len(p) + Len(refused_data) <= PoolSize

\* The window the peer may use is never smaller than what the server has taken
\* allows: a peer is not stopped for ever by data that was dropped.
NoCreditMissing == pcb # "none" => rcv_wnd >= Wnd - Len(refused_data)

\* What the server accounts for, buffers (pbuf_free()) and window (tcp_recved()),
\* is right.
Accounting == NoDoubleFree /\ NoCreditMissing

\* A connection whose peer has sent all its data is closed by the server.
HalfClosedEnds == es = "CLOSING" ~> es = "none"
=============================================================================
