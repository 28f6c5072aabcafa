----------------------------- MODULE TcpClient ------------------------------
(***************************************************************************)
(* The TCP client (src/USER/tcpclient.c): it connects once, sends one      *)
(* message and then reads until the server closes.  The stack's TCP is     *)
(* external, as in TcpServer.  The client takes all data at once, so that  *)
(* its receive window is full between two callbacks and tcp_close() always *)
(* sends a FIN.                                                            *)
(*                                                                         *)
(* tcpclient_connected() and tcpclient_poll() return a variable that they  *)
(* have not assigned on every path: there the result is any value.         *)
(***************************************************************************)
EXTENDS Integers

CONSTANTS
  PoolSize,     \* buffers of PBUF_POOL
  SndBuf,       \* TCP_SND_BUF, in messages of the client
  MaxMessages,  \* bound on message_count
  HeapOk        \* outcomes of mem_malloc() and of the allocations of tcp_write()

VARIABLES
  pcb,           \* the connection as the stack sees it
  registered,    \* the callbacks of the pcb are set, with es as argument
  es,            \* state of struct tcpclient, "none" when it is not allocated
  p_tx,          \* buffers of es->p_tx
  snd_buf,       \* room in the send buffer
  others,        \* buffers of the pool that the rest of the program holds
  message_count,
  written,       \* history: messages given to tcp_write()
  ret            \* history: what the last callback returned

vars == <<pcb, registered, es, p_tx, snd_buf, others, message_count, written, ret>>

Errors == {"ERR_OK", "ERR_MEM", "ERR_ABRT"}
Free == PoolSize - p_tx - others
-----------------------------------------------------------------------------
Init ==
  /\ pcb = "new" /\ registered = FALSE /\ es = "none" /\ p_tx = 0 /\ snd_buf = SndBuf
  /\ others = 0 /\ message_count = 0 /\ written = 0 /\ ret = "ERR_OK"

\* tcpclient_init(), called once: when tcp_new() fails there is no connection.
tcpclient_init ==
  /\ pcb = "new"
  /\ pcb' \in {"SYN_SENT", "none"}
  /\ UNCHANGED <<registered, es, p_tx, snd_buf, others, message_count, written, ret>>

\* Mutant: es->p_tx keeps the message that was written
tcpclient_send_Keeps(q, room) ==
  \/ /\ q > 0 /\ q < room
     /\ p_tx' = q /\ written' = written + q /\ snd_buf' = room - q
  \/ /\ q = 0 \/ q >= room \/ FALSE \in HeapOk
     /\ p_tx' = q /\ snd_buf' = room
     /\ UNCHANGED written
\* tcpclient_send(): the message is written and freed, or kept when the send
\* buffer is full or tcp_write() has no memory.  It must be smaller than the
\* room in the send buffer.
tcpclient_send(q, room) ==
  \/ /\ q > 0 /\ q < room
     /\ p_tx' = 0 /\ written' = written + q /\ snd_buf' = room - q
  \/ /\ q = 0 \/ q >= room \/ FALSE \in HeapOk
     /\ p_tx' = q /\ snd_buf' = room
     /\ UNCHANGED written

\* tcpclient_connected_close(): the callbacks are removed and es is freed.  The
\* argument of the pcb goes on pointing to it.
tcpclient_connected_close == pcb' = "CLOSING" /\ registered' = FALSE /\ es' = "none"

\* tcpclient_connected(): the connection is closed when there is no memory for
\* es or no buffer for the message.  Otherwise ret is returned unassigned.
tcpclient_connected ==
  /\ pcb = "SYN_SENT" /\ Free >= 1
  /\ \/ /\ Free >= 2
        /\ pcb' = "ESTABLISHED" /\ registered' = TRUE /\ es' = "CONNECTED"
        /\ tcpclient_send(1, snd_buf)
        /\ ret' \in Errors
     \/ /\ Free < 2 \/ FALSE \in HeapOk
        /\ tcpclient_connected_close
        /\ ret' = "ERR_MEM"
        /\ UNCHANGED <<p_tx, snd_buf, written>>
  /\ UNCHANGED <<others, message_count>>

\* tcpclient_recv(NULL), at the end of the server's data
EndOfData ==
  /\ pcb = "ESTABLISHED" /\ registered /\ Free >= 1
  /\ \/ /\ p_tx = 0
        /\ tcpclient_connected_close
        /\ UNCHANGED <<p_tx, snd_buf, written>>
     \/ /\ p_tx # 0
        /\ pcb' = "CLOSE_WAIT" /\ es' = "CLOSE"
        /\ tcpclient_send(p_tx, snd_buf)
        /\ UNCHANGED registered
  /\ ret' = "ERR_OK"
  /\ UNCHANGED <<others, message_count>>

\* tcpclient_recv() of data, which is taken and freed at once
tcpclient_recv ==
  /\ registered /\ es = "CONNECTED" /\ Free >= 1
  /\ message_count < MaxMessages
  /\ message_count' = message_count + 1
  /\ ret' = "ERR_OK"
  /\ UNCHANGED <<pcb, registered, es, p_tx, snd_buf, others, written>>

\* tcpclient_sent(), after k messages were acknowledged
tcpclient_sent(k) ==
  /\ registered /\ Free >= 1 /\ k <= SndBuf - snd_buf
  /\ tcpclient_send(p_tx, snd_buf + k)
  /\ ret' = "ERR_OK"
  /\ UNCHANGED <<pcb, registered, es, others, message_count>>

\* Mutant: only sends, and never closes
tcpclient_poll_NoClose ==
  /\ registered
  /\ tcpclient_send(p_tx, snd_buf)
  /\ ret' = "ERR_OK"
  /\ UNCHANGED <<pcb, registered, es, others, message_count>>
\* tcpclient_poll(), from the slow timer; ret is not assigned after a send.
tcpclient_poll ==
  /\ registered
  /\ \/ /\ p_tx # 0
        /\ tcpclient_send(p_tx, snd_buf)
        /\ ret' \in Errors
        /\ UNCHANGED <<pcb, registered, es>>
     \/ /\ p_tx = 0
        /\ IF es = "CLOSE" THEN tcpclient_connected_close ELSE UNCHANGED <<pcb, registered, es>>
        /\ ret' = "ERR_OK"
        /\ UNCHANGED <<p_tx, snd_buf, written>>
  /\ UNCHANGED <<others, message_count>>

\* External: the connection is refused, reset, given up or, once the client has
\* closed it, over.  The client registers no error callback.
EndConnection ==
  /\ pcb \notin {"new", "none"}
  /\ pcb' = "none" /\ registered' = FALSE
  /\ UNCHANGED <<es, p_tx, snd_buf, others, message_count, written, ret>>

\* External: the rest of the program takes buffers and returns them.
UseBuffer ==
  /\ Free >= 1 /\ others' = others + 1
  /\ UNCHANGED <<pcb, registered, es, p_tx, snd_buf, message_count, written, ret>>
ReturnBuffer ==
  /\ others > 0 /\ others' = others - 1
  /\ UNCHANGED <<pcb, registered, es, p_tx, snd_buf, message_count, written, ret>>

Next ==
  \/ tcpclient_init \/ tcpclient_connected \/ EndOfData \/ tcpclient_recv
  \/ \E k \in 1..SndBuf : tcpclient_sent(k)
  \/ tcpclient_poll \/ EndConnection \/ UseBuffer \/ ReturnBuffer

Spec == Init /\ [][Next]_vars
-----------------------------------------------------------------------------
TypeOK ==
  /\ pcb \in {"new", "none", "SYN_SENT", "ESTABLISHED", "CLOSE_WAIT", "CLOSING"}
  /\ registered \in BOOLEAN /\ es \in {"none", "CONNECTED", "CLOSE"}
  /\ p_tx \in 0..1 /\ snd_buf \in 0..SndBuf /\ others \in 0..PoolSize
  /\ message_count \in 0..MaxMessages /\ written \in Nat /\ ret \in Errors

\* The callbacks dereference their argument without a test, and closing leaves
\* it pointing to the es that was freed: no callback stays registered without an
\* es, or on a connection that is closed.
CallbackHasEs ==
  registered => es # "none" /\ pcb \in {"ESTABLISHED", "CLOSE_WAIT"}

\* The message is sent at most once, however the callbacks that retry it are
\* interleaved, and a client that closes has sent it.
MessageOnce ==
  /\ written + p_tx <= 1
  /\ es = "CLOSE" /\ p_tx = 0 => written = 1

\* A client whose server closed while the message was still waiting closes once
\* the message has been written, from whichever callback that was.
ClientCloses == es = "CLOSE" /\ p_tx = 0 ~> es = "none" \/ pcb = "none"
=============================================================================
