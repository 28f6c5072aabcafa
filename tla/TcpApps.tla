------------------------------ MODULE TcpApps -------------------------------
(***************************************************************************)
(* main() has the calls of tcp_server_init() and tcpclient_init() next to  *)
(* each other, both commented out: a build enables the one it wants.  This *)
(* module is such a build, with the server of TcpServer or the client of   *)
(* TcpClient on the same stack.  The application that is not started keeps *)
(* its initial state.                                                      *)
(***************************************************************************)
EXTENDS TcpServer

CONSTANTS
  ClientPool,    \* PoolSize, ...
  ClientSndBuf,  \* SndBuf and
  MaxMessages    \* MaxMessages of TcpClient

ASSUME ClientAssumption ==
  ClientPool \in Nat \ {0} /\ ClientSndBuf \in Nat \ {0} /\ MaxMessages \in Nat

VARIABLES
  app,  \* the application that main() starts
  c_pcb, c_registered, c_es, p_tx, c_snd_buf, others, message_count, written, ret

Client == INSTANCE TcpClient WITH
  PoolSize <- ClientPool, SndBuf <- ClientSndBuf,
  pcb <- c_pcb, registered <- c_registered, es <- c_es, snd_buf <- c_snd_buf

clientVars == <<c_pcb, c_registered, c_es, p_tx, c_snd_buf, others, message_count, written, ret>>
appVars == <<vars, clientVars, app>>
-----------------------------------------------------------------------------
AppsInit == Init /\ Client!Init /\ app \in {"server", "client"}

Server(A) == app = "server" /\ A /\ UNCHANGED <<clientVars, app>>
ClientStep(A) == app = "client" /\ A /\ UNCHANGED <<vars, app>>

AppsNext == Server(Next) \/ ClientStep(Client!Next)

\* tcp_slowtmr() polls every connection again and again.
AppsSpec ==
  /\ AppsInit /\ [][AppsNext]_appVars
  /\ WF_appVars(Server(tcp_server_poll)) /\ WF_appVars(ClientStep(Client!tcpclient_poll))
-----------------------------------------------------------------------------
\* The callbacks of tcp_server.c and tcpclient.c dereference their argument
\* without a test, and tcpclient_connected_close() leaves it pointing to the es
\* that was freed: no callback stays registered without an es, or on a connection
\* that is closed.  The state of both applications is well typed.
CallbacksHaveEs ==
  /\ TypeOK /\ CallbackHasEs
  /\ Client!TypeOK /\ Client!CallbackHasEs

\* The message of the client is written at most once, however the callbacks that
\* retry it are interleaved, and a client that closes has written it
\* (tcpclient_send()).
MessageOnce == Client!MessageOnce

\* A connection that the peer has closed is closed by the application, from
\* tcp_server_poll(), or from tcpclient_poll() once the message is written.
AppsClose == HalfClosedEnds /\ Client!ClientCloses
=============================================================================
