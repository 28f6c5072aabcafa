------------------------------ MODULE Startup ------------------------------
(***************************************************************************)
(* How the board obtains its address: the main loop (USER/main.c), the     *)
(* start-up state machine DHCP_state (USER/lwipdemo.c) and the DHCP client *)
(* it polls (module Dhcp), with the network around them.                   *)
(*                                                                         *)
(* One thread runs everything.  Each round of lwip_Process() handles at    *)
(* most one received frame, then the timers that have expired, then        *)
(* DHCP_state.  Requests that were sent may be answered at any later time, *)
(* any number of times and in any order, or not at all.                    *)
(***************************************************************************)
EXTENDS Dhcp

CONSTANTS MaxReplies,    \* bound: replies that have an effect
          MaxConflicts,  \* bound: ARP replies that have an effect
          MaxAllocFails, \* bound: messages for which there is no memory
          MaxDhcpTries   \* MAX_DHCP_TRIES

ASSUME BoundsAssumption == /\ MaxReplies \in Nat /\ MaxConflicts \in Nat
                           /\ MaxAllocFails \in Nat /\ MaxDhcpTries \in Nat

VARIABLES
  c,           \* the DHCP client
  attached,    \* netif_dhcp_data(&gnetif) # NULL
  up,          \* the link was up when the interface was added
  DHCP_state,
  pc,          \* where lwip_Process() is
  due,         \* expired timers that sys_check_timeouts() has yet to call
  main,        \* "wait": first loop of main(); "serve": udp_server_init() was called
  \* network
  replies, conflicts, fails  \* numbers of events so far

loopvars == <<attached, up, DHCP_state, pc, due, main>>
vars == <<c, loopvars, replies, conflicts, fails>>

\* What a server may answer to the messages sent so far (external).
Replies ==
  LET D == {m \in c.sent : m.type = "DISCOVER"}
      R == {m \in c.sent : m.type = "REQUEST"}
  IN  {[type |-> "OFFER", xid |-> m.xid, addr |-> a] : m \in D, a \in Addrs}
        \cup {[type |-> "ACK", xid |-> m.xid, addr |-> m.addr, opts |-> o] : m \in R, o \in Opts}
        \cup {[type |-> "NAK", xid |-> m.xid] : m \in R}

\* A call of the DHCP client with result d; okRelease and ok tell whether there
\* was memory for the messages it sends.
Call(d, okRelease, ok) ==
  /\ c' = d
  /\ fails' = fails + (IF okRelease THEN 0 ELSE 1) + (IF ok THEN 0 ELSE 1)
  /\ fails' <= MaxAllocFails

----------------------------------------------------------------------------
\* lwip_init_task(): the interface is up if HAL_ETH_Init() found a link.
Init ==
  /\ c = [state |-> "OFF", tries |-> 0, request_timeout |-> 0,
          pcb_allocated |-> 0, xid |-> 0, next_xid |-> 0, offered_ip_addr |-> NoAddr,
          offered_t0_lease |-> 0, offered_t1_renew |-> 0, offered_t2_rebind |-> 0,
          lease_used |-> 0, t0_timeout |-> 0, t2_timeout |-> 0,
          t1_renew_time |-> 0, t2_rebind_time |-> 0, ip |-> NoAddr, sent |-> {}, closed |-> {}]
  /\ attached = FALSE /\ up \in BOOLEAN
  /\ DHCP_state = "START" /\ pc = "input" /\ due = {} /\ main = "wait"
  /\ replies = 0 /\ conflicts = 0 /\ fails = 0

\* ethernetif_input() finds no frame, or one that does not concern DHCP.
InputNone ==
  /\ pc = "input" /\ pc' = "timeouts"
  /\ UNCHANGED <<c, attached, up, DHCP_state, due, main, replies, conflicts, fails>>

\* ethernetif_input() delivers a reply that dhcp_recv() does not ignore.
InputReply(m, ok) ==
  /\ pc = "input" /\ pc' = "timeouts"
  /\ replies < MaxReplies /\ replies' = replies + 1
  /\ Recv(c, m, ok) # c
  /\ Call(Recv(c, m, ok), TRUE, ok)
  /\ UNCHANGED <<attached, up, DHCP_state, due, main, conflicts>>

\* ethernetif_input() delivers an ARP reply for the address being checked.
InputArpReply(a, ok) ==
  /\ pc = "input" /\ pc' = "timeouts"
  /\ conflicts < MaxConflicts /\ conflicts' = conflicts + 1
  /\ ArpReply(c, a, ok) # c
  /\ Call(ArpReply(c, a, ok), TRUE, ok)
  /\ UNCHANGED <<attached, up, DHCP_state, due, main, replies>>

\* sys_check_timeouts(): the timers in S have expired.
CheckTimeouts(S) ==
  /\ pc = "timeouts" /\ pc' = "timers" /\ due' = S
  /\ UNCHANGED <<c, attached, up, DHCP_state, main, replies, conflicts, fails>>

\* dhcp_fine_tmr() while request_timeout goes on, or is not running.
FineTick ==
  /\ pc = "timers" /\ "fine" \in due /\ due' = due \ {"fine"}
  /\ UNCHANGED <<c, attached, up, DHCP_state, pc, main, replies, conflicts, fails>>

\* dhcp_fine_tmr() when request_timeout runs out.
FineTimeout(okRelease, ok) ==
  /\ pc = "timers" /\ "fine" \in due /\ due' = due \ {"fine"}
  /\ attached /\ c.request_timeout = 1
  /\ Call(FineTmr(c, okRelease, ok), okRelease, ok)
  /\ UNCHANGED <<attached, up, DHCP_state, pc, main, replies, conflicts>>

CoarseTick(okRelease, ok) ==
  /\ pc = "timers" /\ "coarse" \in due /\ due' = due \ {"coarse"}
  /\ Call(IF attached THEN CoarseTmr(c, okRelease, ok) ELSE c, okRelease, ok)
  /\ UNCHANGED <<attached, up, DHCP_state, pc, main, replies, conflicts>>

TimersDone ==
  /\ pc = "timers" /\ due = {} /\ pc' = "handle"
  /\ UNCHANGED <<c, attached, up, DHCP_state, due, main, replies, conflicts, fails>>

----------------------------------------------------------------------------
(* lwip_dhcp_process_handle(), then the condition of the loop in main().   *)

HandleStart(ok) ==
  /\ pc = "handle" /\ pc' = "main" /\ DHCP_state = "START"
  /\ DHCP_state' = "WAIT_ADDRESS"
  /\ IF up THEN attached' = TRUE /\ Call(Start(c, ok), TRUE, ok)
           ELSE ok /\ UNCHANGED <<attached, c, fails>>   \* ERR_ARG, ignored
  /\ UNCHANGED <<up, due, main, replies, conflicts>>

HandleAssigned ==
  /\ pc = "handle" /\ pc' = "main" /\ DHCP_state = "WAIT_ADDRESS"
  /\ attached /\ Supplied(c)
  /\ DHCP_state' = "ADDRESS_ASSIGNED"
  /\ UNCHANGED <<c, attached, up, due, main, replies, conflicts, fails>>

\* dhcp->tries > MAX_DHCP_TRIES.  Without a client dhcp is NULL: the word at that
\* address of the flash is read, which may be anything.
TooManyTries == IF attached THEN {c.tries > MaxDhcpTries} ELSE BOOLEAN

HandleWait ==
  /\ pc = "handle" /\ pc' = "main" /\ DHCP_state = "WAIT_ADDRESS"
  /\ ~(attached /\ Supplied(c)) /\ FALSE \in TooManyTries
  /\ UNCHANGED <<c, attached, up, DHCP_state, due, main, replies, conflicts, fails>>

\* Mutant: the client goes on behind the static address.
HandleTimeoutNoStop ==
  /\ pc = "handle" /\ pc' = "main" /\ DHCP_state = "WAIT_ADDRESS"
  /\ ~(attached /\ Supplied(c)) /\ TRUE \in TooManyTries
  /\ DHCP_state' = "TIMEOUT"
  /\ c' = [c EXCEPT !.ip = Static]
  /\ UNCHANGED <<attached, up, due, main, replies, conflicts, fails>>

\* The client is stopped and the static address is used.
HandleTimeout ==
  /\ pc = "handle" /\ pc' = "main" /\ DHCP_state = "WAIT_ADDRESS"
  /\ ~(attached /\ Supplied(c)) /\ TRUE \in TooManyTries
  /\ DHCP_state' = "TIMEOUT"
  /\ c' = [ReleaseAndStop(c, TRUE) EXCEPT !.ip = Static]
  /\ UNCHANGED <<attached, up, due, main, replies, conflicts, fails>>

HandleNothing ==
  /\ pc = "handle" /\ pc' = "main" /\ DHCP_state \in {"ADDRESS_ASSIGNED", "TIMEOUT"}
  /\ UNCHANGED <<c, attached, up, DHCP_state, due, main, replies, conflicts, fails>>

\* main(): once an address is assigned the UDP server is started.
MainLoop ==
  /\ pc = "main" /\ pc' = "input"
  /\ main' = IF DHCP_state = "ADDRESS_ASSIGNED" THEN "serve" ELSE main
  /\ UNCHANGED <<c, attached, up, DHCP_state, due, replies, conflicts, fails>>

----------------------------------------------------------------------------
Input == \/ InputNone
         \/ \E m \in Replies, ok \in BOOLEAN : InputReply(m, ok)
         \/ \E a \in Addrs, ok \in BOOLEAN : InputArpReply(a, ok)

Timers == \/ \E S \in SUBSET {"fine", "coarse"} : CheckTimeouts(S)
          \/ FineTick
          \/ \E okRelease, ok \in BOOLEAN : FineTimeout(okRelease, ok)
          \/ \E okRelease, ok \in BOOLEAN : CoarseTick(okRelease, ok)
          \/ TimersDone

Handle == \/ \E ok \in BOOLEAN : HandleStart(ok)
          \/ HandleAssigned \/ HandleWait \/ HandleTimeout \/ HandleNothing

Next == Input \/ Timers \/ Handle \/ MainLoop

Spec == Init /\ [][Next]_vars

\* The processor runs and time passes: both timers expire again and again, and a
\* request_timeout that is running runs out.
Fairness ==
  /\ WF_vars(Next)
  /\ SF_vars(\E S \in SUBSET {"fine", "coarse"} : "fine" \in S /\ CheckTimeouts(S))
  /\ SF_vars(\E S \in SUBSET {"fine", "coarse"} : "coarse" \in S /\ CheckTimeouts(S))
  /\ SF_vars(\E okRelease, ok \in BOOLEAN : FineTimeout(okRelease, ok))

FairSpec == Spec /\ Fairness

----------------------------------------------------------------------------
TypeOK ==
  /\ c \in Client
  /\ attached \in BOOLEAN /\ up \in BOOLEAN
  /\ DHCP_state \in {"START", "WAIT_ADDRESS", "ADDRESS_ASSIGNED", "TIMEOUT"}
  /\ pc \in {"input", "timeouts", "timers", "handle", "main"}
  /\ due \subseteq {"fine", "coarse"}
  /\ main \in {"wait", "serve"}
  /\ replies \in 0 .. MaxReplies /\ conflicts \in 0 .. MaxConflicts
  /\ fails \in 0 .. MaxAllocFails

\* The static address is final: once lwip_dhcp_process_handle() has given up on
\* DHCP, no late reply, ARP reply or timer takes the address away or revives the
\* client (dhcp_stop() before netif_set_addr()).
StaticIsFinal ==
  DHCP_state = "TIMEOUT" => c.ip = Static /\ c.state = "OFF" /\ c.pcb_allocated = 0

\* An address other than the static one is on the interface only while the client
\* holds a lease for that very address.
AddressIsLeased ==
  c.ip \notin {NoAddr, Static} => Supplied(c) /\ c.ip = c.offered_ip_addr

\* The lease runs out: lease_used is compared for equality with t0_timeout, so it
\* must never get past it, whatever renewals, refusals and restarts come between.
LeaseCountsDown == c.t0_timeout # 0 => c.lease_used < c.t0_timeout

\* A transaction that ended (NAK, conflict, release) never comes back: the client
\* does not listen to replies that carry its identifier, as long as it had memory
\* for every first message of a negotiation.
FreshTransaction == fails = 0 /\ c.state # "OFF" => c.xid \notin c.closed

\* Start-up ends, with an address from a server or with the static one, however
\* the replies are lost, delayed or duplicated, if the link is up.
BootEnds == up => <>(DHCP_state \in {"ADDRESS_ASSIGNED", "TIMEOUT"})

\* No address is kept for ever without renewals.
LeaseExpires == (c.ip \in Addrs /\ c.t0_timeout # 0) ~> (c.ip \notin Addrs)

\* An address, "DHCP static/dynamic" as the repository's README announces it, is
\* all that the server needs: when start-up ends with one, the UDP server is
\* started (main() calls udp_server_init()).
ServerStarts == (up /\ c.ip # NoAddr) ~> (main = "serve")
============================================================================
