------------------------------ MODULE Timeouts ------------------------------
(***************************************************************************)
(* The timeouts of the stack (lwip-2.1.2/src/core/timeouts.c): a list      *)
(* sorted by expiry time, drawn from a fixed pool, worked off by           *)
(* sys_check_timeouts(), which the main loop calls once per round.  The    *)
(* clock is SysTick's 32-bit millisecond counter; it goes on counting      *)
(* while handlers run and it wraps.                                        *)
(*                                                                         *)
(* Every entry of the list carries, besides the expiry time the code       *)
(* stores, the true time left until then; the code never looks at it.      *)
(***************************************************************************)
EXTENDS Integers, Sequences, FiniteSets, SequencesExt

CONSTANTS
  Cyclic,        \* the cyclic timers other than tcp_tmr
  Interval,      \* interval_ms of each
  TcpInterval,   \* TCP_TMR_INTERVAL
  AppDelays,     \* times an application passes to sys_timeout(); {} on the board
  MaxApp,        \* bound: timeouts an application has at a time
  Sleeps,        \* times it sleeps before sys_restart_timeouts(); {} on the board
  PoolSize,      \* MEMP_NUM_SYS_TIMEOUT
  Wrap,          \* the clock counts modulo Wrap (2^32)
  MaxLag         \* longest time from one sys_check_timeouts() to the next

ASSUME ConstantsOK ==
  /\ IsFiniteSet(Cyclic) /\ Cyclic \cap {"tcp", "app", "none"} = {}
  /\ Wrap \in Nat /\ Wrap % 4 = 0 /\ MaxLag \in Nat \ {0}
  /\ MaxApp \in Nat /\ PoolSize \in Nat
  /\ Interval \in [Cyclic -> 1..(Wrap \div 4)]
  /\ TcpInterval \in 1..(Wrap \div 4)
  /\ AppDelays \subseteq 1..(Wrap \div 4) /\ Sleeps \subseteq Nat

(***************************************************************************)
(* The configuration of the board: MEMP_NUM_SYS_TIMEOUT is larger than the *)
(* number of timers, and the main loop is far faster than the range of the *)
(* comparison of times.                                                    *)
(***************************************************************************)
ASSUME Configuration ==
  /\ Cardinality(Cyclic) + 1 + MaxApp <= PoolSize
  /\ 2 * MaxLag + (Wrap \div 4) < Wrap \div 2

VARIABLES
  clock,                    \* sys_now()
  next_timeout,             \* the list: records of handler, time and left
  free,                     \* elements of the pool MEMP_SYS_TIMEOUT
  current_timeout_due_time,
  tcpip_tcp_timer_active,
  pcbs,                     \* tcp_active_pcbs or tcp_tw_pcbs is not empty
  pc,                       \* where the main loop is
  now,                      \* local of sys_check_timeouts()
  handler,                  \* the handler that runs, "none" otherwise
  lag,                      \* time since sys_check_timeouts() began last
  late,                     \* true time since the running handler was due
  runs                      \* how often each handler ran in this call

vars == <<clock, next_timeout, free, current_timeout_due_time,
          tcpip_tcp_timer_active, pcbs, pc, now, handler, lag, late, runs>>

Time == 0..(Wrap - 1)
Handlers == Cyclic \union {"tcp", "app"}
Entry == [h : Handlers, time : Time, left : Int]
Count(h) == Cardinality({i \in DOMAIN next_timeout : next_timeout[i].h = h})
-----------------------------------------------------------------------------
\* u32_t arithmetic
Add(a, b) == (a + b) % Wrap
Sub(a, b) == (a - b) % Wrap

LWIP_MAX_TIMEOUT == Wrap \div 2 - 1
\* Mutant: compares the times as plain numbers
TIME_LESS_THAN_Plain(t, compare_to) == t < compare_to
TIME_LESS_THAN(t, compare_to) == Sub(t, compare_to) > LWIP_MAX_TIMEOUT

\* The list with e inserted before the first entry that expires later.
Insert(list, e) ==
  LET later == {i \in DOMAIN list : TIME_LESS_THAN(e.time, list[i].time)}
      pos == IF later = {} THEN Len(list) + 1
             ELSE CHOOSE i \in later : \A j \in later : i <= j
  IN InsertAt(list, pos, e)

\* sys_timeout_abs() for a time that is truly `left' away.  Without a free
\* element the assertion prints a message (arch/cc.h) and the timeout is lost.
sys_timeout_abs(h, abs_time, left) ==
  IF free = 0
  THEN UNCHANGED <<next_timeout, free>>
  ELSE /\ next_timeout' = Insert(next_timeout, [h |-> h, time |-> abs_time, left |-> left])
       /\ free' = free - 1

sys_timeout(msecs, h) == sys_timeout_abs(h, Add(clock, msecs), msecs)
-----------------------------------------------------------------------------
\* sys_timeouts_init(): the cyclic timers, the TCP timer on demand.
InitialOrder ==
  CHOOSE s \in [1..Cardinality(Cyclic) -> Cyclic] :
    /\ \A i, j \in DOMAIN s : i # j => s[i] # s[j]
    /\ \A i \in 1..(Len(s) - 1) : Interval[s[i]] <= Interval[s[i + 1]]

Init ==
  /\ clock = 0
  /\ next_timeout = [i \in DOMAIN InitialOrder |->
                       LET h == InitialOrder[i]
                       IN [h |-> h, time |-> Add(clock, Interval[h]), left |-> Interval[h]]]
  /\ free = PoolSize - Cardinality(Cyclic)
  /\ current_timeout_due_time = 0
  /\ tcpip_tcp_timer_active = FALSE
  /\ pcbs = FALSE
  /\ pc = "main" /\ handler = "none" /\ now = 0
  /\ lag = 0 /\ late = 0 /\ runs = [h \in Handlers |-> 0]

\* SysTick_Handler(): one millisecond passes.
Tick ==
  /\ pc # "asleep" /\ lag < MaxLag
  /\ clock' = Add(clock, 1)
  /\ lag' = lag + 1
  /\ late' = IF handler = "none" THEN 0 ELSE late + 1
  /\ next_timeout' = [i \in DOMAIN next_timeout |->
                        [next_timeout[i] EXCEPT !.left = @ - 1]]
  /\ UNCHANGED <<free, current_timeout_due_time, tcpip_tcp_timer_active, pcbs, pc, now,
                 handler, runs>>

\* TCP_REG() in a call from the main loop: tcp_timer_needed()
RegisterPcb ==
  /\ pc = "main"
  /\ pcbs' = TRUE
  /\ tcpip_tcp_timer_active' = TRUE
  /\ IF tcpip_tcp_timer_active
     THEN UNCHANGED <<next_timeout, free>>
     ELSE sys_timeout(TcpInterval, "tcp")
  /\ UNCHANGED <<clock, current_timeout_due_time, pc, now, handler, lag, late, runs>>

\* The last connection goes away; the timer is left alone.
RemovePcbs ==
  /\ pc = "main" /\ pcbs
  /\ pcbs' = FALSE
  /\ UNCHANGED <<clock, next_timeout, free, current_timeout_due_time,
                 tcpip_tcp_timer_active, pc, now, handler, lag, late, runs>>

\* sys_timeout() called by an application
AppTimeout(msecs) ==
  /\ pc = "main" /\ Count("app") < MaxApp
  /\ sys_timeout(msecs, "app")
  /\ UNCHANGED <<clock, current_timeout_due_time, tcpip_tcp_timer_active, pcbs, pc, now,
                 handler, lag, late, runs>>

\* sys_untimeout() of the application's timeout: the first match is removed
sys_untimeout ==
  /\ pc = "main" /\ Count("app") > 0
  /\ next_timeout' = RemoveFirstMatch(next_timeout, LAMBDA e : e.h = "app")
  /\ free' = free + 1
  /\ UNCHANGED <<clock, current_timeout_due_time, tcpip_tcp_timer_active, pcbs, pc, now,
                 handler, lag, late, runs>>
-----------------------------------------------------------------------------
\* sys_check_timeouts() begins: only what has expired now is handled.
CheckStart ==
  /\ pc = "main"
  /\ pc' = "check" /\ now' = clock /\ lag' = 0
  /\ UNCHANGED <<clock, next_timeout, free, current_timeout_due_time,
                 tcpip_tcp_timer_active, pcbs, handler, late, runs>>

\* Mutant: an entry that expires this very millisecond is left for the next call
ExpiredStrictly == next_timeout # << >> /\ TIME_LESS_THAN(Head(next_timeout).time, now)
Expired == next_timeout # << >> /\ ~TIME_LESS_THAN(now, Head(next_timeout).time)

\* Mutant: does not give the entry back to the pool
CallHandlerLeaks ==
  /\ pc = "check" /\ Expired
  /\ LET e == Head(next_timeout)
     IN /\ handler' = e.h
        /\ current_timeout_due_time' = e.time
        /\ late' = -e.left
        /\ runs' = [runs EXCEPT ![e.h] = @ + 1]
  /\ next_timeout' = Tail(next_timeout)
  /\ pc' = "handler"
  /\ UNCHANGED <<clock, free, tcpip_tcp_timer_active, pcbs, now, lag>>
\* The first entry goes back to the pool before its handler is called.
CallHandler ==
  /\ pc = "check" /\ Expired
  /\ LET e == Head(next_timeout)
     IN /\ handler' = e.h
        /\ current_timeout_due_time' = e.time
        /\ late' = -e.left
        /\ runs' = [runs EXCEPT ![e.h] = @ + 1]
  /\ next_timeout' = Tail(next_timeout)
  /\ free' = free + 1
  /\ pc' = "handler"
  /\ UNCHANGED <<clock, tcpip_tcp_timer_active, pcbs, now, lag>>

CheckReturn ==
  /\ pc = "check" /\ ~Expired
  /\ pc' = "main" /\ now' = 0
  /\ runs' = [h \in Handlers |-> 0]
  /\ UNCHANGED <<clock, next_timeout, free, current_timeout_due_time,
                 tcpip_tcp_timer_active, pcbs, handler, lag, late>>

\* Nothing reads current_timeout_due_time after the handler: it is forgotten.
HandlerReturns ==
  /\ pc' = "check" /\ handler' = "none"
  /\ current_timeout_due_time' = 0 /\ late' = 0

\* Mutant: always corrects, so that a timer that is late is due at once again
lwip_cyclic_timer_NoOverload ==
  /\ pc = "handler" /\ handler \in Cyclic
  /\ LET ms == Interval[handler]
     IN sys_timeout_abs(handler, Add(current_timeout_due_time, ms), ms - late)
  /\ HandlerReturns
  /\ UNCHANGED <<clock, tcpip_tcp_timer_active, pcbs, now, lag, runs>>
\* lwip_cyclic_timer() after its handler: the next run is one interval after
\* the time this one was due, or, if that is over, one interval from now.
lwip_cyclic_timer ==
  /\ pc = "handler" /\ handler \in Cyclic
  /\ LET ms == Interval[handler]
         next_timeout_time == Add(current_timeout_due_time, ms)
     IN IF TIME_LESS_THAN(next_timeout_time, clock)
        THEN sys_timeout_abs(handler, Add(clock, ms), ms)
        ELSE sys_timeout_abs(handler, next_timeout_time, ms - late)
  /\ HandlerReturns
  /\ UNCHANGED <<clock, tcpip_tcp_timer_active, pcbs, now, lag, runs>>

\* tcpip_tcp_timer(): tcp_tmr() may end the last connection.
tcpip_tcp_timer ==
  /\ pc = "handler" /\ handler = "tcp"
  /\ \E remain \in {FALSE, pcbs} :
       /\ pcbs' = remain
       /\ tcpip_tcp_timer_active' = remain
       /\ IF remain THEN sys_timeout(TcpInterval, "tcp")
          ELSE UNCHANGED <<next_timeout, free>>
  /\ HandlerReturns
  /\ UNCHANGED <<clock, now, lag, runs>>

AppHandler ==
  /\ pc = "handler" /\ handler = "app"
  /\ HandlerReturns
  /\ UNCHANGED <<clock, next_timeout, free, tcpip_tcp_timer_active, pcbs, now, lag, runs>>
-----------------------------------------------------------------------------
\* An application lets the board sleep with the clock running ...
Sleep(t) ==
  /\ pc = "main" /\ next_timeout # << >>
  /\ clock' = Add(clock, t)
  /\ pc' = "asleep"
  /\ UNCHANGED <<next_timeout, free, current_timeout_due_time, tcpip_tcp_timer_active,
                 pcbs, now, handler, lag, late, runs>>

\* ... and sys_restart_timeouts() rebases the list: the first entry is due now.
sys_restart_timeouts ==
  /\ pc = "asleep"
  /\ LET base == Head(next_timeout)
     IN next_timeout' = [i \in DOMAIN next_timeout |->
          [next_timeout[i] EXCEPT !.time = Add(Sub(@, base.time), clock),
                                  !.left = @ - base.left]]
  /\ pc' = "main"
  /\ UNCHANGED <<clock, free, current_timeout_due_time, tcpip_tcp_timer_active, pcbs, now,
                 handler, lag, late, runs>>

Check == CheckStart \/ CallHandler \/ CheckReturn
Handle == lwip_cyclic_timer \/ tcpip_tcp_timer \/ AppHandler
Application ==
  \/ RegisterPcb \/ RemovePcbs
  \/ \E msecs \in AppDelays : AppTimeout(msecs)
  \/ sys_untimeout
  \/ \E t \in Sleeps : Sleep(t)

Next == Tick \/ Check \/ Handle \/ Application \/ sys_restart_timeouts

Spec == Init /\ [][Next]_vars

\* SysTick counts, and the main loop and the handlers go on.
FairSpec ==
  Spec /\ WF_vars(Tick) /\ WF_vars(Check) /\ WF_vars(Handle)
       /\ WF_vars(sys_restart_timeouts)
-----------------------------------------------------------------------------
TypeOK ==
  /\ clock \in Time /\ now \in Time /\ current_timeout_due_time \in Time
  /\ next_timeout \in Seq(Entry)
  /\ free \in 0..PoolSize
  /\ tcpip_tcp_timer_active \in BOOLEAN /\ pcbs \in BOOLEAN
  /\ pc \in {"main", "check", "handler", "asleep"}
  /\ handler \in Handlers \union {"none"}
  /\ lag \in 0..MaxLag /\ late \in 0..(3 * MaxLag)
  /\ runs \in [Handlers -> Nat]

(***************************************************************************)
(* sys_timeout_abs() keeps the list in the true order of expiry although   *)
(* it compares times that wrap, across the wrap of SysTick, late handlers  *)
(* and sys_restart_timeouts(); an entry out of order would be held up by   *)
(* the one before it.                                                      *)
(***************************************************************************)
TrueOrder ==
  \A i, j \in DOMAIN next_timeout : i < j => next_timeout[i].left <= next_timeout[j].left

(***************************************************************************)
(* No timer of the stack is lost or doubled: each cyclic timer is in the   *)
(* list once, unless it is running; the TCP timer is exactly when          *)
(* tcpip_tcp_timer_active says so, which it does while there is a          *)
(* connection; and every element of the pool is free or in the list.       *)
(***************************************************************************)
Scheduled ==
  /\ \A h \in Cyclic : Count(h) = IF handler = h THEN 0 ELSE 1
  /\ Count("tcp") = IF tcpip_tcp_timer_active /\ handler # "tcp" THEN 1 ELSE 0
  /\ pcbs => tcpip_tcp_timer_active
  /\ free + Len(next_timeout) = PoolSize

(***************************************************************************)
(* The list of timeouts is what its users rely on: ordered by true expiry  *)
(* times, with every timer of the stack in it once (sys_timeout_abs(),     *)
(* lwip_cyclic_timer(), tcpip_tcp_timer()).                                *)
(***************************************************************************)
ListConsistent == TypeOK /\ TrueOrder /\ Scheduled

(***************************************************************************)
(* One call of sys_check_timeouts() runs no handler more than twice, even  *)
(* when the main loop was late by many intervals: lwip_cyclic_timer() does *)
(* not make up for missed runs.                                            *)
(***************************************************************************)
NoCatchingUp == \A h \in Cyclic : runs[h] <= 2

(***************************************************************************)
(* A handler is never called before its time has truly come, and when      *)
(* sys_check_timeouts() returns nothing that had expired when it began is  *)
(* left behind, also across the wrap of the clock.                         *)
(***************************************************************************)
OnTime ==
  [][ /\ (pc = "check" /\ pc' = "handler") => Head(next_timeout).left <= 0
      /\ (pc = "check" /\ pc' = "main") =>
            \A i \in DOMAIN next_timeout : next_timeout[i].left + lag > 0 ]_vars

(***************************************************************************)
(* Every cyclic timer runs again and again, unless the application goes to  *)
(* sleep again and again, and every call of sys_check_timeouts() ends,      *)
(* though handlers take time and re-arm.                                    *)
(***************************************************************************)
TimersRun ==
  /\ \A h \in Cyclic : []<>(handler = h \/ pc = "asleep")
  /\ pc = "check" ~> pc = "main"
=============================================================================
