------------------------------ MODULE EthInit -------------------------------
(***************************************************************************)
(* Initialisation of the Ethernet interface: low_level_init() of the       *)
(* port and HAL_ETH_Init(), which resets the MAC and the PHY, waits for a  *)
(* link, waits for auto-negotiation and programs its result into the MAC.  *)
(* Each access to the PHY is a step: cable, link partner and the clock go  *)
(* on in between.  Time is the tick of HAL_GetTick() modulo Wrap.          *)
(*                                                                         *)
(* The PHY is external.  It is represented by its link, by whether its     *)
(* negotiation is complete and by the mode that resulted; the link bit of  *)
(* its basic status register stays low once after a loss of the link.      *)
(***************************************************************************)
EXTENDS Integers

CONSTANTS
  Wrap,            \* 2^32 of the tick counter
  ETH_TIMEOUT_SWRESET, ETH_TIMEOUT_LINKED_STATE, ETH_TIMEOUT_AUTONEGO_COMPLETED,
  PHY_READ_TO,     \* how long an access to the PHY waits before it fails
  PHY_RESET_DELAY,
  MaxLag           \* bound: ticks by which a polling loop is late

Timeouts == {ETH_TIMEOUT_SWRESET, ETH_TIMEOUT_LINKED_STATE, ETH_TIMEOUT_AUTONEGO_COMPLETED}

ASSUME InitAssumption ==
  /\ {Wrap, PHY_READ_TO, PHY_RESET_DELAY, MaxLag} \cup Timeouts \subseteq Nat \ {0}
  /\ \A t \in Timeouts : t < PHY_READ_TO /\ t + MaxLag + PHY_READ_TO + 2 < Wrap

\* Speed and duplex mode, as the MAC is programmed
Modes == {"10half", "10full", "100half", "100full"}

VARIABLES
  stage,       \* where low_level_init() is
  tick, tickstart,
  phyreg,      \* what HAL_ETH_Init() last read of the basic status register
  status,      \* result of HAL_ETH_Init()
  mac,         \* mode the MAC is programmed for, "reset" before that
  link_up,     \* NETIF_FLAG_LINK_UP
  link, complete, mode,  \* the PHY
  dropped,     \* the link was lost since the status register was last read
  fresh,       \* history: the last access to the PHY did not time out
  steady       \* history: the link was not lost since a read that found the
               \* negotiation complete

driver == <<stage, tickstart, phyreg, status, mac, link_up, fresh>>
phy == <<link, complete, mode>>
macvars == <<driver, phy, tick, dropped, steady>>

After(t, n) == (t + n) % Wrap
Elapsed == (tick - tickstart) % Wrap
\* Mutant: allows for the duration of an access that fails
Expired_Lenient(timeout) == Elapsed > timeout + PHY_READ_TO
\* Mutant: compares the tick with a deadline that may have wrapped
Expired_Deadline(timeout) == tick > tickstart + timeout
Expired(timeout) == Elapsed > timeout
-----------------------------------------------------------------------------
MacInit ==
  /\ stage = "off" /\ tick \in 0..(Wrap - 1) /\ tickstart = 0
  /\ phyreg = [link |-> FALSE, complete |-> FALSE]
  /\ status = "none" /\ mac = "reset" /\ link_up = FALSE
  /\ link = FALSE /\ complete = FALSE /\ mode = "100half"
  /\ dropped = FALSE /\ fresh = TRUE /\ steady = FALSE

\* An access to the PHY fails after PHY_READ_TO ticks.
AccessFails == tick' = After(tick, PHY_READ_TO + 1) /\ fresh' = FALSE
AccessWorks == tick' = tick /\ fresh' = TRUE

\* HAL_ETH_Init() returns, after ETH_MACDMAConfig() for the given mode.
Return(s, m) ==
  /\ stage' = "returned" /\ status' = s /\ mac' = m
  /\ UNCHANGED <<tickstart, phyreg, link_up>>

\* ETH_MACDMAConfig() after an error: full duplex at 100 Mbit/s
Fail(s) == Return(s, "100full")

\* The next loop of HAL_ETH_Init(), whose timeout starts now
Continue(at, now) ==
  /\ stage' = at /\ tickstart' = now
  /\ UNCHANGED <<phyreg, status, mac, link_up>>

\* HAL_ETH_Init() up to the software reset of the MAC
StartReset ==
  /\ stage = "off"
  /\ Continue("swreset", tick)
  /\ UNCHANGED <<tick, fresh, phy, dropped, steady>>

\* The reset is over: the PHY is reset too, which takes its link away.
ResetPhy ==
  /\ stage = "swreset"
  /\ \/ /\ AccessFails
        /\ Fail("HAL_ERROR")
        /\ UNCHANGED <<phy, dropped, steady>>
     \/ /\ tick' = After(tick, PHY_RESET_DELAY) /\ fresh' = TRUE
        /\ Continue("link", tick')
        /\ link' = FALSE /\ complete' = FALSE /\ mode' = "100half"
        /\ dropped' = FALSE /\ steady' = FALSE

\* Without a clock from the PHY the reset never ends; the MAC keeps the values
\* of the reset.
ResetTimeout ==
  /\ stage = "swreset" /\ Expired(ETH_TIMEOUT_SWRESET)
  /\ Return("HAL_TIMEOUT", mac)
  /\ UNCHANGED <<tick, fresh, phy, dropped, steady>>

\* HAL_ETH_ReadPHYRegister(PHY_BSR) in one of the two loops, its result ignored
ReadStatus ==
  /\ stage \in {"link", "autoneg"}
  /\ stage' = IF stage = "link" THEN "linkTest" ELSE "autonegTest"
  /\ \/ AccessFails /\ UNCHANGED <<phyreg, dropped, steady>>
     \/ /\ AccessWorks
        /\ phyreg' = [link |-> link /\ ~dropped, complete |-> complete]
        /\ dropped' = FALSE /\ steady' = complete
  /\ UNCHANGED <<tickstart, status, mac, link_up, phy>>

\* The loop that waits for the link: at its end auto-negotiation is enabled.
TestLinked ==
  /\ stage = "linkTest"
  /\ \/ /\ Expired(ETH_TIMEOUT_LINKED_STATE)
        /\ Fail("HAL_TIMEOUT")
        /\ UNCHANGED <<tick, fresh>>
     \/ /\ ~Expired(ETH_TIMEOUT_LINKED_STATE) /\ ~phyreg.link
        /\ stage' = "link"
        /\ UNCHANGED <<tick, tickstart, phyreg, status, mac, link_up, fresh>>
     \/ /\ ~Expired(ETH_TIMEOUT_LINKED_STATE) /\ phyreg.link
        /\ \/ AccessFails /\ Fail("HAL_ERROR")
           \/ AccessWorks /\ Continue("autoneg", tick)
  /\ UNCHANGED <<phy, dropped, steady>>

\* The loop that waits for the end of the negotiation
TestNegotiated ==
  /\ stage = "autonegTest"
  /\ \/ Expired(ETH_TIMEOUT_AUTONEGO_COMPLETED) /\ Fail("HAL_TIMEOUT")
     \/ /\ ~Expired(ETH_TIMEOUT_AUTONEGO_COMPLETED)
        /\ Continue(IF phyreg.complete THEN "result" ELSE "autoneg", tickstart)
  /\ UNCHANGED <<tick, fresh, phy, dropped, steady>>

\* The result of the negotiation is read and programmed into the MAC.
ReadResult ==
  /\ stage = "result"
  /\ \/ AccessFails /\ Fail("HAL_ERROR")
     \/ AccessWorks /\ Return("HAL_OK", mode)
  /\ UNCHANGED <<phy, dropped, steady>>

\* Mutant: the interface reports a link whatever the result
FinishInit_Always ==
  /\ stage = "returned"
  /\ stage' = "running" /\ link_up' = TRUE
  /\ UNCHANGED <<tickstart, phyreg, status, mac, tick, fresh, phy, dropped, steady>>
\* The rest of low_level_init(): the link flag, the descriptors, HAL_ETH_Start()
FinishInit ==
  /\ stage = "returned"
  /\ stage' = "running" /\ link_up' = (status = "HAL_OK")
  /\ UNCHANGED <<tickstart, phyreg, status, mac, tick, fresh, phy, dropped, steady>>

\* External: time passes, but no polling loop of the driver is late by more than
\* MaxLag ticks.
Tick ==
  /\ \/ stage = "swreset" /\ Elapsed <= ETH_TIMEOUT_SWRESET + MaxLag
     \/ stage \in {"link", "linkTest"} /\ Elapsed <= ETH_TIMEOUT_LINKED_STATE + MaxLag
     \/ stage \in {"autoneg", "autonegTest"}
        /\ Elapsed <= ETH_TIMEOUT_AUTONEGO_COMPLETED + MaxLag
  /\ tick' = After(tick, 1)
  /\ UNCHANGED <<driver, phy, dropped, steady>>

\* External: the link comes up, the partners agree on a mode, the link is lost.
Plug ==
  /\ stage # "off" /\ ~link
  /\ link' = TRUE /\ complete' = FALSE /\ mode' = "100half"
  /\ UNCHANGED <<driver, tick, dropped, steady>>
Negotiate ==
  /\ link /\ ~complete
  /\ complete' = TRUE /\ mode' \in Modes
  /\ UNCHANGED <<driver, tick, link, dropped, steady>>
Unplug ==
  /\ link
  /\ link' = FALSE /\ complete' = FALSE /\ mode' = "100half"
  /\ dropped' = TRUE /\ steady' = FALSE
  /\ UNCHANGED <<driver, tick>>

Driver ==
  \/ StartReset \/ ResetPhy \/ ResetTimeout \/ ReadStatus \/ TestLinked
  \/ TestNegotiated \/ ReadResult \/ FinishInit

MacNext == Driver \/ Tick \/ Plug \/ Negotiate \/ Unplug

MacSpec == MacInit /\ [][MacNext]_macvars

\* The processor goes on and the clock ticks.  The reset of the MAC need not end
\* by itself.
MacFairSpec ==
  /\ MacSpec
  /\ WF_macvars(StartReset \/ ResetTimeout \/ ReadStatus \/ TestLinked \/ TestNegotiated
             \/ ReadResult \/ FinishInit)
  /\ WF_macvars(Tick)
-----------------------------------------------------------------------------
MacTypeOK ==
  /\ stage \in {"off", "swreset", "link", "linkTest", "autoneg", "autonegTest", "result",
             "returned", "running"}
  /\ tick \in 0..(Wrap - 1) /\ tickstart \in 0..(Wrap - 1)
  /\ phyreg \in [link : BOOLEAN, complete : BOOLEAN]
  /\ status \in {"none", "HAL_OK", "HAL_TIMEOUT", "HAL_ERROR"}
  /\ mac \in Modes \cup {"reset"} /\ mode \in Modes
  /\ {link_up, link, complete, dropped, fresh, steady} \subseteq BOOLEAN

\* HAL_ETH_Init() ignores the result of its reads and may then test what an
\* earlier one has left: it never acts on that, because a read that fails takes
\* longer than the loop may last.
FreshStatus == MacTypeOK /\ (stage \in {"autoneg", "result"} => fresh)

\* The interface reports a link only with the MAC in the mode the two partners
\* have agreed on, as long as the link was not lost since HAL_ETH_Init() found
\* the negotiation complete.
ModeNegotiated == link_up /\ steady => mac = mode

\* Initialisation ends, with or without a PHY and a cable.
InitEnds == stage = "off" ~> stage = "running"
=============================================================================
