----------------------------- MODULE MCTimeouts -----------------------------
(* Instances of Timeouts for TLC.  Times are in units that keep the fine    *)
(* and the coarse timer apart; the clock wraps at 20.                       *)
EXTENDS Timeouts

MCInterval == [h \in Cyclic |-> IF h = "fine" THEN 1 ELSE 4]
=============================================================================
