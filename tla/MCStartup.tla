----------------------------- MODULE MCStartup -----------------------------
(* Instances of Startup for TLC.                                           *)
EXTENDS Startup

\* A short and a longer lease with the default periods, and one whose server
\* gives a rebinding time beyond the end of the lease.
MCOpts == {[lease |-> l, t1 |-> NotGiven, t2 |-> NotGiven] : l \in {2, 8}}
            \cup {[lease |-> 6, t1 |-> 2, t2 |-> 10]}

\* Only finite leases of one length.
MCFewOpts == {[lease |-> 8, t1 |-> NotGiven, t2 |-> NotGiven]}
============================================================================
