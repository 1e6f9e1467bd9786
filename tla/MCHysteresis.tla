----------------------------- MODULE MCHysteresis -----------------------------
(* Instances of Hysteresis for TLC.                                        *)
EXTENDS Hysteresis

\* Every stale mode, rise and fall above and at their floor; an operator moves
\* between them at will, so limits are raised and lowered under a failing check.
MCPolicies ==
    {[rise |-> 2, fall |-> 2, scans |-> 3, days |-> 0],
     [rise |-> 1, fall |-> 3, scans |-> 4, days |-> 2],
     [rise |-> 3, fall |-> 1, scans |-> 0, days |-> 1],
     [rise |-> 0, fall |-> 0, scans |-> 0, days |-> 0]}
=============================================================================
