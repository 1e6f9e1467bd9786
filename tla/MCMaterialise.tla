---------------------------- MODULE MCMaterialise ----------------------------
(* An instance of Materialise for TLC: one check assigned to the address   *)
(* itself (c1), one assigned through its prefix (c2).                      *)
EXTENDS Materialise

CONSTANTS c1, c2

\* Both checks assigned and unassigned; and all that happens to one of them.
MCScenes ==
    {[checks |-> {c1, c2}, features |-> {"assign", "disable"}],
     [checks |-> {c1},
      features |-> {"assign", "disable", "exclude", "check_now", "crash"}],
     [checks |-> {c2},
      features |-> {"assign", "disable", "exclude", "check_now", "crash"}]}
=============================================================================
