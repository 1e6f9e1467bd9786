------------------------------ MODULE CheckService -----------------------------
(***************************************************************************)
(* What the check engine promises: a check is waited for, taken by one     *)
(* holder and reported by it, once; what its holder loses is recovered and *)
(* only then taken again.  CheckEngine implements this while nobody        *)
(* switches addresses or asks for a check at once (ImplementsService).     *)
(***************************************************************************)
CONSTANTS Checks, Status

VARIABLES
    taken,      \* checks in the hands of a dispatcher, the queue or a worker
    lost,       \* checks whose holder died with them
    status      \* the last report of each check

vars == <<taken, lost, status>>

Init == taken = {} /\ lost = {} /\ status \in [Checks -> Status]

\* A dispatcher takes checks that nobody has.
Take(S) ==
    /\ S \intersect (taken \union lost) = {}
    /\ taken' = taken \union S
    /\ UNCHANGED <<lost, status>>

\* A status is written in the step in which its check is given back.
Report(c, new) ==
    /\ c \in taken
    /\ taken' = taken \ {c}
    /\ status' = [status EXCEPT ![c] = new]
    /\ UNCHANGED lost

\* A holder dies.
Lose(S) ==
    /\ S \subseteq taken
    /\ taken' = taken \ S /\ lost' = lost \union S
    /\ UNCHANGED status

\* The reaper takes back what was lost, never what is held.
Recover(S) ==
    /\ S \subseteq lost
    /\ lost' = lost \ S
    /\ UNCHANGED <<taken, status>>

Next ==
    \/ \E S \in SUBSET Checks : Take(S) \/ Lose(S) \/ Recover(S)
    \/ \E c \in Checks, new \in Status : Report(c, new)

Spec == Init /\ [][Next]_vars
=============================================================================
