-------------------------- MODULE RemoteEnginesProofs --------------------------
(***************************************************************************)
(* For any number of requests, reports and losses: an Outpost is not       *)
(* handed what it already has.  A request claims a row only while the row  *)
(* has no claim; what has to be shown is that a row handed out keeps its   *)
(* claim until it is answered, reaped or excluded, with reports at work    *)
(* that may have loaded another claim (HeldIsClaimed).  Samples, which     *)
(* write back the claim they loaded, are of fast checks alone              *)
(* (SamplesAreFast).                                                       *)
(***************************************************************************)
EXTENDS RemoteEngines, TLAPS

HeldIsClaimed == kind = "pull" /\ out => InFlight

SamplesAreFast == \A i \in Ingests : ingest[i].via = "samples" => kind = "fast"

IInv == TypeOK /\ HeldIsClaimed /\ SamplesAreFast

-----------------------------------------------------------------------------

LEMMA InitInv == Init => IInv
<1> SUFFICES ASSUME Init PROVE IInv
  OBVIOUS
<1>1. Free \in Ingest /\ Free.via = "report"
  BY DEF Free, Ingest, NextRun
<1>2. 0 \in 0 .. MaxOwed /\ 0 \in 0 .. MaxLosses /\ 0 \in 0 .. MaxDeaths
  BY BoundsAssumption
<1>3. ingest \in [Ingests -> Ingest] /\ SamplesAreFast
  BY <1>1 DEF Init, SamplesAreFast
<1>4. kind \in {"pull", "fast", "driver"} /\ HeldIsClaimed
  BY DEF Init, HeldIsClaimed
<1> QED
  BY <1>2, <1>3, <1>4 DEF Init, IInv, TypeOK, NextRun

\* What a report loads is a report, and its claim a claim.
LEMMA ReportLoaded ==
    ASSUME IInv, NEW i \in Ingests, LoadReport(i)
    PROVE  /\ ingest' \in [Ingests -> Ingest] /\ SamplesAreFast'
           /\ UNCHANGED <<kind, agentFast, held, excluded, row, pull, out, deaths>>
<1>1. ingest \in [Ingests -> Ingest] /\ since \in Stamps \union {None}
  BY DEF IInv, TypeOK
<1>2. [Free EXCEPT !.stage = "loaded", !.stamp = since] \in Ingest
  BY <1>1 DEF Free, Ingest, NextRun
<1>3. [Free EXCEPT !.stage = "loaded", !.stamp = since].via = "report"
  BY DEF Free
<1>4. ingest' \in [Ingests -> Ingest] /\ kind' = kind
  BY <1>1, <1>2 DEF LoadReport, engine
<1>5. \A k \in Ingests : ingest'[k].via = ingest[k].via \/ ingest'[k].via = "report"
  BY <1>1, <1>2, <1>3 DEF LoadReport
<1>6. SamplesAreFast'
  BY <1>4, <1>5 DEF IInv, SamplesAreFast
<1> QED
  BY <1>4, <1>6 DEF LoadReport, engine

\* A report or a batch ends, or goes on with what it loaded.
LEMMA IngestGoesOn ==
    ASSUME IInv, NEW i \in Ingests, NEW s \in {"guarded", "written"},
           \/ Done(i)
           \/ ingest' = [ingest EXCEPT ![i].stage = s]
           \/ ingest' = [ingest EXCEPT ![i] = [Free EXCEPT !.stage = s]],
           kind' = kind
    PROVE  ingest' \in [Ingests -> Ingest] /\ SamplesAreFast'
<1>1. ingest \in [Ingests -> Ingest]
  BY DEF IInv, TypeOK
<1>2. /\ Free \in Ingest /\ Free.via = "report"
      /\ [Free EXCEPT !.stage = s] \in Ingest /\ [Free EXCEPT !.stage = s].via = "report"
      /\ [ingest[i] EXCEPT !.stage = s] \in Ingest
      /\ [ingest[i] EXCEPT !.stage = s].via = ingest[i].via
  BY <1>1 DEF Free, Ingest, NextRun
<1>3. ingest' \in [Ingests -> Ingest]
  BY <1>1, <1>2 DEF Done
<1>4. \A k \in Ingests : ingest'[k].via = ingest[k].via \/ ingest'[k].via = "report"
  BY <1>1, <1>2 DEF Done
<1> QED
  BY <1>3, <1>4 DEF IInv, SamplesAreFast

\* The row and who has it.
RowOK ==
    /\ skipped \in BOOLEAN /\ nextRun \in NextRun /\ since \in Stamps \union {None}
    /\ out \in BOOLEAN
    /\ HeldIsClaimed

LEMMA RowKept ==
    ASSUME TypeOK, HeldIsClaimed, UNCHANGED <<row, out>> \/ Park, kind' = kind
    PROVE  RowOK'
<1>1. CASE UNCHANGED <<row, out>>
  BY <1>1 DEF RowOK, TypeOK, HeldIsClaimed, InFlight, row
<1>2. CASE Park
  BY <1>2 DEF RowOK, HeldIsClaimed, Park, NextRun
<1> QED
  BY <1>1, <1>2

LEMMA StepInv == IInv /\ [Next]_vars => IInv'
<1> SUFFICES ASSUME IInv, [Next]_vars PROVE IInv'
  OBVIOUS
<1>a. TypeOK /\ HeldIsClaimed /\ SamplesAreFast
  BY DEF IInv
<1>1. ASSUME NEW p \in Pulls, PullRead(p) PROVE IInv'
  BY <1>1, <1>a DEF PullRead, IInv, TypeOK, HeldIsClaimed, SamplesAreFast, InFlight, engine,
     row, faults
<1>2. ASSUME NEW p \in Pulls, PullClaim(p) PROVE IInv'
  <2>1. CASE ~Wins
    BY <1>2, <2>1, <1>a DEF PullClaim, IInv, TypeOK, HeldIsClaimed, SamplesAreFast, InFlight,
       engine, faults
  <2>2. CASE Wins
    <3>1. since' \in NewStamps /\ owed < MaxOwed /\ owed' = owed + 1 /\ nextRun' = "later"
      BY <1>2, <2>2 DEF PullClaim
    <3>2. since' \in Stamps /\ since' # None
      BY <3>1, StampsAssumption DEF NewStamps
    <3>3. owed' \in 0 .. MaxOwed
      BY <3>1, <1>a, BoundsAssumption DEF TypeOK
    <3> QED
      BY <1>2, <2>2, <3>1, <3>2, <3>3, <1>a DEF PullClaim, IInv, TypeOK, HeldIsClaimed,
         SamplesAreFast, InFlight, engine, faults, NextRun
  <2> QED
    BY <2>1, <2>2
<1>3. ASSUME NEW i \in Ingests, Deliver(i) \/ DeliverAgain(i) PROVE IInv'
  <2>1. LoadReport(i)
    BY <1>3 DEF Deliver, DeliverAgain
  <2>2. owed' \in 0 .. MaxOwed /\ losses' \in 0 .. MaxLosses
    BY <1>3, <1>a, BoundsAssumption DEF Deliver, DeliverAgain, TypeOK
  <2> QED
    BY <2>1, <2>2, <1>a, ReportLoaded DEF IInv, TypeOK, HeldIsClaimed, InFlight, row
<1>4. ASSUME NEW i \in Ingests, LoadSamples(i) PROVE IInv'
  <2>1. /\ kind = "fast" /\ kind' = kind
        /\ ingest \in [Ingests -> Ingest] /\ since \in Stamps \union {None}
        /\ nextRun \in NextRun
    BY <1>4, <1>a DEF LoadSamples, TypeOK, engine
  <2>2. [stage |-> "loaded", via |-> "samples", stamp |-> since, next |-> nextRun] \in Ingest
    BY <2>1 DEF Ingest
  <2>3. ingest' \in [Ingests -> Ingest] /\ SamplesAreFast'
    BY <1>4, <2>1, <2>2 DEF LoadSamples, SamplesAreFast
  <2> QED
    BY <1>4, <2>3, <1>a DEF LoadSamples, IInv, TypeOK, HeldIsClaimed, InFlight, engine, row,
       faults
<1>5. ASSUME NEW i \in Ingests, Guard(i) PROVE IInv'
  <2>1. ingest' \in [Ingests -> Ingest] /\ SamplesAreFast' /\ kind' = kind
    BY <1>5, IngestGoesOn DEF Guard, engine
  <2>2. UNCHANGED <<row, out>> \/ Park
    BY <1>5 DEF Guard
  <2>3. RowOK'
    BY <2>1, <2>2, <1>a, RowKept DEF Guard
  <2> QED
    BY <1>5, <2>1, <2>3, <1>a DEF Guard, IInv, TypeOK, RowOK, engine, faults
<1>6. ASSUME NEW i \in Ingests, Write(i) PROVE IInv'
  <2>1. ingest' \in [Ingests -> Ingest] /\ SamplesAreFast' /\ kind' = kind
    BY <1>6, IngestGoesOn DEF Write, engine
  <2>2. since' \in Stamps \union {None} /\ nextRun' \in NextRun /\ out' \in BOOLEAN
    BY <1>6, <1>a DEF Write, TypeOK, Ingest, NextRun
  <2>3. kind = "pull" => ~out'
    BY <1>6, <1>a DEF Write, TypeOK, Ingest, SamplesAreFast
  <2> QED
    BY <1>6, <2>1, <2>2, <2>3, <1>a DEF Write, IInv, TypeOK, HeldIsClaimed, engine, faults
<1>7. ASSUME NEW i \in Ingests, Heal(i) PROVE IInv'
  <2>1. ingest' \in [Ingests -> Ingest] /\ SamplesAreFast' /\ kind' = kind
    BY <1>7, IngestGoesOn DEF Heal, engine
  <2>2. UNCHANGED <<row, out>> \/ Park
    BY <1>7 DEF Heal
  <2>3. RowOK'
    BY <2>1, <2>2, <1>a, RowKept DEF Heal
  <2> QED
    BY <1>7, <2>1, <2>3, <1>a DEF Heal, IInv, TypeOK, RowOK, engine, faults
<1>8. ASSUME NEW i \in Ingests, IngestDies(i) PROVE IInv'
  <2>1. ingest' \in [Ingests -> Ingest] /\ SamplesAreFast' /\ kind' = kind
    BY <1>8, IngestGoesOn DEF IngestDies, engine
  <2>2. deaths' \in 0 .. MaxDeaths
    BY <1>8, <1>a, BoundsAssumption DEF IngestDies, TypeOK
  <2> QED
    BY <1>8, <2>1, <2>2, <1>a DEF IngestDies, IInv, TypeOK, HeldIsClaimed, InFlight, engine,
       row
<1>9. CASE BecomesDue
  BY <1>9, <1>a DEF BecomesDue, IInv, TypeOK, HeldIsClaimed, SamplesAreFast, InFlight, engine,
     faults, NextRun
<1>10. CASE Lose \/ TickDies
  <2>1. owed' \in 0 .. MaxOwed /\ losses' \in 0 .. MaxLosses /\ deaths' \in 0 .. MaxDeaths
    BY <1>10, <1>a, BoundsAssumption DEF Lose, TickDies, TypeOK
  <2>2. UNCHANGED <<engine, excluded, row, pull, ingest, out>>
    BY <1>10 DEF Lose, TickDies
  <2> QED
    BY <2>1, <2>2, <1>a DEF IInv, TypeOK, HeldIsClaimed, SamplesAreFast, InFlight, engine, row
<1>11. CASE Reap
  <2>1. losses' \in 0 .. MaxLosses
    BY <1>11, <1>a, BoundsAssumption DEF Reap, TypeOK
  <2> QED
    BY <1>11, <2>1, <1>a DEF Reap, IInv, TypeOK, HeldIsClaimed, SamplesAreFast, engine, NextRun
<1>12. CASE Hello \/ FastWork
  <2>1. UNCHANGED <<kind, excluded, row, pull, owed, ingest, out, faults>>
    BY <1>12 DEF Hello, FastWork
  <2>2. agentFast' \in BOOLEAN /\ held' \in BOOLEAN /\ (held' => kind = "fast" /\ agentFast')
    BY <1>12, <1>a DEF Hello, FastWork, TypeOK
  <2> QED
    BY <2>1, <2>2, <1>a DEF IInv, TypeOK, HeldIsClaimed, SamplesAreFast, InFlight, row, faults
<1>13. CASE Exclude \/ Include
  <2>1. UNCHANGED <<engine, pull, owed, ingest, faults>> /\ excluded' \in BOOLEAN
    BY <1>13 DEF Exclude, Include
  <2>2. RowOK'
    <3>1. CASE Exclude
      BY <2>1, <3>1, <1>a, RowKept DEF Exclude, engine
    <3>2. CASE Include
      BY <2>1, <3>2, <1>a DEF Include, RowOK, TypeOK, HeldIsClaimed, NextRun, engine
    <3> QED
      BY <1>13, <3>1, <3>2
  <2> QED
    BY <2>1, <2>2, <1>a DEF IInv, TypeOK, RowOK, SamplesAreFast, engine, faults
<1>14. CASE UNCHANGED vars
  BY <1>14, <1>a DEF vars, IInv, TypeOK, HeldIsClaimed, SamplesAreFast, InFlight, engine, row,
     faults
<1> QED
  BY <1>1, <1>2, <1>3, <1>4, <1>5, <1>6, <1>7, <1>8, <1>9, <1>10, <1>11, <1>12, <1>13, <1>14
  DEF Next, IngestStep

\* More is owed only after a claim, and a claim is not made on one.
LEMMA StepHandsOut ==
    ASSUME IInv, [Next]_vars, kind = "pull", owed' > owed
    PROVE  ~out
<1>1. owed \in Nat
  BY BoundsAssumption DEF IInv, TypeOK
<1>2. \E p \in Pulls : PullClaim(p)
  BY <1>1 DEF Next, PullRead, Deliver, DeliverAgain, LoadSamples, IngestStep, Guard, Write,
     Heal, IngestDies, BecomesDue, Lose, TickDies, Reap, Hello, FastWork, Exclude, Include,
     vars
<1>3. ~InFlight
  BY <1>1, <1>2 DEF PullClaim, Wins
<1> QED
  BY <1>3 DEF IInv, HeldIsClaimed, TypeOK

LEMMA Invariant == Spec => []IInv
BY InitInv, StepInv, PTL DEF Spec

-----------------------------------------------------------------------------

\* Variables keep their types, and only a fast check is in an agent's set
\* (outpost_views.py, fastlane.py).
THEOREM TypeCorrect == Spec => []TypeOK
<1>1. IInv => TypeOK
  BY DEF IInv
<1> QED
  BY <1>1, Invariant, PTL

\* No Outpost is handed a check that it, or another request of it, already has:
\* for any number of overlapping requests, reports late, lost or doubled
\* (outpost_views.py:68).
THEOREM HandedOutOnceThm == Spec => HandedOutOnce
<1>1. IInv /\ [Next]_vars => [kind = "pull" /\ owed' > owed => ~out]_vars
  BY StepHandsOut
<1> QED
  BY <1>1, Invariant, PTL DEF Spec, HandedOutOnce
=============================================================================
