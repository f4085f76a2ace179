--------------------------- MODULE ConcurrencyCounter ---------------------------
(***************************************************************************)
(* The peak-concurrency counter of internal/concurrencytracker/counter.go *)
(* as used by trustydns-server: every serveDoH goroutine calls Add() on   *)
(* entry and Done() on exit (server.go:142-143), and the status reporter  *)
(* calls Peak(resetCounters) from its own goroutine (part_004:107).  All  *)
(* three methods hold the counter's mutex, so each is one atomic step.    *)
(*                                                                         *)
(* periodMax is an auxiliary variable (not in the code): the highest      *)
(* concurrency actually reached since the last resetting Peak() call, the *)
(* quantity the report claims to give.                                    *)
(***************************************************************************)
EXTENDS Naturals, FiniteSets

CONSTANTS Handlers      \* the serveDoH goroutines, model values

VARIABLES current,      \* Counter.current
          peak,         \* Counter.peak
          inside,       \* handlers between Add() and their deferred Done()
          reported,     \* the value the last Peak() call returned
          periodMax     \* auxiliary: max of current since the last reset

vars == <<current, peak, inside, reported, periodMax>>

TypeOK ==
    /\ current \in 0..Cardinality(Handlers)
    /\ peak \in 0..Cardinality(Handlers)
    /\ inside \subseteq Handlers
    /\ reported \in 0..Cardinality(Handlers)
    /\ periodMax \in 0..Cardinality(Handlers)

\* The zero value of Counter: both fields 0.
Init ==
    /\ current = 0
    /\ peak = 0
    /\ inside = {}
    /\ reported = 0
    /\ periodMax = 0

\* Add(): current++, and the peak follows it upwards.
Add(h) ==
    /\ h \notin inside
    /\ inside' = inside \cup {h}
    /\ current' = current + 1
    /\ peak' = IF current + 1 > peak THEN current + 1 ELSE peak
    /\ periodMax' = IF current + 1 > periodMax THEN current + 1 ELSE periodMax
    /\ UNCHANGED reported

\* Done(): panics when current is 0 (the guard current > 0 is that panic's
\* absence; handlers only call Done() after their own Add()).
Done(h) ==
    /\ h \in inside
    /\ current > 0
    /\ inside' = inside \ {h}
    /\ current' = current - 1
    /\ UNCHANGED <<peak, reported, periodMax>>

\* Mutant: Peak(true) lowers the peak to zero instead of to current.
PeakResetsToZero(resetCounters) ==
    /\ reported' = peak
    /\ peak' = IF resetCounters THEN 0 ELSE peak
    /\ periodMax' = IF resetCounters THEN current ELSE periodMax
    /\ UNCHANGED <<current, inside>>

\* Mutant: Peak(true) also resets current, as its comment says it must not.
PeakResetsCurrent(resetCounters) ==
    /\ reported' = peak
    /\ peak' = IF resetCounters THEN 0 ELSE peak
    /\ current' = IF resetCounters THEN 0 ELSE current
    /\ periodMax' = IF resetCounters THEN 0 ELSE periodMax
    /\ UNCHANGED inside

\* Peak(resetCounters): return peak, then optionally lower it to current.
Peak(resetCounters) ==
    /\ reported' = peak
    /\ peak' = IF resetCounters THEN current ELSE peak
    /\ periodMax' = IF resetCounters THEN current ELSE periodMax
    /\ UNCHANGED <<current, inside>>

Next ==
    \/ \E h \in Handlers : Add(h) \/ Done(h)
    \/ \E r \in BOOLEAN : Peak(r)

Spec == Init /\ [][Next]_vars

-----------------------------------------------------------------------------
(***************************************************************************)
(* Properties                                                              *)
(***************************************************************************)

\* The status report never under-states concurrency: whatever interleaving
\* of handler Add()/Done() calls and resetting Peak() calls occurred, the
\* value a Peak() call returns is at least the highest number of
\* simultaneous serveDoH requests since the previous resetting report, and
\* at least the number running at the moment of the report.
ReportCoversPeriod ==
    [][\A r \in BOOLEAN :
          Peak(r) => reported' >= periodMax /\ reported' >= current]_vars

\* Done() never panics: no interleaving of handlers and the reporter brings
\* current to 0 while some handler still owes its deferred Done().
CurrentCountsHandlers == current = Cardinality(inside)
=============================================================================
