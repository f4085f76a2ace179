--------------------------- MODULE ConnectionTracker ---------------------------
(***************************************************************************)
(* The per-listener connection tracker of trustydns-server                 *)
(* (internal/connectiontracker/tracker.go and its reporter, part_020).     *)
(* net/http calls ConnState on every connection state change, each        *)
(* serveDoH goroutine calls SessionAdd on entry and SessionDone on exit,  *)
(* and the status reporter calls Report.  Every method holds t.mu, so     *)
(* each is one atomic step.                                               *)
(*                                                                         *)
(* Durations (connFor, activeFor, activeStart) are left out: they feed    *)
(* only the report's timing figures, so StateActive and StateIdle change  *)
(* nothing the model keeps.  The actions take the key the caller passes;  *)
(* who calls them, and when, is the environment's business (see           *)
(* ServerTracking).                                                       *)
(***************************************************************************)
EXTENDS Naturals, FiniteSets, Functions

CONSTANTS Keys          \* connection keys (remote address:port), model values

\* The errIx buckets of tracker.go:57-65.
ErrIx == {"NoConnInMap", "NoConnForSession", "DanglingConn",
          "NegativeConcurrency", "ConnsLost", "UnknownState"}

NoErrors == [e \in ErrIx |-> 0]

VARIABLES connMap,      \* DOMAIN of t.connMap: the keys with a *connection
          cur,          \* cur[k]: connMap[k].currentSessions
          cpk,          \* cpk[k]: connMap[k].peakSessions
          peakConns,    \* t.peakConns
          peakSessions, \* t.peakSessions
          errors,       \* t.errors
          rep           \* the figures of the last Report() string

tvars == <<connMap, cur, cpk, peakConns, peakSessions, errors, rep>>

Bump(e) == errors' = [errors EXCEPT ![e] = @ + 1]

\* New(): an empty map and zero stats; no report made yet.
TInit ==
    /\ connMap = {}
    /\ cur = [k \in Keys |-> 0] /\ cpk = [k \in Keys |-> 0]
    /\ peakConns = 0 /\ peakSessions = 0
    /\ errors = NoErrors
    /\ rep = [curr |-> 0, pk |-> 0, sess |-> 0, errs |-> 0]

\* Mutant: the connection peak accumulates the map size instead of taking
\* its maximum.
ConnStateNewSumsPeak(k) ==
    /\ connMap' = connMap \cup {k}
    /\ cur' = [cur EXCEPT ![k] = 0] /\ cpk' = [cpk EXCEPT ![k] = 0]
    /\ IF k \in connMap THEN Bump("DanglingConn") ELSE UNCHANGED errors
    /\ peakConns' = peakConns + Cardinality(connMap')
    /\ UNCHANGED <<peakSessions, rep>>

\* ConnState(key, StateNew): a fresh *connection replaces any dangling one.
ConnStateNew(k) ==
    /\ connMap' = connMap \cup {k}
    /\ cur' = [cur EXCEPT ![k] = 0] /\ cpk' = [cpk EXCEPT ![k] = 0]
    /\ IF k \in connMap THEN Bump("DanglingConn") ELSE UNCHANGED errors
    /\ peakConns' = IF Cardinality(connMap') > peakConns
                    THEN Cardinality(connMap') ELSE peakConns
    /\ UNCHANGED <<peakSessions, rep>>

\* ConnState(key, StateActive | StateIdle): only durations change, unless
\* the key is unknown.
ConnStateActiveIdle(k) ==
    /\ IF k \in connMap THEN UNCHANGED errors ELSE Bump("NoConnInMap")
    /\ UNCHANGED <<connMap, cur, cpk, peakConns, peakSessions, rep>>

\* Mutant: a connection that still has sessions is left in the map.
ConnStateClosedKeepsBusy(k) ==
    /\ IF k \notin connMap THEN /\ Bump("NoConnInMap")
                                /\ UNCHANGED <<connMap, peakSessions>>
       ELSE IF cur[k] > 0 THEN /\ Bump("ConnsLost")
                               /\ UNCHANGED <<connMap, peakSessions>>
       ELSE /\ connMap' = connMap \ {k}
            /\ peakSessions' = IF cpk[k] > peakSessions THEN cpk[k] ELSE peakSessions
            /\ UNCHANGED errors
    /\ UNCHANGED <<cur, cpk, peakConns, rep>>

\* ConnState(key, StateHijacked | StateClosed): the connection is deleted,
\* then a connection with sessions still open counts as ConnsLost and its
\* session peak is not folded into the tracker's.
ConnStateClosed(k) ==
    /\ IF k \notin connMap THEN /\ Bump("NoConnInMap")
                                /\ UNCHANGED <<connMap, peakSessions>>
       ELSE /\ connMap' = connMap \ {k}
            /\ IF cur[k] > 0
               THEN Bump("ConnsLost") /\ UNCHANGED peakSessions
               ELSE /\ peakSessions' = IF cpk[k] > peakSessions
                                       THEN cpk[k] ELSE peakSessions
                    /\ UNCHANGED errors
    /\ UNCHANGED <<cur, cpk, peakConns, rep>>

\* SessionAdd(key).
SessionAdd(k) ==
    /\ IF k \notin connMap
       THEN Bump("NoConnForSession") /\ UNCHANGED <<cur, cpk>>
       ELSE /\ cur' = [cur EXCEPT ![k] = @ + 1]
            /\ cpk' = [cpk EXCEPT ![k] = IF cur[k] + 1 > @ THEN cur[k] + 1 ELSE @]
            /\ UNCHANGED errors
    /\ UNCHANGED <<connMap, peakConns, peakSessions, rep>>

\* Mutant: the guard against a negative count is off by one.
SessionDoneOffByOne(k) ==
    /\ IF k \notin connMap THEN Bump("NoConnForSession") /\ UNCHANGED cur
       ELSE IF cur[k] <= 1 THEN Bump("NegativeConcurrency") /\ UNCHANGED cur
       ELSE cur' = [cur EXCEPT ![k] = @ - 1] /\ UNCHANGED errors
    /\ UNCHANGED <<connMap, cpk, peakConns, peakSessions, rep>>

\* SessionDone(key): undoes SessionAdd, refusing to go below zero.
SessionDone(k) ==
    /\ IF k \notin connMap THEN Bump("NoConnForSession") /\ UNCHANGED cur
       ELSE IF cur[k] <= 0 THEN Bump("NegativeConcurrency") /\ UNCHANGED cur
       ELSE cur' = [cur EXCEPT ![k] = @ - 1] /\ UNCHANGED errors
    /\ UNCHANGED <<connMap, cpk, peakConns, peakSessions, rep>>

\* Report(resetCounters): the figures of the report string, then (on reset)
\* zero trackerStats; connection.resetCounters() is empty, so the
\* per-connection session peaks survive the reset.
Report(resetCounters) ==
    /\ rep' = [curr |-> Cardinality(connMap), pk |-> peakConns,
               sess |-> peakSessions, errs |-> FoldFunction(LAMBDA a, b : a + b, 0, errors)]
    /\ IF resetCounters
       THEN peakConns' = 0 /\ peakSessions' = 0 /\ errors' = NoErrors
       ELSE UNCHANGED <<peakConns, peakSessions, errors>>
    /\ UNCHANGED <<connMap, cur, cpk>>
=============================================================================
