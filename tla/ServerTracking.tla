----------------------------- MODULE ServerTracking -----------------------------
(***************************************************************************)
(* The two trackers of a trustydns-server listener as the server drives   *)
(* them (cmd/trustydns-server/server.go:112-147, main.go:209-210).        *)
(*                                                                         *)
(*  - net/http calls connTrk.ConnState on each connection's state changes: *)
(*    New, then Active/Idle any number of times, then Closed.  Over        *)
(*    HTTP/2 a request handler runs in its own goroutine and the           *)
(*    connection may close while handlers are still running.               *)
(*  - each request is a serveDoH goroutine: ccTrk.Add(), connTrk.          *)
(*    SessionAdd(), the request, then the deferred calls in LIFO order:    *)
(*    connTrk.SessionDone(), ccTrk.Done().                                 *)
(*  - the status reporter's statusReport walks its reporters in order:     *)
(*    the server (whose Report calls ccTrk.Peak) then connTrk.Report.      *)
(*                                                                         *)
(* A key names one connection: remote address:port reuse is left out.     *)
(***************************************************************************)
EXTENDS Naturals, FiniteSets, ConnectionTracker

CONSTANTS Handlers      \* serveDoH goroutines, model values

VARIABLES current, peak, inside, reported, periodMax,  \* ccTrk (ConcurrencyCounter)
          net,          \* net[k]: net/http's state of connection k
          hpc,          \* hpc[h]: where serveDoH goroutine h is
          hkey,         \* hkey[h]: httpReq.RemoteAddr of h's request
          rpc,          \* the reporter's next call: "server" or "conn"
          rreset        \* the resetCounters of the statusReport in progress

CC == INSTANCE ConcurrencyCounter

NoKey == "none"
Open == {"new", "active", "idle"}

ccvars == <<current, peak, inside, reported, periodMax>>
envvars == <<net, hpc, hkey, rpc, rreset>>
vars == <<tvars, ccvars, envvars>>

TypeOK ==
    /\ CC!TypeOK
    /\ connMap \subseteq Keys
    /\ cur \in [Keys -> 0..Cardinality(Handlers)]
    /\ cpk \in [Keys -> 0..Cardinality(Handlers)]
    /\ peakConns \in 0..Cardinality(Keys) /\ peakSessions \in 0..Cardinality(Handlers)
    /\ errors \in [ErrIx -> Nat]
    /\ net \in [Keys -> Open \cup {"none", "closed"}]
    /\ hpc \in [Handlers -> {"idle", "counted", "session", "released", "finished"}]
    /\ hkey \in [Handlers -> Keys \cup {NoKey}]
    /\ rpc \in {"server", "conn"} /\ rreset \in BOOLEAN

Init ==
    /\ TInit /\ CC!Init
    /\ net = [k \in Keys |-> "none"]
    /\ hpc = [h \in Handlers |-> "idle"] /\ hkey = [h \in Handlers |-> NoKey]
    /\ rpc = "server" /\ rreset = FALSE

-----------------------------------------------------------------------------
(* net/http's ConnState callback                                          *)

NetNew(k) ==
    /\ net[k] = "none" /\ net' = [net EXCEPT ![k] = "new"]
    /\ ConnStateNew(k)
    /\ UNCHANGED <<ccvars, hpc, hkey, rpc, rreset>>

NetActiveIdle(k, s) ==
    /\ net[k] \in Open /\ net' = [net EXCEPT ![k] = s]
    /\ ConnStateActiveIdle(k)
    /\ UNCHANGED <<ccvars, hpc, hkey, rpc, rreset>>

NetClose(k) ==
    /\ net[k] \in Open /\ net' = [net EXCEPT ![k] = "closed"]
    /\ ConnStateClosed(k)
    /\ UNCHANGED <<ccvars, hpc, hkey, rpc, rreset>>

-----------------------------------------------------------------------------
(* serveDoH (server.go:139-147), one step per tracker call                 *)

\* A request arrives on an active connection; t.ccTrk.Add().
Arrive(h, k) ==
    /\ hpc[h] = "idle" /\ net[k] = "active"
    /\ hkey' = [hkey EXCEPT ![h] = k] /\ hpc' = [hpc EXCEPT ![h] = "counted"]
    /\ CC!Add(h)
    /\ UNCHANGED <<tvars, net, rpc, rreset>>

\* t.connTrk.SessionAdd(httpReq.RemoteAddr); the result is ignored.
StartSession(h) ==
    /\ hpc[h] = "counted" /\ hpc' = [hpc EXCEPT ![h] = "session"]
    /\ SessionAdd(hkey[h])
    /\ UNCHANGED <<ccvars, net, hkey, rpc, rreset>>

\* The deferred t.connTrk.SessionDone(), the first defer to run.
EndSession(h) ==
    /\ hpc[h] = "session" /\ hpc' = [hpc EXCEPT ![h] = "released"]
    /\ SessionDone(hkey[h])
    /\ UNCHANGED <<ccvars, net, hkey, rpc, rreset>>

\* The deferred t.ccTrk.Done().
Finish(h) ==
    /\ hpc[h] = "released" /\ hpc' = [hpc EXCEPT ![h] = "finished"]
    /\ CC!Done(h)
    /\ UNCHANGED <<tvars, net, hkey, rpc, rreset>>

-----------------------------------------------------------------------------
(* statusReport (main.go:315): the server's Report, then connTrk's         *)

ReportServer(r) ==
    /\ rpc = "server" /\ rpc' = "conn" /\ rreset' = r
    /\ CC!Peak(r)
    /\ UNCHANGED <<tvars, net, hpc, hkey>>

ReportConn ==
    /\ rpc = "conn" /\ rpc' = "server"
    /\ Report(rreset)
    /\ UNCHANGED <<ccvars, net, hpc, hkey, rreset>>

Next ==
    \/ \E k \in Keys : \/ NetNew(k) \/ NetClose(k)
                       \/ \E s \in {"active", "idle"} : NetActiveIdle(k, s)
    \/ \E h \in Handlers : \/ \E k \in Keys : Arrive(h, k)
                           \/ StartSession(h) \/ EndSession(h) \/ Finish(h)
    \/ \E r \in BOOLEAN : ReportServer(r)
    \/ ReportConn

Spec == Init /\ [][Next]_vars

-----------------------------------------------------------------------------
(***************************************************************************)
(* Properties                                                              *)
(***************************************************************************)

\* ccTrk.Done() never panics: whatever the interleaving of requests and
\* reports, current counts exactly the serveDoH goroutines still owing it.
CurrentCountsHandlers == CC!CurrentCountsHandlers

\* A server report's Concurrency figure is at least the highest number of
\* simultaneous serveDoH goroutines since the previous resetting report,
\* and at least the number running when it is made.
ReportCoversPeriod ==
    [][\A r \in BOOLEAN :
          ReportServer(r) => reported' >= periodMax /\ reported' >= current]_vars

\* Each tracked connection's session count is the number of requests on it
\* between SessionAdd and SessionDone, even when net/http closes the
\* connection under running handlers and their calls then find no entry.
SessionsMatchHandlers ==
    \A k \in connMap :
        cur[k] = Cardinality({h \in Handlers : hpc[h] = "session" /\ hkey[h] = k})

\* The tracker holds exactly the connections net/http has open: a close
\* with sessions still running (ConnsLost) removes the connection too.
TrackedIffOpen == connMap = {k \in Keys : net[k] \in Open}
=============================================================================
