------------------------------ MODULE ServerDaemon ------------------------------
(***************************************************************************)
(* trustydns-server's main go-routine driving one listener and its        *)
(* trackers (cmd/trustydns-server/main.go:190-284, server.go:102-126,      *)
(* 480-488), composed with ServerTracking.                                 *)
(*                                                                         *)
(*  - start(): wg.Add(1) and a go-routine that sends ListenAndServe's      *)
(*    result on errorChannel, then calls wg.Done().  ListenAndServe        *)
(*    returns a start-up error, or ErrServerClosed once Shutdown is called.*)
(*  - a go-routine sleeps 3s, calls osutil.Constrain and, if it fails,     *)
(*    sends the error on the same errorChannel.                            *)
(*  - errorChannel is buffered with one slot per listen address.           *)
(*  - the Running loop selects: a USR1 signal gives statusReport("User1",  *)
(*    false); any other signal leaves the loop; an error from errorChannel *)
(*    returns fatal at once; the status timer gives statusReport("Status", *)
(*    true) when verbose.                                                  *)
(*  - leaving the loop: s.stop() (http.Server.Shutdown, which closes the   *)
(*    listener and returns once every connection is closed), wg.Wait(),    *)
(*    then a last resetting statusReport when verbose.                     *)
(*                                                                         *)
(* When main returns, the process exits and every go-routine with it.      *)
(***************************************************************************)
EXTENDS ServerTracking

CONSTANTS Verbose,           \* cfg.verbose
          ConstrainMayFail   \* -u/-g/-t given, and Constrain can fail

VARIABLES mpc,    \* where the main go-routine is
          errq,   \* errors buffered in errorChannel
          lpc,    \* the listener go-routine: "serving", "send" or "done"
          cpc     \* the Constrain go-routine: "sleep", "send" or "done"

ErrCap == 1       \* make(chan error, cfg.listenAddresses.NArg()), one address
Reporting == {"user1", "status", "final"}
mvars == <<mpc, errq, lpc, cpc>>
dvars == <<vars, mvars>>

DaemonTypeOK ==
    /\ TypeOK
    /\ mpc \in {"running", "stopping", "waiting", "exited", "fatal"} \cup Reporting
    /\ errq \in 0..ErrCap
    /\ lpc \in {"serving", "send", "done"} /\ cpc \in {"sleep", "send", "done"}

DaemonInit ==
    /\ Init
    /\ mpc = "running" /\ errq = 0 /\ lpc = "serving" /\ cpc = "sleep"

Alive == mpc \notin {"exited", "fatal"}
InLoop == mpc \in {"running", "user1", "status"}
\* The listener accepts connections and requests until Shutdown closes it.
Listening == lpc = "serving" /\ InLoop

-----------------------------------------------------------------------------
(* The listener and Constrain go-routines                                  *)

\* ListenAndServe fails to start: nothing has connected yet.
ListenFail ==
    /\ Listening /\ \A k \in Keys : net[k] = "none"
    /\ lpc' = "send"
    /\ UNCHANGED <<vars, mpc, errq, cpc>>

\* Shutdown has closed the listener: ListenAndServe returns ErrServerClosed.
ListenClosed ==
    /\ lpc = "serving" /\ ~InLoop
    /\ lpc' = "send"
    /\ UNCHANGED <<vars, mpc, errq, cpc>>

\* errorChan <- ...; wg.Done().  The send blocks while the buffer is full.
ListenSend ==
    /\ lpc = "send" /\ errq < ErrCap
    /\ errq' = errq + 1 /\ lpc' = "done"
    /\ UNCHANGED <<vars, mpc, cpc>>

\* time.Sleep(3s); osutil.Constrain(...): nil, or an error to send.
Constrain ==
    /\ cpc = "sleep"
    /\ cpc' \in IF ConstrainMayFail THEN {"done", "send"} ELSE {"done"}
    /\ UNCHANGED <<vars, mpc, errq, lpc>>

ConstrainSend ==
    /\ cpc = "send" /\ errq < ErrCap
    /\ errq' = errq + 1 /\ cpc' = "done"
    /\ UNCHANGED <<vars, mpc, lpc>>

-----------------------------------------------------------------------------
(* The main go-routine                                                     *)

\* case s := <-stopChannel: USR1 reports without resetting counters.
User1 ==
    /\ mpc = "running" /\ mpc' = "user1"
    /\ UNCHANGED <<vars, errq, lpc, cpc>>

\* case <-time.After(nextStatusIn): a resetting report when verbose.
StatusTimer ==
    /\ mpc = "running" /\ Verbose /\ mpc' = "status"
    /\ UNCHANGED <<vars, errq, lpc, cpc>>

\* Any other signal: break Running, then s.stop() calls Shutdown, which
\* closes the listener at once.
StopSignal ==
    /\ mpc = "running" /\ mpc' = "stopping"
    /\ UNCHANGED <<vars, errq, lpc, cpc>>

\* case err := <-errorChannel: return fatal(err), no cleanup.
Fatal ==
    /\ mpc = "running" /\ errq > 0
    /\ mpc' = "fatal" /\ errq' = errq - 1
    /\ UNCHANGED <<vars, lpc, cpc>>

\* Shutdown returns once net/http has no connection left open.
ShutdownDone ==
    /\ mpc = "stopping" /\ \A k \in Keys : net[k] \notin Open
    /\ mpc' = "waiting"
    /\ UNCHANGED <<vars, errq, lpc, cpc>>

\* wg.Wait() returns once the listener go-routine has called wg.Done().
WaitDone ==
    /\ mpc = "waiting" /\ lpc = "done"
    /\ mpc' = IF Verbose THEN "final" ELSE "exited"
    /\ UNCHANGED <<vars, errq, lpc, cpc>>

\* statusReport's calls: the server's Report, then connTrk's.
DaemonReportServer ==
    /\ mpc \in Reporting
    /\ \E r \in BOOLEAN : r = (mpc # "user1") /\ ReportServer(r)
    /\ UNCHANGED <<mpc, errq, lpc, cpc>>

DaemonReportConn ==
    /\ mpc \in Reporting /\ ReportConn
    /\ mpc' = IF mpc = "final" THEN "exited" ELSE "running"
    /\ UNCHANGED <<errq, lpc, cpc>>

-----------------------------------------------------------------------------
(* net/http under the main loop: connections and requests arrive only while *)
(* the listener is open; after Shutdown, idle connections are closed and    *)
(* an active one finishes its request.                                      *)

ShutdownCloseIdle(k) ==
    /\ mpc = "stopping" /\ net[k] \in {"new", "idle"}
    /\ NetClose(k) /\ UNCHANGED <<mpc, errq, lpc, cpc>>

TrackerStep ==
    \/ \E k \in Keys : \/ Listening /\ NetNew(k)
                       \/ NetClose(k)
                       \/ NetActiveIdle(k, "idle")
                       \/ Listening /\ NetActiveIdle(k, "active")
    \/ \E h \in Handlers : \/ \E k \in Keys : Arrive(h, k)
                           \/ StartSession(h) \/ EndSession(h) \/ Finish(h)

DaemonNext ==
    /\ Alive
    /\ \/ TrackerStep /\ UNCHANGED <<mpc, errq, lpc, cpc>>
       \/ \E k \in Keys : ShutdownCloseIdle(k)
       \/ ListenFail \/ ListenClosed \/ ListenSend
       \/ Constrain \/ ConstrainSend
       \/ User1 \/ StatusTimer \/ StopSignal \/ Fatal
       \/ ShutdownDone \/ WaitDone
       \/ DaemonReportServer \/ DaemonReportConn

\* Every go-routine that can run eventually does, and net/http eventually
\* finishes a connection's request.  Signals and the timer get no fairness.
DaemonFairness ==
    /\ \A h \in Handlers : WF_dvars((StartSession(h) \/ EndSession(h) \/ Finish(h))
                                      /\ UNCHANGED <<mpc, errq, lpc, cpc>>)
    /\ \A k \in Keys : WF_dvars(ShutdownCloseIdle(k))
                     /\ WF_dvars(NetActiveIdle(k, "idle") /\ UNCHANGED <<mpc, errq, lpc, cpc>>)
    /\ WF_dvars(ListenClosed) /\ WF_dvars(ListenSend)
    /\ WF_dvars(Constrain) /\ WF_dvars(ConstrainSend)
    /\ WF_dvars(ShutdownDone) /\ WF_dvars(WaitDone)
    /\ WF_dvars(DaemonReportServer) /\ WF_dvars(DaemonReportConn)

DaemonSpec == DaemonInit /\ [][DaemonNext]_dvars /\ DaemonFairness

-----------------------------------------------------------------------------
(***************************************************************************)
(* Properties                                                              *)
(***************************************************************************)

\* A terminating signal makes the process exit: once main leaves the
\* Running loop, Shutdown, wg.Wait() and the last report all complete.
StopLeadsToExit == mpc = "stopping" ~> mpc = "exited"
=============================================================================
