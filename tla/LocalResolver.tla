------------------------------ MODULE LocalResolver ------------------------------
(***************************************************************************)
(* The local resolver (internal/resolver/local: local.Resolve and New in  *)
(* reporter_test.go, its statistics in reporter.go) over the traditional  *)
(* bestserver manager, with several goroutines resolving at once:         *)
(* trustydns-server's serveDoH and trustydns-proxy's ServeDNS call Resolve *)
(* from a goroutine per request, all sharing one manager and one set of   *)
(* counters, while the status reporter calls Report.                      *)
(*                                                                         *)
(* Each attempt is Best(), a UDP exchange, a TCP re-exchange when the UDP *)
(* reply is truncated NoError, then Result() and addServerSuccess/Failure *)
(* and the decision to iterate; the closing addGeneralSuccess/Failure     *)
(* takes t.mu again, so a report can fall between the two.  Replies are   *)
(* their RCODE; RTTs are small integers in seconds, 0 standing for an     *)
(* exchange well below one.  Latencies, which feed only the report's      *)
(* averages, and the response metadata are left out.                      *)
(***************************************************************************)
EXTENDS Integers, FiniteSets, Functions, BestServerTraditional

CONSTANTS Clients,      \* resolving goroutines, model values
          Attempts,     \* resolverConfig.Attempts (at least 1 after loadResolvConf)
          Timeout,      \* resolverConfig.Timeout, seconds
          RTTs,         \* round-trip times an exchange may take
          Rcodes        \* RCODEs a name server may answer with

\* Outcome of an exchange: a transport error or a reply with an RCODE.
Outcomes == Rcodes \cup {"err"}

\* The gfx, sfx and evx indices of the counter arrays.
Gfx == {"Timeout", "MaxAttempts"}
Sfx == {"ExchangeError", "FormatError", "ServerFail", "Refused", "NotImplemented", "Other"}
Evx == {"TCPFallback", "TCPSuperior"}
NoSfx == "none"         \* sfx = -1: nothing worth a failure counter

Servers == 0..NumServers - 1

\* The switch of Resolve: Result()'s success, the failure counter, and
\* whether the loop goes on to another attempt.
Classify(o) ==
    CASE o = "err"      -> [success |-> FALSE, sfx |-> "ExchangeError",  iterate |-> TRUE]
      [] o = "NOERROR"  -> [success |-> TRUE,  sfx |-> NoSfx,            iterate |-> FALSE]
      [] o = "FORMERR"  -> [success |-> TRUE,  sfx |-> "FormatError",    iterate |-> FALSE]
      [] o = "SERVFAIL" -> [success |-> FALSE, sfx |-> "ServerFail",     iterate |-> TRUE]
      [] o = "NXDOMAIN" -> [success |-> TRUE,  sfx |-> NoSfx,            iterate |-> FALSE]
      [] o = "REFUSED"  -> [success |-> FALSE, sfx |-> "Refused",        iterate |-> TRUE]
      [] o = "NOTIMP"   -> [success |-> TRUE,  sfx |-> "NotImplemented", iterate |-> TRUE]
      [] OTHER          -> [success |-> TRUE,  sfx |-> "Other",          iterate |-> FALSE]

\* maxAttempts: no more attempts than there are servers.
MaxAttempts == IF Attempts > NumServers THEN NumServers ELSE Attempts

Done == {"answered", "timeout", "exceeded"}
Held == {"udp", "tcp", "result"}

\* bestServerStats{} and resolverStats{}: all counters zero.
ZeroServerStats == [success |-> 0, failures |-> [x \in Sfx |-> 0], events |-> [x \in Evx |-> 0]]
ZeroGeneral == [success |-> 0, failures |-> [x \in Gfx |-> 0]]

VARIABLES pc,           \* pc[c]: where goroutine c is in Resolve
          srv,          \* srv[c]: bsix, the index Best() returned
          tries,        \* tries[c]: attempts made
          rtt,          \* rtt[c]: timeUsed plus the attempt's rtt
          out,          \* out[c]: outcome of the attempt
          fb,           \* fb[c]: tcpFallback
          sup,          \* sup[c]: tcpSuperior
          gen,          \* t.resolverStats (without totalLatency)
          bss,          \* bss[i]: t.bsList[i].bestServerStats (without latency)
          banked        \* sum of the req figures of all resetting Reports

vars == <<bestIndex, pc, srv, tries, rtt, out, fb, sup, gen, bss, banked>>

Sum(f) == FoldFunction(LAMBDA a, b : a + b, 0, f)

\* The Totals req figure and the sum of the Server req figures.
TotalsReq == gen.success + Sum(gen.failures)
ServersReq == Sum([i \in Servers |-> bss[i].success + Sum(bss[i].failures)])

TypeOK ==
    /\ bestIndex \in Servers
    /\ pc \in [Clients -> {"best", "answering", "timingout"} \cup Held \cup Done]
    /\ srv \in [Clients -> Servers]
    /\ tries \in [Clients -> 0..MaxAttempts]
    /\ rtt \in [Clients -> Nat]
    /\ out \in [Clients -> Outcomes \cup {"none"}]
    /\ fb \in [Clients -> BOOLEAN] /\ sup \in [Clients -> BOOLEAN]
    /\ gen \in [success : Nat, failures : [Gfx -> Nat]]
    /\ bss \in [Servers -> [success : Nat, failures : [Sfx -> Nat], events : [Evx -> Nat]]]
    /\ banked \in [req : Nat, sreq : Nat]

\* New(): one bestServer with zero counters per name server.
Init ==
    /\ TradInit
    /\ pc = [c \in Clients |-> "best"]
    /\ srv = [c \in Clients |-> 0] /\ tries = [c \in Clients |-> 0]
    /\ rtt = [c \in Clients |-> 0] /\ out = [c \in Clients |-> "none"]
    /\ fb = [c \in Clients |-> FALSE] /\ sup = [c \in Clients |-> FALSE]
    /\ gen = ZeroGeneral /\ bss = [i \in Servers |-> ZeroServerStats]
    /\ banked = [req |-> 0, sreq |-> 0]

statvars == <<gen, bss, banked>>

\* addGeneralSuccess() and addGeneralFailure(gfx), each under t.mu.
AddGeneralSuccess == gen' = [gen EXCEPT !.success = @ + 1]
AddGeneralFailure(gfx) == gen' = [gen EXCEPT !.failures[gfx] = @ + 1]

\* Mutant: one attempt too many.
PickOneTooMany(c) ==
    /\ pc[c] = "best" /\ tries[c] <= MaxAttempts
    /\ srv' = [srv EXCEPT ![c] = bestIndex]
    /\ tries' = [tries EXCEPT ![c] = @ + 1]
    /\ pc' = [pc EXCEPT ![c] = "udp"]
    /\ UNCHANGED <<bestIndex, rtt, out, fb, sup, statvars>>

\* server, bsix := t.bestServer.Best(): the start of an attempt.
Pick(c) ==
    /\ pc[c] = "best" /\ tries[c] < MaxAttempts
    /\ srv' = [srv EXCEPT ![c] = bestIndex]
    /\ tries' = [tries EXCEPT ![c] = @ + 1]
    /\ pc' = [pc EXCEPT ![c] = "udp"]
    /\ UNCHANGED <<bestIndex, rtt, out, fb, sup, statvars>>

\* Attempts exhausted: addGeneralFailure(gfxMaxAttempts), "Query attempts
\* exceeded".
GiveUp(c) ==
    /\ pc[c] = "best" /\ tries[c] >= MaxAttempts
    /\ AddGeneralFailure("MaxAttempts")
    /\ pc' = [pc EXCEPT ![c] = "exceeded"]
    /\ UNCHANGED <<bestIndex, srv, tries, rtt, out, fb, sup, bss, banked>>

\* The UDP exchange; a truncated NoError reply goes on to TCP.
ExchangeUDP(c, o, tc, d) ==
    /\ pc[c] = "udp"
    /\ out' = [out EXCEPT ![c] = o]
    /\ rtt' = [rtt EXCEPT ![c] = @ + d]
    /\ fb' = [fb EXCEPT ![c] = tc /\ o = "NOERROR"]
    /\ sup' = [sup EXCEPT ![c] = FALSE]
    /\ pc' = [pc EXCEPT ![c] = IF tc /\ o = "NOERROR" THEN "tcp" ELSE "result"]
    /\ UNCHANGED <<bestIndex, srv, tries, statvars>>

\* The TCP re-exchange with the same server: its reply replaces the UDP
\* one only if it is NoError (tcpSuperior), otherwise the truncated UDP
\* reply (NoError) is kept, so the outcome stays NoError either way.
ExchangeTCP(c, ok, d) ==
    /\ pc[c] = "tcp"
    /\ rtt' = [rtt EXCEPT ![c] = @ + d]
    /\ sup' = [sup EXCEPT ![c] = ok]
    /\ pc' = [pc EXCEPT ![c] = "result"]
    /\ UNCHANGED <<bestIndex, srv, tries, out, fb, statvars>>

\* addServerSuccess / addServerFailure on bsList[bsix], with the events.
AddServerStats(ix, sfx, tcpFallback, tcpSuperior) ==
    bss' = [bss EXCEPT
              ![ix].success = IF sfx = NoSfx THEN @ + 1 ELSE @,
              ![ix].failures = IF sfx = NoSfx THEN @ ELSE [@ EXCEPT ![sfx] = @ + 1],
              ![ix].events = [@ EXCEPT
                                !["TCPFallback"] = IF tcpFallback THEN @ + 1 ELSE @,
                                !["TCPSuperior"] = IF tcpSuperior THEN @ + 1 ELSE @]]

\* t.bestServer.Result(server, bsSuccess, ...), the server counters, then
\* return the reply, give up on the timeout, or go round again.
Feedback(c) ==
    LET cls == Classify(out[c]) IN
    /\ pc[c] = "result"
    /\ Result(srv[c], cls.success)
    /\ AddServerStats(srv[c], cls.sfx, fb[c], sup[c])
    /\ pc' = [pc EXCEPT ![c] = IF ~cls.iterate THEN "answering"
                               ELSE IF rtt[c] > Timeout THEN "timingout"
                               ELSE "best"]
    /\ UNCHANGED <<srv, tries, rtt, out, fb, sup, gen, banked>>

\* addGeneralSuccess() before returning the reply, addGeneralFailure(
\* gfxTimeout) before returning "Query timeout".
General(c) ==
    /\ pc[c] \in {"answering", "timingout"}
    /\ IF pc[c] = "answering" THEN AddGeneralSuccess ELSE AddGeneralFailure("Timeout")
    /\ pc' = [pc EXCEPT ![c] = IF pc[c] = "answering" THEN "answered" ELSE "timeout"]
    /\ UNCHANGED <<bestIndex, srv, tries, rtt, out, fb, sup, bss, banked>>

\* Mutant: the per-server counters survive a resetting report.
ReportKeepsServers(resetCounters) ==
    /\ IF resetCounters
       THEN /\ banked' = [req |-> banked.req + TotalsReq, sreq |-> banked.sreq + ServersReq]
            /\ gen' = ZeroGeneral /\ UNCHANGED bss
       ELSE UNCHANGED <<banked, gen, bss>>
    /\ UNCHANGED <<bestIndex, pc, srv, tries, rtt, out, fb, sup>>

\* Report(resetCounters), under t.mu throughout: the Server and Totals
\* lines, then (on reset) every bsList entry and the resolver's counters
\* zeroed.  banked keeps the req figures a reset discards; without a reset
\* the report changes nothing.
Report(resetCounters) ==
    /\ IF resetCounters
       THEN /\ banked' = [req |-> banked.req + TotalsReq, sreq |-> banked.sreq + ServersReq]
            /\ gen' = ZeroGeneral /\ bss' = [i \in Servers |-> ZeroServerStats]
       ELSE UNCHANGED <<banked, gen, bss>>
    /\ UNCHANGED <<bestIndex, pc, srv, tries, rtt, out, fb, sup>>

Step(c) ==
    \/ Pick(c) \/ GiveUp(c) \/ Feedback(c) \/ General(c)
    \/ \E o \in Outcomes, tc \in BOOLEAN, d \in RTTs : ExchangeUDP(c, o, tc, d)
    \/ \E ok \in BOOLEAN, d \in RTTs : ExchangeTCP(c, ok, d)

Next == \/ \E c \in Clients : Step(c)
        \/ \E r \in BOOLEAN : Report(r)

Spec == Init /\ [][Next]_vars

-----------------------------------------------------------------------------
(***************************************************************************)
(* Properties                                                              *)
(***************************************************************************)

\* The abstract manager, seen through the goroutines: the server a
\* goroutine holds from Pick until its Feedback.
BS == INSTANCE BestServerSet
          WITH best <- bestIndex,
               held <- [c \in Clients |->
                          IF pc[c] \in Held THEN srv[c] ELSE -1]

\* The traditional manager keeps the Manager contract under concurrent
\* Resolve calls: the best server moves only when a goroutine reports a
\* failure of the server that is best at that moment, so several
\* goroutines failing on the same server move it on once, not once each.
BestServerRefined == BS!Spec

\* No Resolve and no attempt goes uncounted or is counted twice, whatever
\* the reporter's resets fall between: the Totals req figures of all
\* resetting reports plus the live counters count exactly the Resolves
\* that returned (one addGeneral* call each), and the Server req figures
\* exactly the attempts that reached Result() (one addServer* call each).
StatsConserved ==
    /\ banked.req + TotalsReq = Cardinality({c \in Clients : pc[c] \in Done})
    /\ banked.sreq + ServersReq =
         Sum([c \in Clients |-> tries[c] - (IF pc[c] \in Held THEN 1 ELSE 0)])
=============================================================================
