-------------------------- MODULE BestServerLatency --------------------------
(***************************************************************************)
(* The 'latency' bestserver.Manager of internal/bestserver/latency.go and  *)
(* the Best() it inherits from baseManager (unnamed/part_016), used        *)
(* concurrently by several goroutines as the DoH resolver does:            *)
(* Best(), then the HTTPS exchange, then Result(server, ok, endTime, lat). *)
(*                                                                         *)
(* Servers are the indices 0..NumServers-1 of the list given to            *)
(* NewLatency.  Time is a bounded integer clock; the zero time.Time of Go  *)
(* is 0 and the clock starts at 1, so every real 'now' is After(zero).     *)
(* assessCount and sampleCount are only ever compared with ReassessCount   *)
(* and SampleOthersEvery, so they saturate at those values: every          *)
(* comparison the code makes gives the same answer.                        *)
(***************************************************************************)
EXTENDS Integers, FiniteSets

CONSTANTS
    NumServers,        \* len(servers) given to NewLatency
    Clients,           \* goroutines sharing the Manager (model values)
    ReassessAfter,     \* LatencyConfig.ReassessAfter, in clock ticks
    ReassessCount,     \* LatencyConfig.ReassessCount
    ResetFailedAfter,  \* LatencyConfig.ResetFailedAfter, in clock ticks
    SampleOthersEvery, \* LatencyConfig.SampleOthersEvery
    WeightForLatest,   \* LatencyConfig.WeightForLatest (percent)
    Latencies,         \* latencies an exchange may measure (> 0)
    CanFail,           \* servers whose exchanges may fail
    MaxClock           \* bound on the clock

ASSUME NumServers \in Nat \ {0}
ASSUME ReassessAfter \in Nat \ {0} /\ ReassessCount \in Nat \ {0}
ASSUME ResetFailedAfter \in Nat \ {0} /\ SampleOthersEvery \in Nat \ {0}
ASSUME WeightForLatest \in 1..100
ASSUME Latencies \subseteq Nat \ {0}
ASSUME MaxClock \in Nat \ {0}

Servers == 0..(NumServers - 1)
ASSUME CanFail \subseteq Servers

VARIABLES
    stats,          \* latencyServerStats per server
    bestIndex,      \* baseManager.bestIndex: what Best() returns
    saveBestIndex,  \* the 'true' best, restored after a sample
    assessCount,    \* Result() calls since the last reassessment
    sampleCount,    \* Result() calls since the last sample
    sampleIndex,    \* round-robin sample cursor
    bestExpires,    \* when the best must be reassessed
    clock,          \* time.Now()
    pc,             \* per client: "idle", "exchanging" or "done"
    srv,            \* per client: the server Best() returned
    ok,             \* per client: success of the exchange
    lat,            \* per client: measured latency of the exchange
    endTime         \* per client: time.Now() taken when the exchange ended

mgrVars == <<stats, bestIndex, saveBestIndex, assessCount, sampleCount,
             sampleIndex, bestExpires>>
cliVars == <<pc, srv, ok, lat, endTime>>
vars == <<mgrVars, clock, cliVars>>

\* latencyServerStats{}: the zero value
ZeroStats == [lastStatusTime |-> 0, lastStatusWasFailure |-> FALSE,
              weightedAverage |-> 0]

Averages == 0..(IF Latencies = {} THEN 0
                ELSE CHOOSE m \in Latencies : \A l \in Latencies : l <= m)

TypeOK ==
    /\ stats \in [Servers -> [lastStatusTime : 0..MaxClock,
                              lastStatusWasFailure : BOOLEAN,
                              weightedAverage : Averages]]
    /\ bestIndex \in Servers /\ saveBestIndex \in Servers
    /\ assessCount \in 0..ReassessCount
    /\ sampleCount \in 0..SampleOthersEvery
    /\ sampleIndex \in Servers
    /\ bestExpires \in 0..(MaxClock + ReassessAfter)
    /\ clock \in 1..MaxClock
    /\ pc \in [Clients -> {"idle", "exchanging", "done"}]
    /\ srv \in [Clients -> Servers]
    /\ ok \in [Clients -> BOOLEAN]
    /\ lat \in [Clients -> {0} \cup Latencies]
    /\ endTime \in [Clients -> 0..MaxClock]

\* NewLatency: bestIndex 0, all stats and counters zero.
Init ==
    /\ stats = [s \in Servers |-> ZeroStats]
    /\ bestIndex = 0 /\ saveBestIndex = 0
    /\ assessCount = 0 /\ sampleCount = 0 /\ sampleIndex = 0
    /\ bestExpires = 0
    /\ clock = 1
    /\ pc = [c \in Clients |-> "idle"]
    /\ srv = [c \in Clients |-> 0]
    /\ ok = [c \in Clients |-> TRUE]
    /\ lat = [c \in Clients |-> 0]
    /\ endTime = [c \in Clients |-> 0]

-----------------------------------------------------------------------------
\* Mutant: the weighted sum is not scaled back by 100.
UpdateStatsUnscaled(st, success, now, latency) ==
    [lastStatusTime |-> now,
     lastStatusWasFailure |-> ~success,
     weightedAverage |->
        IF ~success THEN st.weightedAverage
        ELSE IF st.weightedAverage = 0 THEN latency
        ELSE latency * WeightForLatest
              + st.weightedAverage * (100 - WeightForLatest)]

(* Result(): the per-server statistics update.                             *)
UpdateStats(st, success, now, latency) ==
    [lastStatusTime |-> now,
     lastStatusWasFailure |-> ~success,
     weightedAverage |->
        IF ~success THEN st.weightedAverage
        ELSE IF st.weightedAverage = 0 THEN latency
        ELSE (latency * WeightForLatest
              + st.weightedAverage * (100 - WeightForLatest)) \div 100]

\* Mutant: the scan forgets to skip failed servers.
RECURSIVE ScanIgnoresFailure(_, _, _)
ScanIgnoresFailure(st, ix, newBest) ==
    IF ix = NumServers THEN newBest
    ELSE ScanIgnoresFailure(st, ix + 1,
              CASE newBest = -1 -> ix
                [] st[ix].weightedAverage = 0 -> newBest
                [] st[newBest].weightedAverage = 0 -> ix
                [] st[ix].weightedAverage < st[newBest].weightedAverage -> ix
                [] OTHER -> newBest)

\* Mutant: an equally fast later server displaces the tentative best.
RECURSIVE ScanLastOnTie(_, _, _)
ScanLastOnTie(st, ix, newBest) ==
    IF ix = NumServers THEN newBest
    ELSE ScanLastOnTie(st, ix + 1,
              CASE st[ix].lastStatusWasFailure -> newBest
                [] newBest = -1 -> ix
                [] st[ix].weightedAverage = 0 -> newBest
                [] st[newBest].weightedAverage = 0 -> ix
                [] st[ix].weightedAverage <= st[newBest].weightedAverage -> ix
                [] OTHER -> newBest)

(* reassessBest: the linear scan choosing the new best.  A failed server   *)
(* is never a candidate; the first good server is the tentative best, a    *)
(* known latency displaces an unknown one, a lower one displaces a higher. *)
RECURSIVE Scan(_, _, _)
Scan(st, ix, newBest) ==
    IF ix = NumServers THEN newBest
    ELSE Scan(st, ix + 1,
              CASE st[ix].lastStatusWasFailure -> newBest
                [] newBest = -1 -> ix
                [] st[ix].weightedAverage = 0 -> newBest
                [] st[newBest].weightedAverage = 0 -> ix
                [] st[ix].weightedAverage < st[newBest].weightedAverage -> ix
                [] OTHER -> newBest)

(* reassessBest: failed servers idle for longer than ResetFailedAfter are  *)
(* reset to the zero stats.                                                *)
Rehabilitate(st, now) ==
    [ix \in Servers |->
        IF st[ix].lastStatusWasFailure
           /\ st[ix].lastStatusTime + ResetFailedAfter < now
        THEN ZeroStats ELSE st[ix]]

(* reassessBest as a whole: <<stats, bestIndex, bestExpires>> after it.    *)
(* With one server it returns at once, leaving bestExpires alone.          *)
ReassessBest(st, best, expires, now) ==
    IF NumServers = 1 THEN <<st, best, expires>>
    ELSE LET nb == Scan(st, 0, -1)
         IN <<Rehabilitate(st, now),
              IF nb = -1 THEN (best + 1) % NumServers ELSE nb,
              now + ReassessAfter>>

(* assess(): a report about bestIndex reassesses on a failure, after      *)
(* ReassessCount reports or once bestExpires has passed.                   *)
ReassessDue(ix, success, count, now) ==
    /\ ix = bestIndex
    /\ \/ ~success
       \/ count >= ReassessCount
       \/ now > bestExpires

\* Mutant: the sample cursor wraps one server early.
SampleNextWrapsEarly(i) == (i + 1) % (NumServers - 1)

\* assess(): the next server in the round-robin of samples
SampleNext(i) == (i + 1) % NumServers

(* Result(server, success, now, latency) under the write lock: the stats  *)
(* update followed by assess(), with its reassessment and sampling.        *)
Result(c) ==
    /\ pc[c] = "done"
    /\ LET ix      == srv[c]
           now     == endTime[c]
           st1     == [stats EXCEPT ![ix] = UpdateStats(@, ok[c], now, lat[c])]
           count   == assessCount + 1
           trigger == ReassessDue(ix, ok[c], count, now)
           ra      == ReassessBest(st1, bestIndex, bestExpires, now)
           st2     == IF trigger THEN ra[1] ELSE st1
           best2   == IF trigger THEN ra[2] ELSE bestIndex
           save2   == IF trigger THEN ra[2] ELSE saveBestIndex
           samples == sampleCount + 1
           next    == SampleNext(sampleIndex)
       IN /\ stats' = st2
          /\ saveBestIndex' = save2
          /\ bestExpires' = IF trigger THEN ra[3] ELSE bestExpires
          /\ assessCount' = IF trigger THEN 0
                            ELSE IF count > ReassessCount THEN ReassessCount
                            ELSE count
          /\ IF samples < SampleOthersEvery
             THEN /\ bestIndex' = save2
                  /\ sampleCount' = samples
                  /\ UNCHANGED sampleIndex
             ELSE /\ sampleIndex' = next
                  /\ IF ~st2[next].lastStatusWasFailure
                     THEN /\ bestIndex' = next
                          /\ sampleCount' = 0
                     ELSE /\ bestIndex' = best2
                          /\ sampleCount' = SampleOthersEvery
    /\ pc' = [pc EXCEPT ![c] = "idle"]
    /\ UNCHANGED <<clock, srv, ok, lat, endTime>>

-----------------------------------------------------------------------------
(* The caller's side, as doh.Resolve does it.                              *)

\* bestURL, bsix := t.bestServer.Best(): read under the read lock
Best(c) ==
    /\ pc[c] = "idle"
    /\ pc' = [pc EXCEPT ![c] = "exchanging"]
    /\ srv' = [srv EXCEPT ![c] = bestIndex]
    /\ UNCHANGED <<mgrVars, clock, ok, lat, endTime>>

\* resp, err := httpClient.Do(req); endTime := time.Now().  A failure
\* reports a zero latency.
Exchange(c) ==
    /\ pc[c] = "exchanging"
    /\ \E success \in IF srv[c] \in CanFail THEN BOOLEAN ELSE {TRUE} :
       \E latency \in Latencies :
          /\ ok' = [ok EXCEPT ![c] = success]
          /\ lat' = [lat EXCEPT ![c] = IF success THEN latency ELSE 0]
    /\ endTime' = [endTime EXCEPT ![c] = clock]
    /\ pc' = [pc EXCEPT ![c] = "done"]
    /\ UNCHANGED <<mgrVars, clock, srv>>

Tick ==
    /\ clock < MaxClock
    /\ clock' = clock + 1
    /\ UNCHANGED <<mgrVars, cliVars>>

Next ==
    \/ \E c \in Clients : Best(c) \/ Exchange(c) \/ Result(c)
    \/ Tick

Spec == Init /\ [][Next]_vars

\* Every goroutine that has started a query finishes it: the HTTP client
\* has a timeout, so Do() always returns.
FairSpec == Spec /\ \A c \in Clients : WF_vars(Best(c) \/ Exchange(c) \/ Result(c))

-----------------------------------------------------------------------------
(* Properties                                                              *)

\* A server is failing when its last reported status was a failure.
Failing(s) == stats[s].lastStatusWasFailure

(* The reference answer for reassessBest's scan (spec 4.1): among the      *)
(* servers not failing, the lowest known average latency, earliest server  *)
(* on ties; with no known latency the first good server; -1 if none.       *)
RefBest(st) ==
    LET good  == {s \in Servers : ~st[s].lastStatusWasFailure}
        known == {s \in good : st[s].weightedAverage # 0}
        first(S) == CHOOSE s \in S : \A t \in S : s <= t
    IN IF good = {} THEN -1
       ELSE IF known = {} THEN first(good)
       ELSE first({s \in known : \A t \in known :
                      st[s].weightedAverage <= st[t].weightedAverage})

(* reassessBest's order-dependent scan picks, in every reachable state,    *)
(* the server the selection rule of spec 4.1 names.                        *)
ScanPicksFastest == Scan(stats, 0, -1) = RefBest(stats)

(* A failure report is never ignored: a Result() that records a failure    *)
(* of server s never leaves Best() returning s while some other server is  *)
(* not failing.  Checked against the interleavings of several goroutines, *)
(* where the report may be about a server that is no longer bestIndex.     *)
FailureDemotes ==
    [][\A c \in Clients :
         (Result(c) /\ ~ok[c] /\ bestIndex' = srv[c])
            => \A s \in Servers : stats'[s].lastStatusWasFailure]_vars

(* Spec 8: after a failure report on the server Best() currently returns, *)
(* the next Best() returns another server unless every server is failing, *)
(* whatever reports other goroutines interleave.                          *)
FailureOfBestDemotes ==
    [][\A c \in Clients :
         (Result(c) /\ ~ok[c] /\ srv[c] = bestIndex /\ bestIndex' = srv[c])
            => \A s \in Servers : stats'[s].lastStatusWasFailure]_vars

(* assess()'s round robin of samples keeps offering every server that     *)
(* does not fail: bestIndex is set to it again and again, whatever the     *)
(* latencies and however the goroutines' Result() calls interleave.  (A   *)
(* sample set by one goroutine's Result() may be reverted by another's     *)
(* before any Best() reads it, so this is what sampling can promise.)      *)
SampleOffered == \A s \in Servers \ CanFail : []<>(bestIndex = s)

(* With no failures, sampling makes Best() hand every server to a caller  *)
(* again and again (spec 8: every server is observed).                     *)
EveryServerSampled ==
    (CanFail = {}) =>
        \A s \in Servers :
            []<>(\E c \in Clients : pc[c] = "exchanging" /\ srv[c] = s)

=============================================================================
