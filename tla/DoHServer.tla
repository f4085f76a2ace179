------------------------------- MODULE DoHServer -------------------------------
(***************************************************************************)
(* One call of server.serveDoH (cmd/trustydns-server/server.go:139-304),  *)
(* the request pipeline of trustydns-server: request validation, GET      *)
(* query-param decoding, DNS unpack, id substitution, the server-side ECS *)
(* policy with synthesis from the HTTPS peer address, the padding signal, *)
(* local resolution, id restore, padding of the reply and the write.      *)
(* Each goroutine works on its own request and message; the trackers it   *)
(* calls are modelled by ServerTracking and are left out here.            *)
(***************************************************************************)
EXTENDS Integers, Sequences, DnsMsg

\* The X-trustydns-Synth header split on "/" (strings.Split); <<>> stands
\* for the header being absent (the empty string).
PrefixTexts == {"0", "24", "64", "x"}
Headers == {<<>>, <<"24">>} \cup {<<a, b>> : a, b \in PrefixTexts}

\* The peer address as parseRemoteAddr classifies it: "ipv4:port",
\* "[ipv6]:port", or something it rejects.
Peers == {"v4", "v6", "bad"}

Methods == {"POST", "GET", "PUT"}

\* cfg.ecsSet is forced on when a prefix length is given (main.go:110-114);
\* the defaults are 24 and 64 (part_004:270-273).
Configs ==
    {c \in [ecsRemove : BOOLEAN, ecsSet : BOOLEAN, p4 : {0, 24}, p6 : {0, 64}] :
        ~c.ecsSet => c.p4 = 24 /\ c.p6 = 64}

\* dns.Id() returns a random uint16; 0 is one of its values.
DnsIds == {0, 9}

\* A request, with the value dns.Id() would return while serving it.
Requests == [method : Methods, hdr : Headers, peer : Peers, dnsId : DnsIds]

Queries == {m \in Msgs({0, 7}, {1232}, {"none", "client"}, {0}) : m.inq}

\* strconv.ParseUint(s, 10, 8); -1 stands for a conversion error.
ParseUint8(s) == CASE s = "0" -> 0 [] s = "24" -> 24 [] s = "64" -> 64
                   [] OTHER -> -1

\* extractPrefixLengths: two fields, both 8-bit numbers, in 0-32 / 0-128.
ExtractPrefixLengths(h) ==
    LET a == ParseUint8(h[1])
        b == ParseUint8(h[2])
    IN  IF Len(h) # 2 \/ a < 0 \/ b < 0 \/ a > 32 \/ b > 128
        THEN [ok |-> FALSE, p4 |-> 0, p6 |-> 0]
        ELSE [ok |-> TRUE, p4 |-> a, p6 |-> b]

\* net.IP.To4 / To16 of a parsed peer address: To16 is non-nil for both
\* families.
To4(ip) == ip = "v4"
To16(ip) == ip \in {"v4", "v6"}

\* The serFailureIndex and evIndex arrays (server.go:27-54); "none"
\* stands for no failure.  serClientTLSBad is counted by httpLogCapture
\* on TLS handshake errors, outside serveDoH.
Ser == {"BadContentType", "BadMethod", "BadPrefixLengths", "BadQueryParamDecode",
        "BodyReadError", "ClientTLSBad", "DNSPackResponseFailed",
        "DNSUnpackRequestFailed", "ECSSynthesisFailed", "HTTPWriterFailed",
        "LocalResolutionFailed", "QueryParamMissing"}
Ev == {"Get", "Tsig", "EDNS0Removed", "ECSv4Synth", "ECSv6Synth", "Padding"}
NoSer == "none"
NoEv == "none"

\* The GET query parameters as decodeQueryParam sees them: just "dns",
\* none, "dns" with others, or "dns" that is not base64url.
QueryParams == {"ok", "missing", "extra", "bad"}

\* stats{}: every counter zero.
ZeroStats == [success |-> 0, failures |-> [x \in Ser |-> 0], events |-> [e \in Ev |-> 0]]

VARIABLES cfg, req,
          orig,       \* the DNS query as unpacked from the request
          q,          \* dnsQ as handed to the local resolver
          padSig,     \* addServerPadding >= 0
          reply,      \* dnsR from the local resolver
          out,        \* the DNS reply written to the client
          status,     \* HTTP status of the answer; 0 until one is sent
          evs,        \* the events array of the request: the set of those true
          stats,      \* the listener's stats after this request's add*Stats
          pc

vars == <<cfg, req, orig, q, padSig, reply, out, status, evs, stats, pc>>

AnyMsg == Msgs({0, 7} \cup DnsIds, {1232, DefaultMsgSize},
               {"none", "client", "v4", "v6"}, {0})

TypeOK ==
    /\ cfg \in Configs /\ req \in Requests /\ orig \in Queries
    /\ q \in AnyMsg /\ reply \in AnyMsg /\ out \in AnyMsg
    /\ padSig \in BOOLEAN
    /\ status \in {0, 200, 400, 405, 415, 503}
    /\ evs \subseteq Ev
    /\ stats \in [success : 0..1, failures : [Ser -> 0..1], events : [Ev -> 0..1]]
    /\ pc \in {"start", "decoded", "prepared", "resolved", "done"}

Init ==
    /\ cfg \in Configs
    /\ req \in Requests
    /\ orig \in Queries
    /\ q = orig /\ reply = orig /\ out = orig
    /\ padSig = FALSE
    /\ status = 0
    /\ evs = {}
    /\ stats = ZeroStats
    /\ pc = "start"

\* The events of the request transferred to the counters.
CountEvents(ev) == [e \in Ev |-> stats.events[e] + IF e \in ev THEN 1 ELSE 0]

\* addFailureStats(serx, evs) and addSuccessStats(latency, evs).
AddFailureStats(x, ev) ==
    stats' = [stats EXCEPT !.failures[x] = @ + 1, !.events = CountEvents(ev)]
AddSuccessStats(ev) ==
    stats' = [stats EXCEPT !.success = @ + 1, !.events = CountEvents(ev)]

\* t.error(...) with the status, then addFailureStats, then return.
Fail(code, x, ev) ==
    /\ status' = code /\ pc' = "done" /\ evs' = ev
    /\ AddFailureStats(x, ev)

\* validateRequest: method, then Content-Type, then reading the body.
ValidateRequest(ctOk, bodyOk) ==
    CASE req.method \notin {"POST", "GET"} -> [serx |-> "BadMethod", hsc |-> 405]
      [] ~ctOk                             -> [serx |-> "BadContentType", hsc |-> 415]
      [] ~bodyOk                           -> [serx |-> "BodyReadError", hsc |-> 400]
      [] OTHER                             -> [serx |-> NoSer, hsc |-> 0]

\* decodeQueryParam: the "dns" parameter must be present, alone, and
\* base64url.
DecodeQueryParam(qp) ==
    CASE qp \in {"missing", "extra"} -> "QueryParamMissing"
      [] qp = "bad"                  -> "BadQueryParamDecode"
      [] OTHER                       -> NoSer

\* validateRequest; for GET the event, then decodeQueryParam; dns.Unpack.
Validate(ctOk, bodyOk, qp, unpackOk) ==
    LET v == ValidateRequest(ctOk, bodyOk)
        ev == IF req.method = "GET" THEN {"Get"} ELSE {}
    IN  /\ pc = "start"
        /\ CASE v.serx # NoSer -> Fail(v.hsc, v.serx, evs)
             [] req.method = "GET" /\ DecodeQueryParam(qp) # NoSer
                                -> Fail(400, DecodeQueryParam(qp), ev)
             [] ~unpackOk       -> Fail(400, "DNSUnpackRequestFailed", ev)
             [] OTHER -> pc' = "decoded" /\ evs' = ev /\ UNCHANGED <<status, stats>>
        /\ UNCHANGED <<cfg, req, orig, q, padSig, reply, out>>

\* synthesizeECS(dnsQ, ecsRequestData, RemoteAddr): a header's lengths
\* usurp the configured ones; then the peer address; then the first case
\* of the switch that holds.  evx is left at its zero value, evGet, when
\* no case holds.
SynthesizeECS(dq) ==
    LET present == req.hdr # <<>>
        lens == IF present THEN ExtractPrefixLengths(req.hdr)
                           ELSE [ok |-> TRUE, p4 |-> cfg.p4, p6 |-> cfg.p6]
    IN  CASE ~lens.ok          -> [serx |-> "BadPrefixLengths", evx |-> NoEv, msg |-> dq]
          [] req.peer = "bad"  -> [serx |-> "ECSSynthesisFailed", evx |-> NoEv, msg |-> dq]
          [] To4(req.peer) /\ lens.p4 > 0 ->
                 [serx |-> NoSer, evx |-> "ECSv4Synth", msg |-> CreateECS(dq, "v4")]
          [] To16(req.peer) /\ lens.p6 > 0 ->
                 [serx |-> NoSer, evx |-> "ECSv6Synth", msg |-> CreateECS(dq, "v6")]
          [] OTHER -> [serx |-> NoSer, evx |-> "Get", msg |-> dq]

\* The id substitution of serveDoH: a zero id is replaced by dns.Id(),
\* which may itself be zero.
SubstituteId == IF orig.id = 0 THEN [orig EXCEPT !.id = req.dnsId] ELSE orig

\* Mutant: a synthesis header does not expunge the client ECS.
PrepareRemoveIgnoresHeader ==
    LET q1 == SubstituteId
        mutable == ~orig.tsig
        present == req.hdr # <<>>
        removeEcs == cfg.ecsRemove \/ cfg.ecsSet
        q2 == IF removeEcs THEN RemoveEDNS0FromOPT(q1, "ecs") ELSE q1
        synth == present \/ cfg.ecsSet
        syn == IF synth THEN SynthesizeECS(q2)
               ELSE [serx |-> NoSer, evx |-> NoEv, msg |-> q2]
        ev1 == evs \cup (IF mutable THEN {} ELSE {"Tsig"})
                   \cup (IF mutable /\ removeEcs THEN {"EDNS0Removed"} ELSE {})
        ev2 == ev1 \cup (IF syn.evx = NoEv THEN {} ELSE {syn.evx})
        q4 == syn.msg
        sig == HasSub(q4, "pad")
    IN  /\ pc = "decoded"
        /\ IF ~mutable
           THEN q' = q1 /\ padSig' = FALSE /\ pc' = "prepared" /\ evs' = ev1
                /\ UNCHANGED <<status, stats>>
           ELSE IF syn.serx # NoSer
           THEN Fail(400, syn.serx, ev1) /\ UNCHANGED <<q, padSig>>
           ELSE /\ padSig' = sig
                /\ q' = RemoveEDNS0FromOPT(q4, "pad")
                /\ evs' = ev2 \cup (IF sig THEN {"Padding"} ELSE {})
                /\ pc' = "prepared" /\ UNCHANGED <<status, stats>>
        /\ UNCHANGED <<cfg, req, orig, reply, out>>

\* Mutant: padding is stripped before the signal is looked for.
PrepareStripsPadFirst ==
    LET q1 == SubstituteId
        mutable == ~orig.tsig
        present == req.hdr # <<>>
        removeEcs == cfg.ecsRemove \/ present \/ cfg.ecsSet
        q2 == IF removeEcs THEN RemoveEDNS0FromOPT(q1, "ecs") ELSE q1
        synth == present \/ cfg.ecsSet
        syn == IF synth THEN SynthesizeECS(q2)
               ELSE [serx |-> NoSer, evx |-> NoEv, msg |-> q2]
        ev1 == evs \cup (IF mutable THEN {} ELSE {"Tsig"})
                   \cup (IF mutable /\ removeEcs THEN {"EDNS0Removed"} ELSE {})
        ev2 == ev1 \cup (IF syn.evx = NoEv THEN {} ELSE {syn.evx})
        q4 == syn.msg
        sig == HasSub(RemoveEDNS0FromOPT(q4, "pad"), "pad")
    IN  /\ pc = "decoded"
        /\ IF ~mutable
           THEN q' = q1 /\ padSig' = FALSE /\ pc' = "prepared" /\ evs' = ev1
                /\ UNCHANGED <<status, stats>>
           ELSE IF syn.serx # NoSer
           THEN Fail(400, syn.serx, ev1) /\ UNCHANGED <<q, padSig>>
           ELSE /\ padSig' = sig
                /\ q' = RemoveEDNS0FromOPT(q4, "pad")
                /\ evs' = ev2 \cup (IF sig THEN {"Padding"} ELSE {})
                /\ pc' = "prepared" /\ UNCHANGED <<status, stats>>
        /\ UNCHANGED <<cfg, req, orig, reply, out>>

\* Id substitution, the TSIG event, ECS removal and synthesis, the padding
\* signal, each with its event.
Prepare ==
    LET q1 == SubstituteId
        mutable == ~orig.tsig
        present == req.hdr # <<>>
        removeEcs == cfg.ecsRemove \/ present \/ cfg.ecsSet
        q2 == IF removeEcs THEN RemoveEDNS0FromOPT(q1, "ecs") ELSE q1
        synth == present \/ cfg.ecsSet
        syn == IF synth THEN SynthesizeECS(q2)
               ELSE [serx |-> NoSer, evx |-> NoEv, msg |-> q2]
        ev1 == evs \cup (IF mutable THEN {} ELSE {"Tsig"})
                   \cup (IF mutable /\ removeEcs THEN {"EDNS0Removed"} ELSE {})
        ev2 == ev1 \cup (IF syn.evx = NoEv THEN {} ELSE {syn.evx})
        q4 == syn.msg
        sig == HasSub(q4, "pad")
    IN  /\ pc = "decoded"
        /\ IF ~mutable
           THEN q' = q1 /\ padSig' = FALSE /\ pc' = "prepared" /\ evs' = ev1
                /\ UNCHANGED <<status, stats>>
           ELSE IF syn.serx # NoSer
           THEN Fail(400, syn.serx, ev1) /\ UNCHANGED <<q, padSig>>
           ELSE /\ padSig' = sig
                /\ q' = RemoveEDNS0FromOPT(q4, "pad")
                /\ evs' = ev2 \cup (IF sig THEN {"Padding"} ELSE {})
                /\ pc' = "prepared" /\ UNCHANGED <<status, stats>>
        /\ UNCHANGED <<cfg, req, orig, reply, out>>

\* t.local.Resolve: an error, or a reply to q (with q's id and TSIG
\* status, and an OPT of the resolver's own or none).
Resolve(ok, ropt) ==
    /\ pc = "prepared"
    /\ IF ~ok
       THEN Fail(503, "LocalResolutionFailed", evs) /\ reply' = reply
       ELSE /\ reply' = [id |-> q.id, tsig |-> q.tsig, inq |-> TRUE, opt |-> ropt,
                         ecs |-> "none", pad |-> FALSE, other |-> FALSE, ttl |-> 0]
            /\ pc' = "resolved" /\ UNCHANGED <<status, evs, stats>>
    /\ UNCHANGED <<cfg, req, orig, q, padSig, out>>

Respond(packOk, writeOk) ==
    LET r1 == [reply EXCEPT !.id = orig.id]
        r2 == IF ~orig.tsig /\ padSig THEN PadAndPack(r1) ELSE r1
    IN  /\ pc = "resolved"
        /\ CASE ~packOk  -> Fail(503, "DNSPackResponseFailed", evs) /\ out' = out
             [] ~writeOk -> Fail(200, "HTTPWriterFailed", evs) /\ out' = out
             [] OTHER    -> /\ out' = r2 /\ status' = 200 /\ pc' = "done"
                            /\ AddSuccessStats(evs) /\ UNCHANGED evs
        /\ UNCHANGED <<cfg, req, orig, q, padSig, reply>>

Next ==
    \/ \E ct, body, unpack \in BOOLEAN, qp \in QueryParams : Validate(ct, body, qp, unpack)
    \/ Prepare
    \/ \E ok \in BOOLEAN, ropt \in {NoOpt, 1232} : Resolve(ok, ropt)
    \/ \E pack, write \in BOOLEAN : Respond(pack, write)

Spec == Init /\ [][Next]_vars

-----------------------------------------------------------------------------
(***************************************************************************)
(* Properties                                                              *)
(***************************************************************************)

\* The query has been handed to the local resolver (and answered).
Forwarded == pc \in {"prepared", "resolved"} \/ status = 200

\* spec 5 (server ECS synthesis): with "X-trustydns-Synth: 0/0" the local
\* resolver sees no ECS, whatever ECS the client sent and whatever
\* --ecs-remove/--ecs-set say.
ZeroLengthsNoEcs ==
    (Forwarded /\ req.hdr = <<"0", "0">> /\ ~orig.tsig) => q.ecs = "none"

\* RFC8467 hop-by-hop padding: the reply is padded exactly when the
\* client's (unsigned) query was, and the padding never reaches the local
\* resolver.
PadIffSignalled ==
    /\ (status = 200 /\ ~orig.tsig) => (out.pad <=> orig.pad)
    /\ Forwarded => ~q.pad \/ orig.tsig

\* The HTTP status serveDoH answers with for each failure counter.
StatusOf(x) ==
    CASE x = "BadMethod"      -> 405
      [] x = "BadContentType" -> 415
      [] x \in {"LocalResolutionFailed", "DNSPackResponseFailed"} -> 503
      [] x = "HTTPWriterFailed" -> 200  \* committed by Write before it failed
      [] OTHER                -> 400

SynthesisMatchesPeer ==
    /\ q.ecs = "v4" => req.peer = "v4"
    /\ q.ecs = "v6" => req.peer = "v6"
    /\ stats.events["Get"] > 0 => req.method = "GET"
=============================================================================
