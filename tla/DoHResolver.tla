------------------------------ MODULE DoHResolver ------------------------------
(***************************************************************************)
(* One call of remote.Resolve (internal/resolver/doh/resolver.go), the    *)
(* client side of DoH used by trustydns-proxy.  A Resolve call touches    *)
(* only its own query and reply and, through Best() and Result(), the     *)
(* shared latency manager modelled by BestServerLatency; here the manager *)
(* is reduced to the report a call makes to it.                           *)
(*                                                                         *)
(* A DNS message is abstracted to what the ECS, padding, id and TTL code  *)
(* tells apart: its id, whether it carries a TSIG, whether it is an       *)
(* IN/Query with one question, its OPT RR (absent, or its UDP size), the  *)
(* ECS in the OPT and who put it there, an EDNS0 padding option, whether  *)
(* the OPT holds other sub-options (e.g. a cookie), and the TTL of an RR. *)
(***************************************************************************)
EXTENDS Integers, DnsMsg

CONSTANTS QueryId,        \* the id the client gave its query
          ClientUDPSize,  \* a UDP size a client may advertise in its OPT
          Ttls,           \* TTLs the DoH server may return
          Ages            \* parsed Age header values; -1 = absent or unparsable

EcsOrigins == {"none", "client", "cfg", "server"}

\* "%d/%d" of the two ECSRequest prefix lengths: never the empty string.
ReqData == {"0/0", "24/56"}

Queries == Msgs({QueryId}, {ClientUDPSize}, {"none", "client"}, {0})
Responses == Msgs({0, QueryId}, {DefaultMsgSize}, {"none", "server"}, Ttls)

AnyMsg == Msgs({0, QueryId}, {ClientUDPSize, DefaultMsgSize}, EcsOrigins,
               0..(2^TtlBits - 1))

\* The configurations New() accepts (resolver.go:135-146, 184).
Configs ==
    {c \in [ECSRemove : BOOLEAN, ECSSet : BOOLEAN, ECSRequest : ReqData,
            ECSRedactResponse : BOOLEAN, GeneratePadding : BOOLEAN,
            UseGetMethod : BOOLEAN] :
        /\ c.UseGetMethod => ~c.ECSSet /\ c.ECSRequest = "0/0"
        /\ c.ECSSet => c.ECSRequest = "0/0"}

BadAnswers == {"status", "readErr", "contentType", "short", "unpackErr"}

VARIABLES cfg,        \* remote.config
          orig,       \* the query as the caller passed it
          q,          \* dnsQ, mutated in place; after packing, what is sent
          retained,   \* originalECSRetained
          present,    \* ecsPresent
          reqData,    \* ecsRequestData
          hdr,        \* the synthesize-ECS request header sent, or "absent"
          report,     \* what Resolve reported to bestServer.Result
          answer,     \* the HTTP answer: "good" or the check it fails
          resp,       \* the DNS reply unpacked from the body
          reply,      \* httpR as returned to the caller
          originalId, \* the id Resolve saved for the reply (resolver.go:242)
          pc

vars == <<cfg, orig, q, retained, present, reqData, hdr, report, answer, resp,
          reply, originalId, pc>>

TypeOK ==
    /\ cfg \in Configs
    /\ orig \in Queries
    /\ q \in Msgs({0, QueryId}, {ClientUDPSize, DefaultMsgSize}, EcsOrigins, {0})
    /\ retained \in BOOLEAN /\ present \in BOOLEAN
    /\ reqData \in ReqData \cup {""} /\ hdr \in ReqData \cup {"absent"}
    /\ report \in {"none", "success", "failure"}
    /\ answer \in BadAnswers \cup {"good", "none"}
    /\ resp \in AnyMsg
    /\ reply \in AnyMsg
    /\ originalId \in {0, QueryId}
    /\ pc \in {"start", "packed", "answered", "done", "failed"}

-----------------------------------------------------------------------------

Init ==
    /\ cfg \in Configs
    /\ orig \in Queries
    /\ q = orig
    /\ retained = TRUE /\ present = FALSE /\ reqData = ""
    /\ hdr = "absent"
    /\ report = "none"
    /\ answer = "none"
    /\ resp = orig                 \* no reply yet
    /\ reply = orig
    /\ originalId = 0             \* not yet saved
    /\ pc = "start"

\* Mutant: rule 3 ignores whether an ECS is already present.
PrepareRule3Unguarded(packOk) ==
    LET mutable == ~q.tsig
        special == q.inq /\ mutable
        p0 == special /\ HasSub(q, "ecs")
        rule1 == cfg.ECSRemove /\ p0
        q1 == IF rule1 THEN RemoveEDNS0FromOPT(q, "ecs") ELSE q
        p1 == p0 /\ ~rule1
        rule2 == special /\ cfg.ECSSet /\ ~p1
        q2 == IF rule2 THEN CreateECS(q1, "cfg") ELSE q1
        rule3 == special
        q3 == IF cfg.UseGetMethod THEN [q2 EXCEPT !.id = 0] ELSE q2
    IN  /\ pc = "start"
        /\ originalId' = q.id
        /\ q' = IF cfg.GeneratePadding /\ mutable THEN PadAndPack(q3) ELSE q3
        /\ retained' = ~(rule1 \/ rule2 \/ rule3)
        /\ present' = (p1 \/ rule2 \/ rule3)
        /\ reqData' = IF rule3 THEN cfg.ECSRequest ELSE ""
        /\ pc' = IF packOk THEN "packed" ELSE "failed"
        /\ UNCHANGED <<cfg, orig, hdr, report, answer, resp, reply>>

\* Mutant: padding generated without checking for a TSIG.
PreparePadsSigned(packOk) ==
    LET mutable == ~q.tsig
        special == q.inq /\ mutable
        p0 == special /\ HasSub(q, "ecs")
        rule1 == cfg.ECSRemove /\ p0
        q1 == IF rule1 THEN RemoveEDNS0FromOPT(q, "ecs") ELSE q
        p1 == p0 /\ ~rule1
        rule2 == special /\ cfg.ECSSet /\ ~p1
        q2 == IF rule2 THEN CreateECS(q1, "cfg") ELSE q1
        rule3 == special /\ ~(p1 \/ rule2)
        q3 == IF cfg.UseGetMethod THEN [q2 EXCEPT !.id = 0] ELSE q2
    IN  /\ pc = "start"
        /\ originalId' = q.id
        /\ q' = IF cfg.GeneratePadding THEN PadAndPack(q3) ELSE q3
        /\ retained' = ~(rule1 \/ rule2 \/ rule3)
        /\ present' = (p1 \/ rule2 \/ rule3)
        /\ reqData' = IF rule3 THEN cfg.ECSRequest ELSE ""
        /\ pc' = IF packOk THEN "packed" ELSE "failed"
        /\ UNCHANGED <<cfg, orig, hdr, report, answer, resp, reply>>

\* Mutant: rule 3 does not clear originalECSRetained.
PrepareRule3Retains(packOk) ==
    LET mutable == ~q.tsig
        special == q.inq /\ mutable
        p0 == special /\ HasSub(q, "ecs")
        rule1 == cfg.ECSRemove /\ p0
        q1 == IF rule1 THEN RemoveEDNS0FromOPT(q, "ecs") ELSE q
        p1 == p0 /\ ~rule1
        rule2 == special /\ cfg.ECSSet /\ ~p1
        q2 == IF rule2 THEN CreateECS(q1, "cfg") ELSE q1
        rule3 == special /\ ~(p1 \/ rule2)
        q3 == IF cfg.UseGetMethod THEN [q2 EXCEPT !.id = 0] ELSE q2
    IN  /\ pc = "start"
        /\ originalId' = q.id
        /\ q' = IF cfg.GeneratePadding /\ mutable THEN PadAndPack(q3) ELSE q3
        /\ retained' = ~(rule1 \/ rule2)
        /\ present' = (p1 \/ rule2 \/ rule3)
        /\ reqData' = IF rule3 THEN cfg.ECSRequest ELSE ""
        /\ pc' = IF packOk THEN "packed" ELSE "failed"
        /\ UNCHANGED <<cfg, orig, hdr, report, answer, resp, reply>>

\* Mutant: the id is saved after the GET zeroing instead of on entry.
PrepareSavesIdLate(packOk) ==
    LET mutable == ~q.tsig
        special == q.inq /\ mutable
        p0 == special /\ HasSub(q, "ecs")
        rule1 == cfg.ECSRemove /\ p0
        q1 == IF rule1 THEN RemoveEDNS0FromOPT(q, "ecs") ELSE q
        p1 == p0 /\ ~rule1
        rule2 == special /\ cfg.ECSSet /\ ~p1
        q2 == IF rule2 THEN CreateECS(q1, "cfg") ELSE q1
        rule3 == special /\ ~(p1 \/ rule2)
        q3 == IF cfg.UseGetMethod THEN [q2 EXCEPT !.id = 0] ELSE q2
    IN  /\ pc = "start"
        /\ originalId' = q3.id
        /\ q' = IF cfg.GeneratePadding /\ mutable THEN PadAndPack(q3) ELSE q3
        /\ retained' = ~(rule1 \/ rule2 \/ rule3)
        /\ present' = (p1 \/ rule2 \/ rule3)
        /\ reqData' = IF rule3 THEN cfg.ECSRequest ELSE ""
        /\ pc' = IF packOk THEN "packed" ELSE "failed"
        /\ UNCHANGED <<cfg, orig, hdr, report, answer, resp, reply>>

\* originalId saved on entry (:242), the ECS rules 1-3, the GET id zeroing
\* (:293) and the serialization.
Prepare(packOk) ==
    LET mutable == ~q.tsig
        special == q.inq /\ mutable
        p0 == special /\ HasSub(q, "ecs")
        rule1 == cfg.ECSRemove /\ p0
        q1 == IF rule1 THEN RemoveEDNS0FromOPT(q, "ecs") ELSE q
        p1 == p0 /\ ~rule1
        rule2 == special /\ cfg.ECSSet /\ ~p1
        q2 == IF rule2 THEN CreateECS(q1, "cfg") ELSE q1
        rule3 == special /\ ~(p1 \/ rule2)
        q3 == IF cfg.UseGetMethod THEN [q2 EXCEPT !.id = 0] ELSE q2
    IN  /\ pc = "start"
        /\ originalId' = q.id
        /\ q' = IF cfg.GeneratePadding /\ mutable THEN PadAndPack(q3) ELSE q3
        /\ retained' = ~(rule1 \/ rule2 \/ rule3)
        /\ present' = (p1 \/ rule2 \/ rule3)
        /\ reqData' = IF rule3 THEN cfg.ECSRequest ELSE ""
        /\ pc' = IF packOk THEN "packed" ELSE "failed"
        /\ UNCHANGED <<cfg, orig, hdr, report, answer, resp, reply>>

\* Best(), http.NewRequest, the headers and httpClient.Do; Result() is
\* called as soon as Do returns, before the answer is examined.
Exchange(outcome) ==
    /\ pc = "packed"
    /\ hdr' = IF reqData # "" /\ ~q.tsig THEN reqData ELSE "absent"
    /\ CASE outcome = "requestErr"   -> report' = report /\ answer' = answer
         [] outcome = "transportErr" -> report' = "failure" /\ answer' = answer
         [] OTHER                    -> report' = "success" /\ answer' = outcome
    /\ pc' = IF outcome \in {"requestErr", "transportErr"} THEN "failed"
                                                           ELSE "answered"
    /\ UNCHANGED <<cfg, orig, q, retained, present, reqData, resp, reply,
                   originalId>>

\* An answer failing the status, body, content-type, length or unpack check.
Reject ==
    /\ pc = "answered"
    /\ answer \in BadAnswers
    /\ pc' = "failed"
    /\ UNCHANGED <<cfg, orig, q, retained, present, reqData, hdr, report,
                   answer, resp, reply, originalId>>

\* The DoH server answers with an ECS only when the query carried one or
\* asked trustydns-server to synthesize one (RFC7871 7.2.2; server.go).
EcsAnswerable(r) ==
    r.ecs # "none" => q.ecs # "none" \/ hdr \in ReqData \ {"0/0"}

\* Age adjustment, id restore, ECS redaction and padding strip.
Accept(r, age) ==
    LET mutable == ~r.tsig
        r1 == IF mutable /\ age > 0 THEN [r EXCEPT !.ttl = ReduceTTL(r.ttl, age)]
                                    ELSE r
        r2 == [r1 EXCEPT !.id = originalId]
        r3 == IF mutable /\ ~retained /\ cfg.ECSRedactResponse
              THEN RemoveEDNS0FromOPT(r2, "ecs") ELSE r2
    IN  /\ pc = "answered"
        /\ answer = "good"
        /\ EcsAnswerable(r)
        /\ resp' = r
        /\ reply' = IF mutable /\ cfg.GeneratePadding
                    THEN RemoveEDNS0FromOPT(r3, "pad") ELSE r3
        /\ pc' = "done"
        /\ UNCHANGED <<cfg, orig, q, retained, present, reqData, hdr, report,
                       answer, originalId>>

Next ==
    \/ \E ok \in BOOLEAN : Prepare(ok)
    \/ \E o \in BadAnswers \cup {"good", "requestErr", "transportErr"} : Exchange(o)
    \/ Reject
    \/ \E r \in Responses, age \in Ages : Accept(r, age)

Spec == Init /\ [][Next]_vars

-----------------------------------------------------------------------------
(***************************************************************************)
(* Properties                                                              *)
(***************************************************************************)

Sent == pc \in {"packed", "answered", "done"}

\* The caller gets its own query id back.  Resolve zeroes dnsQ's id for GET
\* (resolver.go:293) in the very message the caller passed, and restores
\* the reply's id (:461) from originalId, which must therefore be saved
\* (:242) before the zeroing: whatever the method, the TSIG status and the
\* id the DoH server answered with, the reply carries the id of the query
\* the proxy passed in.
IdRoundTrip == pc = "done" => reply.id = orig.id

\* The ECS rules compose: the query that reaches the DoH server never
\* carries both an ECS option and a request to synthesize one, and with
\* ECSRemove configured the client's own ECS never leaves the proxy for a
\* mutable IN query.
EcsSingleSource ==
    Sent =>
        /\ ~(q.ecs # "none" /\ hdr # "absent")
        /\ (cfg.ECSRemove /\ orig.inq /\ ~orig.tsig) => q.ecs # "client"

\* A TSIG-signed query is sent exactly as the client signed it, except for
\* the id that GET zeroes (RFC2845, resolver.go:250-252): no ECS rule, no
\* padding and no synthesis header touches it.
TsigUntouched ==
    (Sent /\ orig.tsig) =>
        /\ q = [orig EXCEPT !.id = IF cfg.UseGetMethod THEN 0 ELSE orig.id]
        /\ hdr = "absent"

\* With ECSRedactResponse configured, the client never receives an ECS it
\* did not send: an ECS left in a mutable reply answers the client's own
\* ECS, forwarded unchanged.
NoForeignEcs ==
    (pc = "done" /\ cfg.ECSRedactResponse /\ ~resp.tsig /\ reply.ecs # "none")
        => orig.ecs = "client" /\ q.ecs = "client"

\* spec 4.3: a server's latency is fed to the best-server manager as a
\* success only for a usable DNS answer; answers failing the HTTP status,
\* content-type, length or unpack checks count as failures.
SuccessOnlyForUsableAnswer ==
    [][report' = "success" /\ report # "success" => answer' = "good"]_vars
=============================================================================
