----------------------------- MODULE ProxyServeDNS -----------------------------
(***************************************************************************)
(* server.ServeDNS of trustydns-proxy (unnamed/part_001:112-186) for a    *)
(* query routed to the DoH resolver: the goroutine hands its *dns.Msg to  *)
(* remote.Resolve (DoHResolver, which mutates it in place), applies the   *)
(* UDP truncation policy and writes the reply.                            *)
(*                                                                         *)
(* The reply is abstracted to its packed length (respMeta.PayloadSize)    *)
(* and its TC flag; miekg's Msg.Truncate(limit) to "fits in limit and     *)
(* drops at least one RR", which is what it does to a message longer      *)
(* than limit whose question fits.                                        *)
(***************************************************************************)
EXTENDS DoHResolver

CONSTANTS PayloadSizes    \* packed lengths an upstream reply may have

DNSTruncateThreshold == 512

VARIABLES transport,      \* t.transport of the listener: "udp" or "tcp"
          upTC,           \* resp.Truncated as returned by Resolve
          size,           \* respMeta.PayloadSize
          wsize,          \* length of the reply written to the client
          wtc,            \* TC flag of the reply written to the client
          ppc             \* "resolving", "written" or "dropped"

pvars == <<transport, upTC, size, wsize, wtc, ppc>>
allvars == <<vars, pvars>>

ProxyTypeOK ==
    /\ TypeOK
    /\ transport \in {"udp", "tcp"}
    /\ upTC \in BOOLEAN /\ wtc \in BOOLEAN
    /\ size \in PayloadSizes \cup {0}
    /\ wsize \in PayloadSizes \cup {0, DNSTruncateThreshold, ClientUDPSize, DefaultMsgSize}
    /\ ppc \in {"resolving", "written", "dropped"}

ProxyInit ==
    /\ Init
    /\ transport \in {"udp", "tcp"}
    /\ upTC = FALSE /\ size = 0 /\ wsize = 0 /\ wtc = FALSE
    /\ ppc = "resolving"

\* The client's limit as ServeDNS computes it: from query.IsEdns0() of the
\* message Resolve has been working on.
UDPLimit(m) ==
    IF m.opt # NoOpt /\ m.opt > DNSTruncateThreshold THEN m.opt
                                                     ELSE DNSTruncateThreshold

\* Resolve returned an error: no reply is written.
NoResponse ==
    /\ pc = "failed" /\ ppc = "resolving"
    /\ ppc' = "dropped"
    /\ UNCHANGED <<vars, transport, upTC, size, wsize, wtc>>

\* Resolve returned a reply of length len with TC flag tc; the truncation
\* policy and writer.WriteMsg, which may fail.
Respond(len, tc, writeOk) ==
    LET limit == UDPLimit(q)
        cut == transport = "udp" /\ len > DNSTruncateThreshold /\ len > limit
    IN  /\ pc = "done" /\ ppc = "resolving"
        /\ upTC' = tc /\ size' = len
        /\ wsize' = IF cut THEN limit ELSE len
        /\ wtc' = (tc \/ cut)
        /\ ppc' = IF writeOk THEN "written" ELSE "dropped"
        /\ UNCHANGED <<vars, transport>>

ProxyNext ==
    \/ Next /\ UNCHANGED pvars
    \/ NoResponse
    \/ \E len \in PayloadSizes, tc, ok \in BOOLEAN : Respond(len, tc, ok)

ProxySpec == ProxyInit /\ [][ProxyNext]_allvars

-----------------------------------------------------------------------------
(***************************************************************************)
(* Properties                                                              *)
(***************************************************************************)

\* spec 4.6: the truncation limit ServeDNS applies to a UDP reply is the
\* one the inbound query advertised (512, or the UDP size of the client's
\* own OPT if larger): a written reply fits it, and a reply is cut only
\* when it exceeds it.
TruncatesAtClientLimit ==
    (ppc = "written" /\ transport = "udp")
        => /\ wsize <= UDPLimit(orig)
           /\ wsize < size => size > UDPLimit(orig)
=============================================================================
