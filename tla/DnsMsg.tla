-------------------------------- MODULE DnsMsg --------------------------------
(***************************************************************************)
(* The DNS message as the ECS, padding, id and TTL code of trustydns sees *)
(* it, and the dnsutil operations on it (unnamed/part_011,                *)
(* internal/dnsutil/padding.go).  A message is a record: its id, whether  *)
(* it carries a TSIG, whether it is an IN/Query with one question, its    *)
(* OPT RR (NoOpt, or the OPT's UDP size), the ECS sub-option (or "none")  *)
(* and who put it there, an EDNS0 padding sub-option, whether the OPT     *)
(* holds other sub-options (e.g. a cookie), and the TTL of one RR.        *)
(***************************************************************************)
EXTENDS Integers

CONSTANT TtlBits          \* width of an RR TTL (32 in the code)

NoOpt == 0
DefaultMsgSize == 4096    \* dns.DefaultMsgSize, the UDP size NewOPT sets

Msgs(ids, sizes, ecss, ttls) ==
    {m \in [id : ids, tsig : BOOLEAN, inq : BOOLEAN, opt : {NoOpt} \cup sizes,
            ecs : ecss, pad : BOOLEAN, other : BOOLEAN, ttl : ttls] :
        m.opt = NoOpt => m.ecs = "none" /\ ~m.pad /\ ~m.other}

\* FindECS(m) != nil, or FindPadding(m) >= 0.
HasSub(m, code) == IF code = "ecs" THEN m.ecs # "none" ELSE m.pad

\* Mutant: the whole OPT RR is dropped with the sub-option.
RemoveWholeOPT(m, code) ==
    IF HasSub(m, code) THEN [m EXCEPT !.opt = NoOpt] ELSE m

\* Drops the sub-option, and the OPT RR with it when nothing else is left
\* in it; the message is untouched when there was nothing to remove.
RemoveEDNS0FromOPT(m, code) ==
    LET r == IF code = "ecs" THEN [m EXCEPT !.ecs = "none"]
                             ELSE [m EXCEPT !.pad = FALSE]
    IN  CASE ~HasSub(m, code)               -> m
          [] r.ecs = "none" /\ ~r.pad /\ ~r.other -> [r EXCEPT !.opt = NoOpt]
          [] OTHER                          -> r

\* FindOPT, or append NewOPT() with UDP size dns.DefaultMsgSize.
WithOPT(m) == IF m.opt = NoOpt THEN [m EXCEPT !.opt = DefaultMsgSize] ELSE m

CreateECS(m, origin) == [WithOPT(m) EXCEPT !.ecs = origin]

PadAndPack(m) == [WithOPT(RemoveEDNS0FromOPT(m, "pad")) EXCEPT !.pad = TRUE]

\* reduceRRSet on one RR with minimum 1; uint32(ttl) wraps at TtlBits.
ReduceTTL(ttl, by) ==
    IF ttl > 1
    THEN LET t == ttl - by
         IN  (IF t < 1 THEN 1 ELSE t) % (2^TtlBits)
    ELSE ttl
=============================================================================
