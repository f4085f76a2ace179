-------------------------------- MODULE DnsUtil --------------------------------
(***************************************************************************)
(* The RR-list algorithms of the DNS message utilities, at the level of   *)
(* the RRs themselves: RemoveEDNS0FromOPT and reduceRRSet (unnamed/       *)
(* part_011) and the padding arithmetic of PadAndPack                     *)
(* (internal/dnsutil/padding.go).  Each is written as the loop the code   *)
(* runs and checked against a reference definition over every input of a *)
(* bounded size.                                                          *)
(*                                                                         *)
(* An RR is a record: kind "rr" with a TTL, or kind "opt" (the OPT        *)
(* pseudo-RR) whose header TTL field holds the extended RCODE, version    *)
(* and DO flag, and whose options are a sequence of option codes.         *)
(***************************************************************************)
EXTENDS Integers, Sequences, FiniteSets, SequencesExt

CONSTANTS Ttls,        \* TTLs of ordinary RRs
          OptFlags,    \* values of an OPT header TTL field (e.g. DO = 2^15)
          Codes,       \* EDNS0 option codes
          MaxRRs,      \* length bound of an RR list
          MaxOpts,     \* length bound of an OPT's option list
          Ages,        \* values of "by"
          TtlBits,     \* width of the TTL field (32 in the code)
          MsgLens,     \* msg.Len() values PadAndPack may see
          Modulo       \* the pad modulo (128 for queries, 468 for replies)

Uint(x) == x % (2^TtlBits)

RRs == [kind : {"rr"}, ttl : Ttls, opts : {<<>>}]
       \cup [kind : {"opt"}, ttl : OptFlags, opts : BoundedSeq(Codes, MaxOpts)]

-----------------------------------------------------------------------------
(* RemoveEDNS0FromOPT (part_011:140-172): copy every RR, rebuild every OPT *)
(* without the code, keep a rebuilt OPT only if something survived in it,  *)
(* and install the copy only if something was removed.                     *)

\* Mutant: an OPT emptied by the removal is kept.
RECURSIVE RemoveLoopKeepsEmpty(_, _)
RemoveLoopKeepsEmpty(rrs, code) ==
    IF rrs = <<>> THEN <<<<>>, FALSE>>
    ELSE LET rr   == Head(rrs)
             rest == RemoveLoopKeepsEmpty(Tail(rrs), code)
             kept == SelectSeq(rr.opts, LAMBDA o : o # code)
             out  == IF rr.kind # "opt" THEN <<rr>>
                     ELSE <<[rr EXCEPT !.opts = kept]>>
         IN  <<out \o rest[1], (rr.kind = "opt" /\ Len(kept) < Len(rr.opts)) \/ rest[2]>>

RECURSIVE RemoveLoop(_, _)
RemoveLoop(rrs, code) ==
    IF rrs = <<>> THEN <<<<>>, FALSE>>
    ELSE LET rr   == Head(rrs)
             rest == RemoveLoop(Tail(rrs), code)
             kept == SelectSeq(rr.opts, LAMBDA o : o # code)
             out  == IF rr.kind # "opt" THEN <<rr>>
                     ELSE IF kept # <<>> THEN <<[rr EXCEPT !.opts = kept]>>
                     ELSE <<>>
         IN  <<out \o rest[1], (rr.kind = "opt" /\ Len(kept) < Len(rr.opts)) \/ rest[2]>>

RemoveEDNS0FromOPT(extra, code) ==
    LET r == RemoveLoop(extra, code)
    IN  <<IF r[2] THEN r[1] ELSE extra, r[2]>>

-----------------------------------------------------------------------------
(* reduceRRSet (part_011:214-235), one pass over an RR list.               *)

Reduced(ttl, by, minimum) ==
    IF ttl > minimum
    THEN Uint(IF ttl - by < minimum THEN minimum ELSE ttl - by)
    ELSE ttl

\* Mutant: every RR above the minimum is counted, changed or not.
RECURSIVE ReduceRRSetCountsAll(_, _, _)
ReduceRRSetCountsAll(rrs, by, minimum) ==
    IF rrs = <<>> THEN <<<<>>, 0>>
    ELSE LET rr   == Head(rrs)
             t    == Reduced(rr.ttl, by, minimum)
             rest == ReduceRRSetCountsAll(Tail(rrs), by, minimum)
         IN  <<<<[rr EXCEPT !.ttl = t]>> \o rest[1],
               rest[2] + (IF rr.ttl > minimum THEN 1 ELSE 0)>>

RECURSIVE ReduceRRSet(_, _, _)
ReduceRRSet(rrs, by, minimum) ==
    IF rrs = <<>> THEN <<<<>>, 0>>
    ELSE LET rr   == Head(rrs)
             t    == Reduced(rr.ttl, by, minimum)
             rest == ReduceRRSet(Tail(rrs), by, minimum)
         IN  <<<<[rr EXCEPT !.ttl = t]>> \o rest[1],
               rest[2] + (IF t # rr.ttl THEN 1 ELSE 0)>>

-----------------------------------------------------------------------------
(* PadAndPack's arithmetic (padding.go:77-84): the length of the packed   *)
(* message once the padding option is sized; mLen already counts the      *)
(* option's own header.                                                   *)

ExtraPadding(mLen) == Modulo - (mLen % Modulo)

PaddedLen(mLen) ==
    IF ExtraPadding(mLen) > 0 THEN mLen + ExtraPadding(mLen) ELSE mLen

-----------------------------------------------------------------------------

VARIABLES extra, code, by, mlen

vars == <<extra, code, by, mlen>>

TypeOK ==
    /\ extra \in BoundedSeq(RRs, MaxRRs)
    /\ code \in Codes /\ by \in Ages /\ mlen \in MsgLens

\* Every input at once: an RR list, an option code, an Age and a length.
Init ==
    /\ extra \in BoundedSeq(RRs, MaxRRs)
    /\ code \in Codes /\ by \in Ages /\ mlen \in MsgLens

\* The functions are pure: nothing changes after the inputs are chosen.
Next == UNCHANGED vars

Spec == Init /\ [][Next]_vars

-----------------------------------------------------------------------------
(***************************************************************************)
(* Reference definitions and properties                                   *)
(***************************************************************************)

\* What RemoveEDNS0FromOPT promises: every occurrence of the code is gone
\* from every OPT, OPTs left empty are dropped, everything else keeps its
\* order, and the result says whether anything was removed; with nothing
\* to remove the list is left as it was.
RefRemove(rrs, c) ==
    LET strip(rr) == IF rr.kind = "opt"
                     THEN [rr EXCEPT !.opts = SelectSeq(rr.opts, LAMBDA o : o # c)]
                     ELSE rr
        keep(rr)  == rr.kind = "rr" \/ rr.opts # <<>>
        found     == \E i \in 1..Len(rrs) : rrs[i].kind = "opt" /\ Contains(rrs[i].opts, c)
    IN  <<IF found THEN SelectSeq([i \in 1..Len(rrs) |-> strip(rrs[i])], keep)
                   ELSE rrs,
          found>>

\* The multi-OPT, multi-occurrence removal loop (part_011:140-172) agrees
\* with the reference on every RR list of the bound.
RemoveMatchesReference == RemoveEDNS0FromOPT(extra, code) = RefRemove(extra, code)

\* reduceRRSet with minimum 1, on ordinary RRs: no TTL rises (no wrap), no
\* positive TTL drops below 1, none drops by more than the Age, and the
\* count it returns is the number of RRs it really changed.
ReduceTTLSound ==
    LET r == ReduceRRSet(extra, by, 1)
        changed == {i \in 1..Len(extra) : r[1][i].ttl # extra[i].ttl}
    IN  /\ r[2] = Cardinality(changed)
        /\ \A i \in 1..Len(extra) : extra[i].kind = "rr" =>
               /\ r[1][i].ttl <= extra[i].ttl
               /\ r[1][i].ttl >= extra[i].ttl - by
               /\ extra[i].ttl >= 1 => r[1][i].ttl >= 1

\* RFC8467 and the comment at padding.go:81-82: a message is padded to the
\* closest multiple of the modulo, and one already at a multiple needs no
\* padding bytes.
PadsToClosestMultiple ==
    PaddedLen(mlen) = mlen + ((Modulo - (mlen % Modulo)) % Modulo)

\* RFC6891 6.1.3: the TTL field of the OPT pseudo-RR is the extended RCODE,
\* version and flags (DO), not a TTL; reducing TTLs by an Age leaves it as
\* it is.
OptFlagsUntouched ==
    LET r == ReduceRRSet(extra, by, 1)
    IN  \A i \in 1..Len(extra) : extra[i].kind = "opt" => r[1][i].ttl = extra[i].ttl
=============================================================================
