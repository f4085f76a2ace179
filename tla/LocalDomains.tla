---------------------------- MODULE LocalDomains ----------------------------
(***************************************************************************)
(* The local resolver's bailiwick test (local.New -> loadResolvConf, and   *)
(* InBailiwick, src/internal/resolver/local/reporter_test.go).  New turns  *)
(* the resolv.conf search list followed by the -e local domains into a     *)
(* list of lower-case domains with a leading and a trailing "." guard,     *)
(* refusing one with "..", and InBailiwick decides by a plain string       *)
(* suffix test whether the proxy sends a query to the local resolver.     *)
(*                                                                         *)
(* Strings are sequences of one-character strings over Chars.  The         *)
(* variables are the inputs of one New/InBailiwick pair; the property      *)
(* compares the code's answer with one stated over DNS labels.             *)
(***************************************************************************)
EXTENDS Sequences, SequencesExt, TLC

CONSTANTS Chars,         \* the alphabet of names; must contain "."
          MaxDomainLen,  \* length bound of one configured domain
          MaxDomains,    \* length bound of the search ++ local domain list
          MaxNameLen     \* length bound of a query name

ASSUME "." \in Chars

Dot == "."

\* strings.ToLower over the alphabet: the upper-case letters that matter.
UpperToLower == ("A" :> "a") @@ ("B" :> "b")

ToLower(s) ==
    [i \in 1..Len(s) |-> IF s[i] \in DOMAIN UpperToLower
                         THEN UpperToLower[s[i]] ELSE s[i]]

Strings(n) == BoundedSeq(Chars, n)

\* GuardDomain without the leading guard: "a" would then match "ba.".
GuardDomainNoLead(d) ==
    LET l == ToLower(d) IN IF Last(l) # Dot THEN Append(l, Dot) ELSE l

\* One non-empty domain of loadResolvConf's loop, lower-cased and guarded.
GuardDomain(d) ==
    LET l  == ToLower(d)
        l1 == IF l[1] # Dot THEN <<Dot>> \o l ELSE l
    IN  IF Last(l1) # Dot THEN Append(l1, Dot) ELSE l1

\* loadResolvConf's loop over search ++ LocalDomains: empty entries are
\* skipped, a guarded domain with ".." fails New, a repeat is dropped.
\* The result is <<ok, t.domains>>.
RECURSIVE LoadDomains(_, _)
LoadDomains(ds, acc) ==
    IF ds = <<>> THEN <<TRUE, acc>>
    ELSE IF Head(ds) = <<>> THEN LoadDomains(Tail(ds), acc)
    ELSE LET g == GuardDomain(Head(ds)) IN
         IF <<Dot, Dot>> \in SubSeqs(g) THEN <<FALSE, acc>>
         ELSE LoadDomains(Tail(ds),
                          IF Contains(acc, g) THEN acc ELSE Append(acc, g))

\* InBailiwick(qName) with t.domains = doms.
InBailiwick(doms, qName) ==
    IF ~Contains(qName, Dot) THEN doms # <<>>
    ELSE LET q1 == <<Dot>> \o ToLower(qName)
             q  == IF Last(q1) # Dot THEN Append(q1, Dot) ELSE q1
         IN  \E i \in 1..Len(doms) : IsSuffix(doms[i], q)


-----------------------------------------------------------------------------
(* Reference: names as sequences of labels.                                *)

\* The labels of a string between its dots; "" is one empty label.
RECURSIVE Labels(_)
Labels(s) ==
    IF s = <<>> THEN << <<>> >>
    ELSE LET r == Labels(Tail(s)) IN
         IF Head(s) = Dot THEN << <<>> >> \o r
         ELSE [r EXCEPT ![1] = <<Head(s)>> \o @]

\* A name written with an optional leading and an optional trailing dot.
DropRoot(s, ls) == IF s # <<>> /\ Last(s) = Dot /\ ls # <<>> THEN Front(ls) ELSE ls
DomainLabels(d) ==
    LET ls == Labels(ToLower(d))
    IN  DropRoot(d, IF Head(d) = Dot THEN Tail(ls) ELSE ls)
NameLabels(q) == DropRoot(q, Labels(ToLower(q)))

RefConfigured(ds) == {ds[i] : i \in {j \in 1..Len(ds) : ds[j] # <<>>}}
RefValid(ds) == \A d \in RefConfigured(ds) : ~Contains(DomainLabels(d), <<>>)

\* A dotted name is local iff its labels end with a configured domain's
\* labels; a single-label name is local iff any domain is configured.
RefInBailiwick(ds, q) ==
    IF ~Contains(q, Dot) THEN RefConfigured(ds) # {}
    ELSE \E d \in RefConfigured(ds) : IsSuffix(DomainLabels(d), NameLabels(q))

-----------------------------------------------------------------------------
VARIABLES domains, qName

localVars == <<domains, qName>>

LocalTypeOK ==
    /\ domains \in BoundedSeq(Strings(MaxDomainLen), MaxDomains)
    /\ qName \in Strings(MaxNameLen)

LocalInit == LocalTypeOK

LocalSpec == LocalInit /\ [][UNCHANGED localVars]_localVars

(***************************************************************************)
(* New refuses exactly the configurations that have an empty label, and   *)
(* when it accepts one, InBailiwick's string suffix test on the guarded   *)
(* domains routes a query locally exactly when its labels end with those  *)
(* of a configured domain, whatever the case, the optional trailing dot   *)
(* and the repeats (reporter_test.go:267-321).                            *)
(***************************************************************************)
BailiwickMatchesLabels ==
    LET r == LoadDomains(domains, <<>>)
    IN  /\ r[1] = RefValid(domains)
        /\ r[1] => InBailiwick(r[2], qName) = RefInBailiwick(domains, qName)
=============================================================================
