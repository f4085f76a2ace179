------------------------------ MODULE MCDnsUtil ------------------------------
(* Model-checking instance of the pure helpers: dnsutil's RR and option    *)
(* functions and the local resolver's bailiwick test.  Each initial state  *)
(* is one input of either group, the other group's variables held at a     *)
(* fixed value, so the two input spaces add rather than multiply.          *)
EXTENDS DnsUtil, LocalDomains, TLC

\* DO bit of the OPT header TTL field (bit 15), alone or with nothing set.
MCOptFlags == {0, 2^15}

allVars == <<vars, localVars>>

MCInit ==
    \/ /\ Init
       /\ domains = <<>> /\ qName = <<>>
    \/ /\ LocalInit
       /\ extra = <<>>
       /\ code = CHOOSE c \in Codes : TRUE
       /\ by = CHOOSE a \in Ages : TRUE
       /\ mlen = CHOOSE n \in MsgLens : TRUE

MCSpec == MCInit /\ [][UNCHANGED allVars]_allVars
=============================================================================
