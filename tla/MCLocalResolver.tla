---------------------------- MODULE MCLocalResolver ----------------------------
EXTENDS LocalResolver, TLC

\* One RCODE per kind of row of Resolve's switch: success without a counter
\* (NOERROR; NXDOMAIN differs only in the TCP fallback), success with a
\* counter (FORMERR, as the default row), failure and iterate (SERVFAIL, as
\* REFUSED), and success and iterate (NOTIMP).
MCRcodes == {"NOERROR", "FORMERR", "SERVFAIL", "NOTIMP"}
=============================================================================
