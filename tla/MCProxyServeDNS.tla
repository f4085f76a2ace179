--------------------------- MODULE MCProxyServeDNS ---------------------------
EXTENDS ProxyServeDNS, TLC

\* Age header outcomes: absent or unparsable (-1), and above the
\* largest TTL the server returns.
MCAges == {-1, 5}
=============================================================================
