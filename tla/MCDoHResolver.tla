---------------------------- MODULE MCDoHResolver ----------------------------
EXTENDS DoHResolver, TLC

\* Age header outcomes: absent or unparsable (-1), zero, below and above
\* the TTLs the server returns.
MCAges == {-1, 0, 2, 5}
=============================================================================
