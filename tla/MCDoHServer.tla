----------------------------- MODULE MCDoHServer -----------------------------
EXTENDS DoHServer, TLC
=============================================================================
