---------------------------- MODULE MCServerDaemon ----------------------------
EXTENDS ServerDaemon, TLC

\* Handlers are interchangeable, and so are connection keys.
DaemonSymmetry == Permutations(Handlers) \cup Permutations(Keys)
=============================================================================
