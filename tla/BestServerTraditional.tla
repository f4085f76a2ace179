--------------------------- MODULE BestServerTraditional ---------------------------
(***************************************************************************)
(* The "traditional" bestserver algorithm (unnamed/part_016:135-163 with   *)
(* baseManager.init and Best, part_016:51-79): keep using a server until  *)
(* it fails, then move to the next one in the list, as res_send() does.   *)
(* Result and Best hold the manager's lock, so each is one atomic step.   *)
(* Servers are their indices; Result is only ever passed a Server of the  *)
(* list here, so serverToIndex always finds it.                           *)
(***************************************************************************)
EXTENDS Naturals

CONSTANTS NumServers    \* len(servers); init rejects an empty list

ASSUME NumServers \in Nat \ {0}

VARIABLE bestIndex      \* baseManager.bestIndex

\* init: the zero value, so the first server of the list is best.
TradInit == bestIndex = 0

\* Mutant: every failure moves the best server on, stale or not.
ResultAlwaysAdvances(ix, success) ==
    bestIndex' = IF ~success THEN (bestIndex + 1) % NumServers ELSE bestIndex

\* Result(server, success, ...): only a failure of the current best moves
\* it, to the next server round-robin.
Result(ix, success) ==
    bestIndex' = IF ~success /\ ix = bestIndex
                 THEN (bestIndex + 1) % NumServers
                 ELSE bestIndex
=============================================================================
