------------------------------ MODULE BestServerSet ------------------------------
(***************************************************************************)
(* The contract the traditional manager keeps (part_016:135-163) within  *)
(* the bestserver.Manager interface (manager.go:17-45): Best() always      *)
(* hands out a server of the list, a caller reports on exactly the server *)
(* it was handed, and the best server changes only when a caller reports  *)
(* a failure of the server that is best at that moment.  A report on a    *)
(* server that is no longer best (another goroutine already moved on)     *)
(* changes nothing.  manager.go only says Result may reassess; the        *)
(* latency manager also moves best on successes and sampling, so this is  *)
(* not every Manager's contract.                                          *)
(***************************************************************************)
EXTENDS Integers

CONSTANTS NumServers,   \* len(servers)
          Clients       \* goroutines using the manager

Servers == 0..NumServers - 1
None == -1

VARIABLES best,         \* the index Best() returns
          held          \* held[c]: the server c got from Best() and has not reported on

Init ==
    /\ best \in Servers
    /\ held = [c \in Clients |-> None]

GetBest(c) ==
    /\ held[c] = None
    /\ held' = [held EXCEPT ![c] = best]
    /\ UNCHANGED best

Report(c, success) ==
    /\ held[c] # None
    /\ held' = [held EXCEPT ![c] = None]
    /\ IF ~success /\ held[c] = best /\ NumServers > 1
       THEN best' \in Servers \ {best}
       ELSE best' = best

Next == \E c \in Clients : GetBest(c) \/ \E s \in BOOLEAN : Report(c, s)

Spec == Init /\ [][Next]_<<best, held>>
=============================================================================
