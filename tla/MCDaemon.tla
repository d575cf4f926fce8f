------------------------------ MODULE MCDaemon ------------------------------
(***************************************************************************)
(* An instance of Daemon for TLC.  The parties around a daemon hardly meet *)
(* one another, so a behaviour casts two of them: a client and a direct    *)
(* eviction, a subscriber and a backup schedule, or any one with a fault.  *)
(***************************************************************************)
EXTENDS Daemon

Casting ==
    LET parties == {r \in {"client", "evict", "tray", "backup", "fault"} :
            CASE r = "client" -> \E c \in Clients : client[c].at = "idle"
              [] r = "evict"  -> \E p \in Evicts : life[p] = "off"
              [] r = "tray"   -> tray.conn # "closed"
              [] r = "backup" -> due # "off"
              [] r = "fault"  -> faults < MaxFaults}
    IN \E pair \in {{"client", "evict"}, {"tray", "backup"}} \cup
                   {{r, "fault"} : r \in {"client", "evict", "tray", "backup"}} :
           parties \subseteq pair

MCInit == Init /\ Casting
MCSpec == MCInit /\ [][Next]_vars
MCFairSpec == MCSpec /\ Fairness
=============================================================================
