----------------------------- MODULE Directory -----------------------------
(***************************************************************************)
(* What the server promises about its user directory, without saying how:  *)
(* an id has at most one address, an entry enters only while its id is     *)
(* free, and it leaves only after that very entry, at that very address,   *)
(* became the suspect of a failed health check.                            *)
(***************************************************************************)
CONSTANTS Name,     \* github ids
          Addr,     \* IPv4 addresses
          NoEntry   \* "nobody is suspected": not an entry

Entry == [github_id : Name, ip_addr : Addr]

VARIABLES dir,      \* the registered entries
          suspect   \* the entry whose check has just failed, or NoEntry

vars == <<dir, suspect>>

Init == dir = {} /\ suspect = NoEntry

Register(e) ==
    /\ \A d \in dir : d.github_id # e.github_id
    /\ dir' = dir \cup {e}
    /\ UNCHANGED suspect

Suspect(e) ==
    /\ suspect = NoEntry
    /\ e \in dir
    /\ suspect' = e
    /\ UNCHANGED dir

Expel ==
    /\ suspect \in dir
    /\ dir' = dir \ {suspect}
    /\ suspect' = NoEntry

Next ==
    \/ \E e \in Entry : Register(e) \/ Suspect(e)
    \/ Expel

Spec == Init /\ [][Next]_vars
============================================================================
