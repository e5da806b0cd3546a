------------------------------ MODULE PortMap -------------------------------
(***************************************************************************)
(* What the daemon promises its clients, whatever fails: the state they    *)
(* list is a map in which every mapping has a port and an address of its   *)
(* own, a mapping never changes while it is listed, mappings come and go   *)
(* one at a time, and only the end of the daemon drops them all.           *)
(***************************************************************************)
CONSTANT Mapping        \* records with fields fwd.port and ip, among others

VARIABLE map

Init == map = {}

Map(m) ==
  /\ \A n \in map : n.fwd.port # m.fwd.port /\ n.ip # m.ip
  /\ map' = map \cup {m}

Unmap(m) == map' = map \ {m}

Reset == map' = {}

Next == (\E m \in Mapping : Map(m)) \/ (\E m \in map : Unmap(m)) \/ Reset

Spec == Init /\ [][Next]_map
=============================================================================
