------------------------------ MODULE IPAlloc -------------------------------
(***************************************************************************)
(* internal/ipalloc: the pool 127.0.1.1 - 127.0.1.254, an address being    *)
(* its last byte.                                                          *)
(***************************************************************************)
EXTENDS Naturals

CONSTANT PoolSize       \* 254 in the code

ASSUME PoolSizeAssumption == PoolSize \in Nat \ {0}

VARIABLE used           \* addresses handed out and not given back

IPs == 1..PoolSize

AllocInit == used = {}

Exhausted == IPs \subseteq used

(* Mutant of Allocate: marks the address after the one it returns. *)
AllocateMarksNext(ip) ==
  /\ ip \in IPs \ used
  /\ used' = used \cup {ip + 1}

(* Allocate returns the lowest free address. *)
Allocate(ip) ==
  /\ ip \in IPs \ used
  /\ \A i \in IPs \ used : ip <= i
  /\ used' = used \cup {ip}

(* Freeing an address that is not in use changes nothing. *)
Free(ip) == used' = used \ {ip}
=============================================================================
