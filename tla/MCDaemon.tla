------------------------------ MODULE MCDaemon ------------------------------
(***************************************************************************)
(* Instances of the daemon for TLC.                                        *)
(***************************************************************************)
EXTENDS DaemonProps

MCServicePorts == [s \in {"https"} |-> 443]

Fwd(port, host, resource, rport) ==
  [port |-> port, host |-> host, resource |-> resource, rport |-> rport]

Db  == << <<"id", "db">> >>
Web == << <<"id", "web">> >>

(* Two ssh forwards to one remote service (their plain names collide), and a
   kubectl forward to an https service that may take the first one's port. *)
MCPorts == {5432, 5433}
MCForwards == {Fwd(5432, Db, << >>, 5432),
               Fwd(5433, Db, << >>, 5432),
               Fwd(5432, << >>, Web, 8443)}

(* The first two, and one on the second's port whose name has a letter
   outside a-z, which Manager.Add refuses. *)
FaultForwards == {Fwd(5432, Db, << >>, 5432),
                  Fwd(5433, Db, << >>, 5432),
                  Fwd(5433, << <<"uni", "cafe">> >>, << >>, 5432)}

(* One forward more than the pool has addresses. *)
PoolPorts == {5432, 5433, 9000}
PoolForwards == {Fwd(5432, Db, << >>, 5432),
                 Fwd(5433, Db, << >>, 5432),
                 Fwd(9000, << >>, << >>, 7000)}

NoOverrides == [p \in {} |-> << >>]
=============================================================================
