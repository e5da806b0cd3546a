------------------------------- MODULE Config -------------------------------
(***************************************************************************)
(* The part of internal/config the daemon consults while it runs: the      *)
(* table from remote ports to service names and the configured listen      *)
(* port of each service.                                                   *)
(***************************************************************************)
EXTENDS Naturals

CONSTANT ServicePorts   \* cfg.ServicePorts: service name -> proxy listen port

Services == {"http", "https", "pgsql", "mysql", "redis", "mongo", "k8s"}

ASSUME ServicePortsAssumption ==
  /\ DOMAIN ServicePorts \subseteq Services
  /\ \A s \in DOMAIN ServicePorts : ServicePorts[s] \in Nat

serviceNameByPort ==
  [n \in {80, 8080, 443, 8443, 5432, 3306, 6379, 27017, 6443} |->
     CASE n \in {80, 8080}  -> "http"
       [] n \in {443, 8443} -> "https"
       [] n = 5432          -> "pgsql"
       [] n = 3306          -> "mysql"
       [] n = 6379          -> "redis"
       [] n = 27017         -> "mongo"
       [] n = 6443          -> "k8s"]

(* ServiceName answers "" for a remote port that is not in the table. *)
ServiceName(remotePort) ==
  IF remotePort \in DOMAIN serviceNameByPort THEN serviceNameByPort[remotePort]
                                             ELSE ""

(* The proxy listens on the service's configured port, and on the remote
   port itself when the service is unknown or not configured. *)
ServiceProxyPort(remotePort) ==
  IF ServiceName(remotePort) \in DOMAIN ServicePorts
    THEN ServicePorts[ServiceName(remotePort)]
    ELSE remotePort
=============================================================================
