------------------------------- MODULE Daemon -------------------------------
(***************************************************************************)
(* internal/daemon: the poll loop that turns the port-forwards found by    *)
(* the scanner into addresses, DNS records, TCP proxies and entries of the *)
(* state that clients list.                                                *)
(*                                                                         *)
(* The daemon's goroutine is the process pc runs.  Around it the           *)
(* port-forward processes come and go, dnsmasq re-reads its hosts file at  *)
(* its own pace, a signal stops the daemon, a crash ends it anywhere and   *)
(* the service manager starts it again.  A step ends wherever one of these *)
(* can see or interrupt the state: after every file operation, every       *)
(* listener opened or closed, and every change of the listed state.        *)
(***************************************************************************)
EXTENDS DnsManager

CONSTANTS
  CertLoads,    \* outcomes of tlscert.LoadCert at a start of the daemon
  NoJob         \* no add or remove is under way

ASSUME CertLoadsAssumption == CertLoads \subseteq BOOLEAN /\ CertLoads # {}

VARIABLES
  listening,    \* the port-forwards that run now
  pc,           \* where the daemon's goroutine is
  stopping,     \* ctx is done: cleanup() is running
  todo,         \* forwards of the scan that poll() has yet to add
  leaving,      \* ports the loop of poll() or cleanup() has yet to remove
  job,          \* the entry add() or remove() is working on
  active,       \* d.active
  store,        \* d.store: what clients list
  listeners,    \* sockets of the started proxies
  tlsCert       \* d.tlsCert # nil

vars == <<listening, pc, stopping, todo, leaving, job, active, store,
          listeners, tlsCert, used, conf, hosts, unread, sighup, served>>

PortsOf(S) == {e.fwd.port : e \in S}

(* d.active and the store are maps keyed by port. *)
Deleted(S, port) == {e \in S : e.fwd.port # port}
Put(S, e) == Deleted(S, e.fwd.port) \cup {e}

Entry == [fwd : Forwards, name : Names, ip : IPs, up : BOOLEAN, tls : BOOLEAN]

ASSUME NoJobAssumption == NoJob \notin Entry

LineOf(e) == [ip |-> e.ip, name |-> e.name]

(* The socket of an entry's proxy; lport 0 stands for a port the kernel
   picks, which is what listening on port 0 means. *)
Listener(e) == [ip     |-> e.ip,
                lport  |-> ServiceProxyPort(e.fwd.rport),
                target |-> e.fwd.port,
                tls    |-> e.tls]

Locations == {"down", "idle", "scan", "adds", "conf", "confdata", "hosts",
              "hostsdata", "reload", "proxy", "record", "removes", "stop",
              "unconf", "drop"}

(* Every variable ranges over the values of its Go type. *)
TypeOK ==
  /\ DnsTypeOK
  /\ listening \subseteq Forwards
  /\ pc \in Locations
  /\ stopping \in BOOLEAN
  /\ todo \subseteq Forwards
  /\ leaving \subseteq Ports
  /\ job \in Entry \cup {NoJob}
  /\ active \subseteq Entry
  /\ store \subseteq Entry
  /\ listeners \subseteq {Listener(e) : e \in Entry}
  /\ tlsCert \in BOOLEAN
  /\ used \subseteq IPs

Init ==
  /\ AllocInit
  /\ DnsInit
  /\ listening = {}
  /\ pc = "down"
  /\ stopping = FALSE
  /\ todo = {}
  /\ leaving = {}
  /\ job = NoJob
  /\ active = {}
  /\ store = {}
  /\ listeners = {}
  /\ tlsCert = FALSE

-----------------------------------------------------------------------------
(* The port-forward processes.  Two of them may listen on one port, one on
   127.0.0.1 and one on ::1. *)

Listen(f) ==
  /\ f \notin listening
  /\ listening' = listening \cup {f}
  /\ UNCHANGED <<pc, stopping, todo, leaving, job, active, store, listeners,
                 tlsCert, used, dnsVars>>

Exit(f) ==
  /\ f \in listening
  /\ listening' = listening \ {f}
  /\ UNCHANGED <<pc, stopping, todo, leaving, job, active, store, listeners,
                 tlsCert, used, dnsVars>>

DnsmasqRereads ==
  /\ Reread
  /\ UNCHANGED <<listening, pc, stopping, todo, leaving, job, active, store,
                 listeners, tlsCert, used>>

-----------------------------------------------------------------------------
(* New and the start of Run, up to the first poll. *)
Start ==
  /\ pc = "down"
  /\ pc' = "scan"
  /\ tlsCert' \in CertLoads
  /\ UNCHANGED <<listening, stopping, todo, leaving, job, active, store,
                 listeners, used, dnsVars>>

(* What the process held goes with it: its memory and its sockets. *)
ProcessEnds ==
  /\ pc' = "down"
  /\ stopping' = FALSE
  /\ todo' = {}
  /\ leaving' = {}
  /\ job' = NoJob
  /\ active' = {}
  /\ store' = {}
  /\ listeners' = {}
  /\ tlsCert' = FALSE
  /\ used' = {}
  /\ UNCHANGED <<listening, dnsVars>>

Crash ==
  /\ "crash" \in Faults
  /\ pc # "down"
  /\ ProcessEnds

-----------------------------------------------------------------------------
(* Run's select and poll. *)

Tick ==
  /\ pc = "idle"
  /\ pc' = "scan"
  /\ UNCHANGED <<listening, stopping, todo, leaving, job, active, store,
                 listeners, tlsCert, used, dnsVars>>

(* Mutant of Signal: the process exits without cleanup(). *)
SignalWithoutCleanup == pc = "idle" /\ ProcessEnds

(* ctx.Done: cleanup() removes every entry. *)
Signal ==
  /\ pc = "idle"
  /\ pc' = "removes"
  /\ stopping' = TRUE
  /\ leaving' = PortsOf(active)
  /\ UNCHANGED <<listening, todo, job, active, store, listeners, tlsCert, used,
                 dnsVars>>

(* One forward of each port with a listener, whichever the scan saw last. *)
OnePerPort(S) ==
  {T \in SUBSET S : /\ \A f, g \in T : f.port = g.port => f = g
                    /\ \A f \in S : \E g \in T : f.port = g.port}

(* Mutant of Scan: forwards whose port is active are added again. *)
ScanAddsAgain ==
  /\ pc = "scan"
  /\ pc' = "adds"
  /\ \E found \in OnePerPort(listening) :
       leaving' = PortsOf(active) \ {f.port : f \in found} /\ todo' = found
  /\ UNCHANGED <<listening, stopping, job, active, store, listeners, tlsCert,
                 used, dnsVars>>

(* What is added meanwhile was found, so the entries to remove are those
   active now whose port was not. *)
Scan ==
  /\ pc = "scan"
  /\ pc' = "adds"
  /\ \E found \in OnePerPort(listening) :
       /\ leaving' = PortsOf(active) \ {f.port : f \in found}
       /\ todo' = {f \in found : f.port \notin PortsOf(active)}
  /\ UNCHANGED <<listening, stopping, job, active, store, listeners, tlsCert,
                 used, dnsVars>>

ScanFails ==
  /\ pc = "scan"
  /\ "scan" \in Faults
  /\ pc' = "idle"
  /\ UNCHANGED <<listening, stopping, todo, leaving, job, active, store,
                 listeners, tlsCert, used, dnsVars>>

AddsDone ==
  /\ pc = "adds"
  /\ todo = {}
  /\ pc' = "removes"
  /\ UNCHANGED <<listening, stopping, todo, leaving, job, active, store,
                 listeners, tlsCert, used, dnsVars>>

(* The range over d.active is over: the end of poll(), or of cleanup() and
   with it of the process. *)
RemovesDone ==
  /\ pc = "removes"
  /\ leaving = {}
  /\ IF stopping
       THEN ProcessEnds
       ELSE /\ pc' = "idle"
            /\ UNCHANGED <<listening, stopping, todo, leaving, job, active,
                           store, listeners, tlsCert, used, dnsVars>>

-----------------------------------------------------------------------------
(* add(pf) *)

ActiveNames == {e.name : e \in active}

NewEntry(f, ip) ==
  [fwd  |-> f,
   name |-> Generate(f, ActiveNames),
   ip   |-> ip,
   up   |-> FALSE,
   tls  |-> ServiceName(f.rport) = "https" /\ tlsCert]

AddBegins(f) ==
  /\ pc = "adds"
  /\ f \in todo
  /\ validHostname(Generate(f, ActiveNames))
  /\ \E ip \in IPs : Allocate(ip) /\ job' = NewEntry(f, ip)
  /\ todo' = todo \ {f}
  /\ pc' = "conf"
  /\ UNCHANGED <<listening, stopping, leaving, active, store, listeners,
                 tlsCert, dnsVars>>

(* Allocate fails, or Manager.Add refuses the name and the address goes
   straight back. *)
AddRefused(f) ==
  /\ pc = "adds"
  /\ f \in todo
  /\ Exhausted \/ ~validHostname(Generate(f, ActiveNames))
  /\ todo' = todo \ {f}
  /\ UNCHANGED <<listening, pc, stopping, leaving, job, active, store,
                 listeners, tlsCert, used, dnsVars>>

OpensConf ==
  /\ pc = "conf"
  /\ TruncateConf(job.fwd.port)
  /\ pc' = "confdata"
  /\ UNCHANGED <<listening, stopping, todo, leaving, job, active, store,
                 listeners, tlsCert, used>>

WritesConf ==
  /\ pc = "confdata"
  /\ FillConf(job.fwd.port, LineOf(job))
  /\ pc' = "hosts"
  /\ UNCHANGED <<listening, stopping, todo, leaving, job, active, store,
                 listeners, tlsCert, used>>

-----------------------------------------------------------------------------
(* The part of Manager.Add and Manager.Remove that is the same. *)

Removing == job \in active

OpensHosts ==
  /\ pc = "hosts"
  /\ TruncateHosts
  /\ pc' = "hostsdata"
  /\ UNCHANGED <<listening, stopping, todo, leaving, job, active, store,
                 listeners, tlsCert, used>>

WritesHosts ==
  /\ pc = "hostsdata"
  /\ FillHosts
  /\ pc' = "reload"
  /\ UNCHANGED <<listening, stopping, todo, leaving, job, active, store,
                 listeners, tlsCert, used>>

Reloads ==
  /\ pc = "reload"
  /\ reload
  /\ pc' = IF Removing THEN "drop" ELSE "proxy"
  /\ UNCHANGED <<listening, stopping, todo, leaving, job, active, store,
                 listeners, tlsCert, used>>

DnsCallMayFail ==
  \/ pc \in {"conf", "confdata", "unconf"} /\ "conf" \in Faults
  \/ pc \in {"hosts", "hostsdata"} /\ "hosts" \in Faults
  \/ pc = "reload" /\ "reload" \in Faults

(* Mutants of AddFails: the address is not freed; the error is ignored. *)
AddFailsLeaks ==
  /\ DnsCallMayFail
  /\ ~Removing
  /\ job' = NoJob
  /\ pc' = "adds"
  /\ UNCHANGED <<listening, stopping, todo, leaving, active, store, listeners,
                 tlsCert, used, dnsVars>>
AddFailsUnnoticed ==
  /\ DnsCallMayFail
  /\ ~Removing
  /\ pc' = "proxy"
  /\ UNCHANGED <<listening, stopping, todo, leaving, job, active, store,
                 listeners, tlsCert, used, dnsVars>>

(* add() gives the address back and returns; what was written stays. *)
AddFails ==
  /\ DnsCallMayFail
  /\ ~Removing
  /\ Free(job.ip)
  /\ job' = NoJob
  /\ pc' = "adds"
  /\ UNCHANGED <<listening, stopping, todo, leaving, active, store, listeners,
                 tlsCert, dnsVars>>

(* remove() ignores the error and goes on. *)
DnsRemoveFails ==
  /\ DnsCallMayFail
  /\ Removing
  /\ pc' = "drop"
  /\ UNCHANGED <<listening, stopping, todo, leaving, job, active, store,
                 listeners, tlsCert, used, dnsVars>>

-----------------------------------------------------------------------------
(* The rest of add(): the proxy, then the entry. *)

AddressInUse ==
  \E k \in listeners : /\ k.ip = job.ip
                       /\ k.lport = ServiceProxyPort(job.fwd.rport)

StartsProxy ==
  /\ pc = "proxy"
  /\ ~AddressInUse
  /\ listeners' = listeners \cup {Listener(job)}
  /\ job' = [job EXCEPT !.up = TRUE]
  /\ pc' = "record"
  /\ UNCHANGED <<listening, stopping, todo, leaving, active, store, tlsCert,
                 used, dnsVars>>

(* The entry is kept without a proxy. *)
ProxyFails ==
  /\ pc = "proxy"
  /\ AddressInUse \/ "bind" \in Faults
  /\ pc' = "record"
  /\ UNCHANGED <<listening, stopping, todo, leaving, job, active, store,
                 listeners, tlsCert, used, dnsVars>>

Records ==
  /\ pc = "record"
  /\ active' = Put(active, job)
  /\ store' = Put(store, job)
  /\ job' = NoJob
  /\ pc' = "adds"
  /\ UNCHANGED <<listening, stopping, todo, leaving, listeners, tlsCert, used,
                 dnsVars>>

-----------------------------------------------------------------------------
(* remove(port) *)

RemoveBegins(e) ==
  /\ pc = "removes"
  /\ e.fwd.port \in leaving
  /\ leaving' = leaving \ {e.fwd.port}
  /\ job' = e
  /\ pc' = "stop"
  /\ UNCHANGED <<listening, stopping, todo, active, store, listeners, tlsCert,
                 used, dnsVars>>

(* Mutants of StopsProxy: the listener is not closed; Stop waits for the
   connections, which may last as long as the forward. *)
StopsProxyLeavesListener ==
  /\ pc = "stop"
  /\ pc' = "unconf"
  /\ UNCHANGED <<listening, stopping, todo, leaving, job, active, store,
                 listeners, tlsCert, used, dnsVars>>

StopsProxyWaits ==
  /\ pc = "stop"
  /\ \A f \in listening : f.port # job.fwd.port
  /\ listeners' = IF job.up THEN listeners \ {Listener(job)} ELSE listeners
  /\ pc' = "unconf"
  /\ UNCHANGED <<listening, stopping, todo, leaving, job, active, store,
                 tlsCert, used, dnsVars>>

StopsProxy ==
  /\ pc = "stop"
  /\ listeners' = IF job.up THEN listeners \ {Listener(job)} ELSE listeners
  /\ pc' = "unconf"
  /\ UNCHANGED <<listening, stopping, todo, leaving, job, active, store,
                 tlsCert, used, dnsVars>>

RemovesConf ==
  /\ pc = "unconf"
  /\ RemoveConf(job.fwd.port)
  /\ pc' = "hosts"
  /\ UNCHANGED <<listening, stopping, todo, leaving, job, active, store,
                 listeners, tlsCert, used>>

(* Mutant of Drops: the address is not freed. *)
DropsLeaks ==
  /\ pc = "drop"
  /\ active' = Deleted(active, job.fwd.port)
  /\ store' = Deleted(store, job.fwd.port)
  /\ job' = NoJob
  /\ pc' = "removes"
  /\ UNCHANGED <<listening, stopping, todo, leaving, listeners, tlsCert, used,
                 dnsVars>>

Drops ==
  /\ pc = "drop"
  /\ Free(job.ip)
  /\ active' = Deleted(active, job.fwd.port)
  /\ store' = Deleted(store, job.fwd.port)
  /\ job' = NoJob
  /\ pc' = "removes"
  /\ UNCHANGED <<listening, stopping, todo, leaving, listeners, tlsCert,
                 dnsVars>>

-----------------------------------------------------------------------------
DnsStep ==
  OpensConf \/ WritesConf \/ OpensHosts \/ WritesHosts \/ Reloads
    \/ AddFails \/ DnsRemoveFails

AddStep ==
  \/ \E f \in Forwards : AddBegins(f) \/ AddRefused(f)
  \/ StartsProxy \/ ProxyFails \/ Records

RemoveStep ==
  (\E e \in active : RemoveBegins(e)) \/ StopsProxy \/ RemovesConf \/ Drops

PollStep == Tick \/ Scan \/ ScanFails \/ AddsDone \/ RemovesDone

DaemonStep == PollStep \/ AddStep \/ DnsStep \/ RemoveStep

Environment == (\E f \in Forwards : Listen(f) \/ Exit(f)) \/ DnsmasqRereads

Next == Environment \/ Start \/ Signal \/ Crash \/ DaemonStep

Spec == Init /\ [][Next]_vars

(* The goroutine keeps running, dnsmasq handles its signals, and the service
   manager restarts the daemon whenever it ends (Restart=always, KeepAlive). *)
FairSpec ==
  Spec /\ WF_vars(DaemonStep) /\ WF_vars(DnsmasqRereads) /\ WF_vars(Start)
=============================================================================
