----------------------------- MODULE DnsManager -----------------------------
(***************************************************************************)
(* internal/dnsmasq, the Manager: one state file port-N.conf per forward,  *)
(* the hosts file rebuilt from all of them, and the reload of dnsmasq.     *)
(*                                                                         *)
(* os.WriteFile truncates the file and then writes it, so every write is   *)
(* two steps here: what is in the file between them is what a crash leaves *)
(* behind and what dnsmasq reads if it happens to re-read the file then.   *)
(* A one-line write is all or nothing: a torn line is not modelled.        *)
(***************************************************************************)
EXTENDS Domain, IPAlloc

CONSTANT Faults     \* which calls may fail, and whether the daemon may crash

FaultKinds == {"crash", "scan", "conf", "read", "hosts", "reload", "bind"}

ASSUME FaultsAssumption == Faults \subseteq FaultKinds

VARIABLES
  conf,     \* conf[p]: the lines port-p.conf contributes to the hosts file
            \* (none when it is absent or empty)
  hosts,    \* the lines of the addn-hosts file
  unread,   \* history: the ports whose state files the last writeHostsFile
            \* could not read
  sighup,   \* a SIGHUP is on its way to dnsmasq
  served    \* the lines dnsmasq last loaded: what names resolve to

dnsVars == <<conf, hosts, unread, sighup, served>>

Line == [ip : IPs, name : Names]

DnsTypeOK ==
  /\ conf \in [Ports -> SUBSET Line]
  /\ hosts \in SUBSET Line
  /\ unread \subseteq Ports
  /\ sighup \in BOOLEAN
  /\ served \in SUBSET Line

DnsInit ==
  /\ conf = [p \in Ports |-> {}]
  /\ hosts = {}
  /\ unread = {}
  /\ sighup = FALSE
  /\ served = {}

(* The regular expression accepts letters a-z, digits, dashes and dots. *)
validHostname(name) == \A i \in 1..Len(name) : name[i][1] # "uni"

(* os.WriteFile of port-p.conf, in Add. *)
TruncateConf(p) ==
  /\ conf' = [conf EXCEPT ![p] = {}]
  /\ UNCHANGED <<hosts, unread, sighup, served>>

FillConf(p, line) ==
  /\ conf' = [conf EXCEPT ![p] = {line}]
  /\ UNCHANGED <<hosts, unread, sighup, served>>

(* Mutants of RemoveConf: the file stays; every port's file goes. *)
RemoveConfKeepsFile(p) == UNCHANGED dnsVars
RemoveConfOfAll(p) ==
  /\ conf' = [q \in Ports |-> {}]
  /\ UNCHANGED <<hosts, unread, sighup, served>>

(* os.Remove of port-p.conf, in Remove; a file that is not there is fine. *)
RemoveConf(p) ==
  /\ conf' = [conf EXCEPT ![p] = {}]
  /\ UNCHANGED <<hosts, unread, sighup, served>>

(* The lines of the state files of the ports in S. *)
LinesIn(S) == UNION {conf[p] : p \in S}
HostLines == LinesIn(Ports)

(* writeHostsFile ignores the errors of ReadDir and ReadFile: what cannot be
   read is left out. *)
Unreadable == IF "read" \in Faults THEN SUBSET Ports ELSE {{}}

(* os.WriteFile of the lines of the state files. *)
TruncateHosts ==
  /\ hosts' = {}
  /\ UNCHANGED <<conf, unread, sighup, served>>

FillHosts ==
  /\ unread' \in Unreadable
  /\ hosts' = LinesIn(Ports \ unread')
  /\ UNCHANGED <<conf, sighup, served>>

(* Mutant of reload: no signal is sent. *)
reloadSkipped == UNCHANGED dnsVars

(* reload: the command returns once the signal is sent. *)
reload ==
  /\ sighup' = TRUE
  /\ UNCHANGED <<conf, hosts, unread, served>>

(* dnsmasq handles the SIGHUP: it re-reads the hosts file as it now is. *)
Reread ==
  /\ sighup
  /\ sighup' = FALSE
  /\ served' = hosts
  /\ UNCHANGED <<conf, hosts, unread>>
=============================================================================
