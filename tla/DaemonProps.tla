----------------------------- MODULE DaemonProps ----------------------------
(***************************************************************************)
(* What is claimed of the daemon.                                          *)
(***************************************************************************)
EXTENDS Daemon, FiniteSets

(* Those that hold an address: the entries, and the one being added. *)
Holders == (active \cup {job}) \ {NoJob}

LinesOf(S) == {LineOf(e) : e \in S}

-----------------------------------------------------------------------------
(* Safety, whatever fails and wherever the daemon crashes.                 *)

(* The allocator's books are right: the addresses in use are exactly those
   of the entries and of the add under way, no two of them share an address
   or a port, and clients list exactly the active entries.  No error path of
   add() or remove() leaks or doubles an address. *)
PoolAccounted ==
  /\ used = {e.ip : e \in Holders}
  /\ \A d, e \in Holders :
       d # e => d.ip # e.ip /\ d.fwd.port # e.fwd.port
  /\ store = active

(* An entry's proxy runs from the last step but one of add() until the first
   step of remove(). *)
ProxyRuns(e) ==
  /\ e.up
  /\ e = job => pc \in {"record", "stop"}

(* The sockets open are exactly the running proxies of the entries: no
   proxy outlives its entry, and each forwards to the port of its own. *)
ListenersOwned ==
  listeners = {Listener(e) : e \in {h \in Holders : ProxyRuns(h)}}

(* The state file of every entry, until remove() gets to it, holds that
   entry's line: later adds and removes, failed ones too, never touch it. *)
RecordsPresent ==
  \A e \in active : e # job => conf[e.fwd.port] = {LineOf(e)}

(* What an entry has when it is listed: its line in the hosts file, which
   dnsmasq has read or is about to read, unless its state file could not be
   read (writeHostsFile ignores that); and its proxy, unless that failed to
   start. *)
InPlace(e) ==
  /\ LineOf(e) \in hosts \/ e.fwd.port \in unread
  /\ sighup \/ served = hosts
  /\ e.up => Listener(e) \in listeners

(* A mapping is listed last.  A bind that fails and a state file that cannot
   be read are the only errors after which add() lists an entry all the same. *)
ListedLast == [][\A e \in store' \ store : InPlace(e)']_vars

(* The state clients list is the map PortMap describes: no failure and no
   crash makes a listed mapping change in place or share its address. *)
Abstract == INSTANCE PortMap WITH Mapping <- Entry, map <- store
ImplementsPortMap == Abstract!Spec

-----------------------------------------------------------------------------
(* The inductive invariant behind these.                                   *)

Adding == job # NoJob /\ job \notin active

(* Which of add() and remove() is at work, and on what, at each step. *)
JobInv ==
  /\ pc \in {"down", "idle", "scan", "adds", "removes"} => job = NoJob
  /\ pc \in {"conf", "confdata", "proxy", "record"} => Adding
  /\ pc \in {"hosts", "hostsdata", "reload"} => job # NoJob
  /\ pc \in {"stop", "unconf", "drop"} => job \in active

(* The forwards still to add have ports of their own. *)
TodoInv ==
  \A f \in todo : /\ f.port \notin PortsOf(Holders)
                  /\ \A g \in todo : f.port = g.port => f = g

(* What an add has done so far. *)
AddInv ==
  Adding =>
    /\ pc # "record" => ~job.up
    /\ pc \in {"hosts", "hostsdata", "reload", "proxy", "record"} =>
         conf[job.fwd.port] = {LineOf(job)}
    /\ pc \in {"reload", "proxy", "record"} =>
         LineOf(job) \in hosts \/ job.fwd.port \in unread
    /\ pc \in {"proxy", "record"} => sighup \/ served = hosts

IInv ==
  /\ TypeOK
  /\ PoolAccounted
  /\ ListenersOwned
  /\ RecordsPresent
  /\ JobInv
  /\ TodoInv
  /\ AddInv

-----------------------------------------------------------------------------
(* Safety when no call fails and the daemon does not crash.                *)

(* A name never leads to another forward's proxy once dnsmasq has handled
   its last SIGHUP, though addresses are reused: an address goes back to the
   pool only after its old record is gone. *)
NamesLeadHome ==
  ~sighup =>
    \A l \in served, k \in listeners :
      l.ip = k.ip => \E e \in Holders : l = LineOf(e) /\ k = Listener(e)

(* Between two polls, with no SIGHUP on its way, names resolve to exactly
   the listed entries: nothing is missing and nothing is left over. *)
SettledServesAll ==
  pc = "idle" /\ ~sighup => served = LinesOf(store)

(* Every proxy starts: add() never finds its address still taken by the
   proxy of the entry that had it before. *)
AllProxiesUp == \A e \in store : e.up

(* No two entries have the same name (while the cut to 63 characters leaves
   the suffixes apart: SuffixesDistinct). *)
UniqueDomains ==
  \A d, e \in store : d.name = e.name => d = e

(* cleanup() leaves nothing behind. *)
CleanShutdown == pc = "down" => hosts = {} /\ HostLines = {}

-----------------------------------------------------------------------------
(* The inductive invariants behind these.                                  *)

(* Two entries never share a name, each has one of its forward's two. *)
NameInv ==
  /\ \A e \in Holders : e.name \in {PlainName(e.fwd), SuffixedName(e.fwd)}
  /\ \A d, e \in Holders : d.name = e.name => d = e

(* A state file holds the line of the entry on its port; it is empty before
   add() writes it and after remove() deleted it. *)
ConfInv ==
  /\ \A p \in Ports : \A l \in conf[p] :
       \E e \in Holders : e.fwd.port = p /\ l = LineOf(e)
  /\ pc \in {"conf", "confdata"} => conf[job.fwd.port] = {}
  /\ Removing /\ pc \in {"hosts", "hostsdata", "reload", "drop"} =>
       conf[job.fwd.port] = {}

(* The hosts file agrees with the state files except while it is written. *)
HostsInv ==
  /\ hosts \subseteq LinesOf(Holders)
  /\ pc \notin {"hosts", "hostsdata"} => hosts = HostLines

(* So does dnsmasq with the hosts file, when no signal is on its way. *)
ServedInv ==
  ~sighup => /\ served \subseteq LinesOf(Holders)
             /\ pc \notin {"hosts", "hostsdata", "reload"} => served = hosts

(* cleanup() has yet to remove every entry but the one it is at; a daemon
   that is down has no entries; every proxy has started. *)
RunInv ==
  /\ stopping => /\ ~Adding
                 /\ pc \notin {"down", "idle", "scan", "adds"}
                 /\ \A e \in active : e = job \/ e.fwd.port \in leaving
  /\ pc = "down" => active = {}
  /\ \A e \in active : e.up
  /\ pc = "record" => job.up

CleanInv == ConfInv /\ HostsInv /\ ServedInv /\ RunInv

-----------------------------------------------------------------------------
(* Liveness, without failures, under FairSpec.                             *)

Running == pc # "down" /\ ~stopping

Listed(p) == \E e \in store : e.fwd.port = p /\ e.up /\ LineOf(e) \in served

Serviceable ==
  /\ Cardinality({f.port : f \in listening}) <= PoolSize
  /\ \A f \in listening : validHostname(PlainName(f))

(* Once the forwards no longer change, and the pool suffices for them, each
   (with names Manager.Add accepts) gets a name that resolves and a proxy
   that listens, for good: an add that found the pool exhausted by entries
   about to go is made up for. *)
EventuallyMapped ==
  /\ <>[]Running
  /\ <>[][UNCHANGED listening]_vars
  => <>[](Serviceable => \A f \in listening : Listed(f.port))

(* A port nothing listens on any more loses entry, proxy and record. *)
Forgotten(p) ==
  /\ p \notin PortsOf(store)
  /\ \A k \in listeners : k.target # p
  /\ conf[p] = {}

EventuallyForgotten ==
  \A p \in Ports :
    /\ <>[]Running
    /\ <>[](\A f \in listening : f.port # p)
    => <>[]Forgotten(p)

(* cleanup() ends. *)
StopsEventually == stopping ~> pc = "down"

-----------------------------------------------------------------------------
(* What the documents say and the code does not do.                        *)

(* README.md:39, "When the port-forward process exits, the domain, proxy,
   and IP are all cleaned up automatically": an entry does not outlive its
   forward, whoever takes the port next. *)
ExitCleansUp ==
  \A f \in Forwards :
    /\ <>[]Running
    /\ <>[](f \notin listening)
    => <>[](\A e \in store : e.fwd # f)
=============================================================================
